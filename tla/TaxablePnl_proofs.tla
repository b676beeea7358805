------------------------- MODULE TaxablePnl_proofs -------------------------
(***************************************************************************)
(* Proofs about TaxablePnl, for any entries, days, rules and rates: the    *)
(* types of the walk, and that every sell consumes the oldest units of its *)
(* own entity; then, with what sums over finite sets amount to, that the   *)
(* lots left are what is held and that the tax of a year lies between the  *)
(* tax on its net amount and the tax on its gains.                         *)
(***************************************************************************)
EXTENDS TaxablePnl, FiniteSetTheorems, TLAPS

LedgerTypes ==
  /\ rows \subseteq Stores
  /\ nextId \in 1 .. MaxRows + 1
  /\ \A r, s \in rows : r.id = s.id => r = s
  /\ \A r \in rows : r.id < nextId

Matches == [row : WalkableRows, need : Nat, taken : Seq(Pieces)]

WalkTypes ==
  /\ phase \in {"idle", "walk", "tax"}
  /\ todo \subseteq rows
  /\ lots \in [Entities -> Seq(Pieces)]
  /\ sales \subseteq Sales
  /\ selling = NoSale \/ selling \in Matches
  /\ used \in [Entities -> Nat] /\ vanished \in [Entities -> Nat]

\* A report starts from empty queues and taxes only what has been walked.
Phases ==
  /\ phase # "walk" => todo = {} /\ selling = NoSale
  /\ phase = "idle" => lots = Empty /\ sales = {}

\* A sell r has consumed units of a purchase b; units of b are in a queue.
Consumes(r, b) ==
  \E s \in Matched : s.row = r /\ \E i \in DOMAIN s.taken : s.taken[i].buy = b

Queued(e, b) == \E i \in DOMAIN lots[e] : lots[e][i].buy = b

\* The queues are in the order of purchase, and behind what is still to be walked.
QueuesOrdered ==
  /\ \A e \in Entities, b \in rows : Queued(e, b) =>
       /\ b.op.entity = e
       /\ \A t \in todo : Before(b, t)
       /\ selling # NoSale => Before(b, selling.row)
  /\ \A e \in Entities : \A i, j \in DOMAIN lots[e] :
       i < j => Before(lots[e][i].buy, lots[e][j].buy)

\* Sells are matched in order, and each with what was bought before it.
SellsOrdered ==
  /\ selling # NoSale => \A t \in todo : Before(selling.row, t)
  /\ \A r, b \in rows : Consumes(r, b) =>
       /\ b.op.entity = r.op.entity /\ Before(b, r)
       /\ \A t \in todo : Before(r, t)
       /\ selling # NoSale => r = selling.row \/ Before(r, selling.row)

\* No unit consumed is newer than one left, or than one consumed later.
OldestFirst ==
  /\ \A r, b, q \in rows : Consumes(r, b) /\ Queued(r.op.entity, q) => ~Before(q, b)
  /\ \A r, b, s, c \in rows :
       /\ Consumes(r, b) /\ Consumes(s, c)
       /\ s.op.entity = r.op.entity /\ Before(r, s)
       => ~Before(c, b)

WalkInv ==
  LedgerTypes /\ WalkTypes /\ Phases /\ QueuesOrdered /\ SellsOrdered /\ OldestFirst

-----------------------------------------------------------------------------
\* Rows are compared by entity, day and id: a strict partial order.
LEMMA BeforeOrders ==
  ASSUME LedgerTypes, NEW r \in rows, NEW s \in rows, NEW t \in rows
  PROVE  /\ ~Before(r, r)
         /\ Before(r, s) => ~Before(s, r)
         /\ Before(r, s) /\ Before(s, t) => Before(r, t)
<1>1. ASSUME NEW x \in rows
      PROVE  x.op.entity \in Int /\ x.op.at \in Nat /\ x.id \in Nat
  <2>1. x \in Stores
    BY DEF LedgerTypes
  <2>2. x.op \in Entries /\ x.id \in 1 .. MaxRows
    BY <2>1 DEF Stores
  <2>3. x.op.entity \in Entities /\ x.op.at \in Times
    BY <2>2, EntriesAssumption
  <2>4. Entities \subseteq Int /\ Times \subseteq Nat /\ MaxRows \in Nat
    BY EntriesAssumption
  <2>5. \A n \in 1 .. MaxRows : n \in Nat
    BY <2>4
  <2> QED
    BY <2>2, <2>3, <2>4, <2>5
<1> QED
  BY <1>1 DEF Before

LEMMA RowTypes ==
  ASSUME LedgerTypes, NEW r \in rows
  PROVE  /\ r.op.entity \in Entities /\ r.op.qty \in Int
         /\ Walkable(r) => r.op.qty \in Nat \ {0} /\ r.op.total \in Int
<1>1. r \in Stores
  BY DEF LedgerTypes
<1>2. r.op \in Entries
  BY <1>1 DEF Stores
<1>3. r.op.entity \in Entities /\ r.op.qty \in Int /\ r.op.total \in Int \cup {NoTotal}
  BY <1>2, EntriesAssumption
<1> QED
  BY <1>3 DEF Walkable

LEMMA Counted ==
  ASSUME NEW f \in [Entities -> Nat], NEW e \in Entities, NEW n \in Nat
  PROVE  [f EXCEPT ![e] = @ + n] \in [Entities -> Nat]
  OBVIOUS

LEMMA LesserType ==
  ASSUME NEW a \in Nat \ {0}, NEW b \in Nat \ {0}
  PROVE  Lesser(a, b) \in Nat \ {0} /\ Lesser(a, b) <= a /\ Lesser(a, b) <= b
  BY DEF Lesser

\* The rest of a lot is a lot of the same purchase.
LEMMA RestType ==
  ASSUME NEW lot \in Pieces, NEW n \in Nat, n < lot.qty
  PROVE  /\ [lot EXCEPT !.start = @ + n, !.qty = @ - n] \in Pieces
         /\ [lot EXCEPT !.start = @ + n, !.qty = @ - n].buy = lot.buy
         /\ [lot EXCEPT !.start = @ + n, !.qty = @ - n].qty = lot.qty - n
<1>1. /\ lot \in [buy : WalkableRows, start : Nat, qty : Nat \ {0}]
      /\ lot.start + n \in Nat /\ lot.qty - n \in Nat \ {0}
  BY DEF Pieces
<1> QED
  BY <1>1 DEF Pieces

\* What a queue and a sale hold refers to rows.
LEMMA HeldAreRows ==
  ASSUME WalkTypes
  PROVE  /\ \A e \in Entities : \A b : Queued(e, b) => b \in rows
         /\ \A r, b : Consumes(r, b) => r \in rows /\ b \in rows
<1>1. ASSUME NEW q \in Seq(Pieces), NEW i \in DOMAIN q
      PROVE  q[i].buy \in rows
  <2>1. q[i] \in Pieces
    OBVIOUS
  <2> QED
    BY <2>1 DEF Pieces, WalkableRows
<1>2. \A e \in Entities : \A b : Queued(e, b) => b \in rows
  BY <1>1 DEF WalkTypes, Queued
<1>3. ASSUME NEW r, NEW b, Consumes(r, b)
      PROVE  r \in rows /\ b \in rows
  <2>1. PICK s \in Matched : s.row = r /\ \E i \in DOMAIN s.taken : s.taken[i].buy = b
    BY <1>3 DEF Consumes
  <2>2. s \in Sales
    BY <2>1 DEF WalkTypes, Matched, Matches, Sales
  <2>3. s.row \in rows /\ s.taken \in Seq(Pieces)
    BY <2>2 DEF Sales, WalkableRows
  <2> QED
    BY <1>1, <2>1, <2>3
<1> QED
  BY <1>2, <1>3

-----------------------------------------------------------------------------
LEMMA InitWalk == Init => WalkInv
<1> SUFFICES ASSUME Init PROVE WalkInv
  OBVIOUS
<1>1. LedgerTypes
  BY EntriesAssumption DEF Init, LedgerTypes
<1>2. \A e \in Entities : lots[e] = <<>>
  BY DEF Init, Empty
<1>3. WalkTypes
  BY DEF Init, WalkTypes, Empty, Zero, Pieces, Sales
<1>4. Phases
  BY DEF Init, Phases
<1>5. QueuesOrdered /\ SellsOrdered /\ OldestFirst
  BY <1>2 DEF Init, QueuesOrdered, SellsOrdered, OldestFirst
<1> QED
  BY <1>1, <1>3, <1>4, <1>5 DEF WalkInv

\* Without queues, sales and rows to walk, everything about the walk holds.
LEMMA IdleOrders ==
  ASSUME lots = Empty, sales = {}, selling = NoSale
  PROVE  QueuesOrdered /\ SellsOrdered /\ OldestFirst
<1>1. \A e \in Entities : \A b : ~Queued(e, b)
  BY DEF Queued, Empty
<1>2. \A r, b : ~Consumes(r, b)
  BY DEF Consumes, Matched
<1>3. \A e \in Entities : DOMAIN lots[e] = {}
  BY DEF Empty
<1> QED
  BY <1>1, <1>2, <1>3 DEF QueuesOrdered, SellsOrdered, OldestFirst

-----------------------------------------------------------------------------
LEMMA StoredType ==
  ASSUME NEW id \in 1 .. MaxRows, NEW op \in Entries
  PROVE  Stored(id, op) \in Stores /\ Stored(id, op).id = id
<1>1. op.at \in Times
  BY EntriesAssumption
<1> QED
  BY <1>1 DEF Stored, Stores

\* Between reports only the rows change.
LEMMA LedgerStep ==
  ASSUME WalkInv, phase = "idle", LedgerTypes', UNCHANGED <<phase, walk>>
  PROVE  WalkInv'
<1> USE DEF walk
<1>1. /\ lots = Empty /\ sales = {} /\ selling = NoSale /\ todo = {}
      /\ lots' = Empty /\ sales' = {} /\ selling' = NoSale /\ todo' = {}
  BY DEF WalkInv, Phases
<1>2. WalkTypes'
  BY <1>1 DEF WalkInv, WalkTypes, Empty
<1>3. Phases'
  BY <1>1 DEF Phases, Empty
<1>4. (QueuesOrdered /\ SellsOrdered /\ OldestFirst)'
  <2>1. \A e \in Entities : \A b : ~Queued(e, b)'
    BY <1>1 DEF Queued, Empty
  <2>2. \A r, b : ~Consumes(r, b)'
    BY <1>1 DEF Consumes, Matched
  <2>3. \A e \in Entities : DOMAIN lots'[e] = {}
    BY <1>1 DEF Empty
  <2> QED
    BY <1>1, <2>1, <2>2, <2>3 DEF QueuesOrdered, SellsOrdered, OldestFirst
<1> QED
  BY <1>2, <1>3, <1>4 DEF WalkInv

LEMMA EnterWalk == ASSUME WalkInv, NEW op \in Entries, Enter(op) PROVE WalkInv'
<1>1. /\ nextId \in 1 .. MaxRows /\ nextId' = nextId + 1 /\ MaxRows \in Nat
      /\ rows' = rows \cup {Stored(nextId, op)}
  BY EntriesAssumption DEF WalkInv, LedgerTypes, Enter
<1>2. Stored(nextId, op) \in Stores /\ Stored(nextId, op).id = nextId
  BY <1>1, StoredType
<1>3. \A r \in rows : r.id \in Nat /\ r.id < nextId
  <2>1. \A r \in rows : r.id \in 1 .. MaxRows /\ r.id < nextId
    BY DEF WalkInv, LedgerTypes, Stores
  <2> QED
    BY <2>1, <1>1
<1>4. LedgerTypes'
  <2>1. rows' \subseteq Stores /\ nextId' \in 1 .. MaxRows + 1
    BY <1>1, <1>2 DEF WalkInv, LedgerTypes
  <2>2. \A r \in rows' : r.id < nextId'
    BY <1>1, <1>2, <1>3
  <2>3. \A r, s \in rows' : r.id = s.id => r = s
    <3>1. ASSUME NEW r \in rows', NEW s \in rows', r.id = s.id
          PROVE  r = s
      <4>1. CASE r \in rows /\ s \in rows
        BY <3>1, <4>1 DEF WalkInv, LedgerTypes
      <4>2. CASE r \notin rows /\ s \notin rows
        BY <1>1, <4>2
      <4>3. CASE r \in rows /\ s \notin rows
        <5>1. s.id = nextId /\ r.id < nextId /\ r.id \in Nat
          BY <1>1, <1>2, <1>3, <4>3
        <5> QED
          BY <5>1, <3>1
      <4>4. CASE r \notin rows /\ s \in rows
        <5>1. r.id = nextId /\ s.id < nextId /\ s.id \in Nat
          BY <1>1, <1>2, <1>3, <4>4
        <5> QED
          BY <5>1, <3>1
      <4> QED
        BY <4>1, <4>2, <4>3, <4>4
    <3> QED
      BY <3>1
  <2> QED
    BY <2>1, <2>2, <2>3 DEF LedgerTypes
<1> QED
  BY <1>4, LedgerStep DEF Enter

LEMMA EditWalk ==
  ASSUME WalkInv, NEW op \in Entries, NEW r \in rows, Edit(r, op)
  PROVE  WalkInv'
<1>1. r.id \in 1 .. MaxRows /\ r.id < nextId
  BY DEF WalkInv, LedgerTypes, Stores
<1>2. Stored(r.id, op) \in Stores /\ Stored(r.id, op).id = r.id
  BY <1>1, StoredType
<1>3. rows' = (rows \ {r}) \cup {Stored(r.id, op)} /\ nextId' = nextId
  BY DEF Edit
<1>4. \A s \in rows \ {r} : s.id # r.id
  BY DEF WalkInv, LedgerTypes
<1>5. LedgerTypes'
  BY <1>1, <1>2, <1>3, <1>4 DEF WalkInv, LedgerTypes
<1> QED
  BY <1>5, LedgerStep DEF Edit

LEMMA DeleteWalk == ASSUME WalkInv, NEW r \in rows, Delete(r) PROVE WalkInv'
<1>1. LedgerTypes'
  BY DEF WalkInv, LedgerTypes, Delete
<1> QED
  BY <1>1, LedgerStep DEF Delete

-----------------------------------------------------------------------------
\* A report's first step finds nothing queued or matched.
LEMMA ReportWalk == ASSUME WalkInv, Report PROVE WalkInv'
<1>1. lots' = Empty /\ sales' = {} /\ selling' = NoSale /\ todo' \subseteq rows'
  BY DEF WalkInv, Phases, Report, walk, ledger
<1>2. LedgerTypes' /\ WalkTypes' /\ Phases'
  BY <1>1 DEF WalkInv, LedgerTypes, WalkTypes, Phases, Report, ledger,
              WalkableRows, Pieces, Sales, Matches
<1>3. (QueuesOrdered /\ SellsOrdered /\ OldestFirst)'
  <2>1. \A e \in Entities : \A b : ~Queued(e, b)'
    BY <1>1 DEF Queued, Empty
  <2>2. \A r, b : ~Consumes(r, b)'
    BY <1>1 DEF Consumes, Matched
  <2>3. \A e \in Entities : DOMAIN lots'[e] = {}
    BY <1>1 DEF Empty
  <2> QED
    BY <1>1, <2>1, <2>2, <2>3 DEF QueuesOrdered, SellsOrdered, OldestFirst
<1> QED
  BY <1>2, <1>3 DEF WalkInv

LEMMA AnswerWalk == ASSUME WalkInv, Answer PROVE WalkInv'
<1>1. lots' = Empty /\ sales' = {} /\ selling' = NoSale /\ todo' = {} /\ phase' = "idle"
  BY DEF WalkInv, Phases, Answer
<1>2. LedgerTypes' /\ WalkTypes' /\ Phases'
  BY <1>1 DEF WalkInv, LedgerTypes, WalkTypes, Phases, Answer, ledger, Empty, Zero
<1>3. (QueuesOrdered /\ SellsOrdered /\ OldestFirst)'
  <2>1. \A e \in Entities : \A b : ~Queued(e, b)'
    BY <1>1 DEF Queued, Empty
  <2>2. \A r, b : ~Consumes(r, b)'
    BY <1>1 DEF Consumes, Matched
  <2>3. \A e \in Entities : DOMAIN lots'[e] = {}
    BY <1>1 DEF Empty
  <2> QED
    BY <1>1, <2>1, <2>2, <2>3 DEF QueuesOrdered, SellsOrdered, OldestFirst
<1> QED
  BY <1>2, <1>3 DEF WalkInv

\* The taxes are computed from a walk that has ended.
LEMMA TaxesWalk ==
  ASSUME WalkInv, StartTaxes \/ \E i \in items : TaxItem(i)
  PROVE  WalkInv'
<1>1. /\ UNCHANGED <<ledger, walk>>
      /\ phase' = "tax" /\ todo = {} /\ selling = NoSale
  BY DEF WalkInv, Phases, StartTaxes, TaxItem
<1>2. LedgerTypes' /\ WalkTypes' /\ Phases'
  BY <1>1 DEF WalkInv, LedgerTypes, WalkTypes, Phases, ledger, walk,
              Pieces, Sales, Matches, WalkableRows
<1>3. (QueuesOrdered /\ SellsOrdered /\ OldestFirst)'
  BY <1>1 DEF WalkInv, QueuesOrdered, SellsOrdered, OldestFirst, Queued, Consumes,
              Matched, ledger, walk
<1> QED
  BY <1>2, <1>3 DEF WalkInv

\* A row left out changes nothing but what is still to walk.
LEMMA SkipRowWalk ==
  ASSUME WalkInv, NEW r \in todo, SkipRow(r)
  PROVE  WalkInv'
<1>1. /\ rows' = rows /\ nextId' = nextId /\ phase' = phase /\ lots' = lots
      /\ selling' = selling /\ sales' = sales /\ used' = used /\ vanished' = vanished
      /\ todo' = todo \ {r} /\ phase = "walk"
  BY DEF SkipRow, IsNext, ledger
<1>2. LedgerTypes' /\ WalkTypes' /\ Phases'
  BY <1>1 DEF WalkInv, LedgerTypes, WalkTypes, Phases, WalkableRows, Pieces, Sales, Matches
<1>3. \A e, b : Queued(e, b)' <=> Queued(e, b)
  BY <1>1 DEF Queued
<1>4. \A s, b : Consumes(s, b)' <=> Consumes(s, b)
  BY <1>1 DEF Consumes, Matched
<1>5. QueuesOrdered' /\ SellsOrdered' /\ OldestFirst'
  BY <1>1, <1>3, <1>4 DEF WalkInv, QueuesOrdered, SellsOrdered, OldestFirst
<1> QED
  BY <1>2, <1>5 DEF WalkInv

LEMMA SkipSellWalk ==
  ASSUME WalkInv, NEW r \in todo, SkipSell(r)
  PROVE  WalkInv'
<1>1. /\ rows' = rows /\ nextId' = nextId /\ phase' = phase /\ lots' = lots
      /\ selling' = selling /\ sales' = sales /\ used' = used
      /\ todo' = todo \ {r} /\ phase = "walk"
  BY DEF SkipSell, IsNext, ledger
<1>2. vanished' \in [Entities -> Nat]
  <2>1. /\ vanished \in [Entities -> Nat]
        /\ vanished' = [vanished EXCEPT ![r.op.entity] = @ + r.op.qty]
    BY DEF WalkInv, WalkTypes, SkipSell
  <2>2. r.op.entity \in Entities /\ r.op.qty \in Nat
    BY RowTypes DEF WalkInv, WalkTypes, SkipSell
  <2> QED
    BY <2>1, <2>2, Counted
<1>3. LedgerTypes' /\ WalkTypes' /\ Phases'
  BY <1>1, <1>2 DEF WalkInv, LedgerTypes, WalkTypes, Phases, WalkableRows,
              Pieces, Sales, Matches
<1>4. \A e, b : Queued(e, b)' <=> Queued(e, b)
  BY <1>1 DEF Queued
<1>5. \A s, b : Consumes(s, b)' <=> Consumes(s, b)
  BY <1>1 DEF Consumes, Matched
<1>6. QueuesOrdered' /\ SellsOrdered' /\ OldestFirst'
  BY <1>1, <1>4, <1>5 DEF WalkInv, QueuesOrdered, SellsOrdered, OldestFirst
<1> QED
  BY <1>3, <1>6 DEF WalkInv

LEMMA BeginSellWalk ==
  ASSUME WalkInv, NEW r \in todo, BeginSell(r)
  PROVE  WalkInv'
<1>1. /\ rows' = rows /\ nextId' = nextId /\ phase' = phase /\ lots' = lots
      /\ sales' = sales /\ used' = used /\ vanished' = vanished
      /\ todo' = todo \ {r} /\ phase = "walk" /\ selling = NoSale
      /\ selling' = [row |-> r, need |-> r.op.qty, taken |-> <<>>]
      /\ Walkable(r) /\ \A t \in todo' : Before(r, t)
  BY DEF BeginSell, IsNext, ledger
<1>2. r \in rows /\ r.op.qty \in Nat
  BY <1>1, RowTypes DEF WalkInv, WalkTypes
<1>3. selling' \in Matches
  BY <1>1, <1>2 DEF Matches, WalkableRows
<1>4. LedgerTypes' /\ WalkTypes' /\ Phases'
  BY <1>1, <1>3 DEF WalkInv, LedgerTypes, WalkTypes, Phases, WalkableRows,
              Pieces, Sales, Matches
<1>5. \A e, b : Queued(e, b)' <=> Queued(e, b)
  BY <1>1 DEF Queued
<1>6. \A s, b : Consumes(s, b)' => Consumes(s, b)
  BY <1>1 DEF Consumes, Matched
<1>7. QueuesOrdered'
  BY <1>1, <1>2, <1>5 DEF WalkInv, QueuesOrdered
<1>8. SellsOrdered'
  BY <1>1, <1>2, <1>6 DEF WalkInv, SellsOrdered
<1>9. OldestFirst'
  BY <1>1, <1>5, <1>6 DEF WalkInv, OldestFirst
<1> QED
  BY <1>4, <1>7, <1>8, <1>9 DEF WalkInv

LEMMA FinishSellWalk == ASSUME WalkInv, FinishSell PROVE WalkInv'
<1>1. /\ rows' = rows /\ nextId' = nextId /\ phase' = phase /\ lots' = lots
      /\ used' = used /\ todo' = todo
      /\ selling # NoSale /\ selling' = NoSale
      /\ sales' = sales \cup {[row |-> selling.row, taken |-> selling.taken]}
  BY DEF FinishSell, ledger
<1>2. selling \in Matches
  BY <1>1 DEF WalkInv, WalkTypes
<1>3. [row |-> selling.row, taken |-> selling.taken] \in Sales
  BY <1>2 DEF Matches, Sales
<1>4. vanished' \in [Entities -> Nat]
  <2>1. /\ vanished \in [Entities -> Nat]
        /\ vanished' = [vanished EXCEPT ![selling.row.op.entity] = @ + selling.need]
    BY DEF WalkInv, WalkTypes, FinishSell
  <2>2. selling.row.op.entity \in Entities /\ selling.need \in Nat
    BY <1>2, RowTypes DEF WalkInv, Matches, WalkableRows
  <2> QED
    BY <2>1, <2>2, Counted
<1>5. phase = "walk"
  BY <1>1 DEF WalkInv, Phases
<1>6. LedgerTypes' /\ WalkTypes' /\ Phases'
  BY <1>1, <1>3, <1>4, <1>5 DEF WalkInv, LedgerTypes, WalkTypes, Phases, WalkableRows,
              Pieces, Sales, Matches
<1>7. \A e, b : Queued(e, b)' <=> Queued(e, b)
  BY <1>1 DEF Queued
<1>8. \A s, b : Consumes(s, b)' <=> Consumes(s, b)
  BY <1>1 DEF Consumes, Matched
<1>9. QueuesOrdered' /\ OldestFirst'
  BY <1>1, <1>7, <1>8 DEF WalkInv, QueuesOrdered, OldestFirst
<1>10. SellsOrdered'
  BY <1>1, <1>8 DEF WalkInv, SellsOrdered
<1> QED
  BY <1>6, <1>9, <1>10 DEF WalkInv

-----------------------------------------------------------------------------
\* The lot of a purchase.
LEMMA LotIsPiece ==
  ASSUME WalkInv, NEW r \in rows, Walkable(r)
  PROVE  Lot(r) \in Pieces /\ Lot(r).buy = r /\ Lot(r).qty = r.op.qty
<1> DEFINE f == r.op.entity
<1>1. f \in Entities /\ r.op.qty \in Nat \ {0}
  BY RowTypes DEF WalkInv
<1>2. lots \in [Entities -> Seq(Pieces)] /\ lots[f] \in Seq(Pieces) /\ used[f] \in Nat
  BY <1>1 DEF WalkInv, WalkTypes
<1>3. Bought(f) \in Nat
  <2>1. CASE lots[f] = <<>>
    BY <2>1, <1>2 DEF Bought
  <2>2. CASE lots[f] # <<>>
    <3>1. lots[f][Len(lots[f])] \in Pieces
      BY <1>2, <2>2
    <3> QED
      BY <3>1, <2>2 DEF Bought, Pieces
  <2> QED
    BY <2>1, <2>2
<1> QED
  BY <1>1, <1>3 DEF Lot, Pieces, WalkableRows

\* A purchase is newer than what is queued and than every sell matched.
LEMMA WalkBuyWalk ==
  ASSUME WalkInv, NEW r \in todo, WalkBuy(r)
  PROVE  WalkInv'
<1> DEFINE f == r.op.entity
<1>1. /\ rows' = rows /\ nextId' = nextId /\ phase' = phase /\ phase = "walk"
      /\ selling' = selling /\ selling = NoSale /\ sales' = sales
      /\ used' = used /\ vanished' = vanished
      /\ Walkable(r) /\ todo' = todo \ {r} /\ \A t \in todo' : Before(r, t)
      /\ lots' = [lots EXCEPT ![f] = Append(@, Lot(r))]
  BY DEF WalkBuy, IsNext, ledger
<1>2. r \in rows /\ f \in Entities /\ r.op.qty \in Nat \ {0}
  BY <1>1, RowTypes DEF WalkInv, WalkTypes
<1>3. lots \in [Entities -> Seq(Pieces)] /\ lots[f] \in Seq(Pieces) /\ used[f] \in Nat
  BY <1>2 DEF WalkInv, WalkTypes
<1>4. Lot(r) \in Pieces /\ Lot(r).buy = r
  BY <1>1, <1>2, LotIsPiece
<1> HIDE DEF f
<1>5. lots' \in [Entities -> Seq(Pieces)]
  BY <1>1, <1>2, <1>3, <1>4
<1>6. LedgerTypes' /\ WalkTypes' /\ Phases'
  BY <1>1, <1>5 DEF WalkInv, LedgerTypes, WalkTypes, Phases, WalkableRows,
              Pieces, Sales, Matches
<1>7. /\ Len(lots'[f]) = Len(lots[f]) + 1
      /\ \A i \in 1 .. Len(lots[f]) : lots'[f][i] = lots[f][i]
      /\ lots'[f][Len(lots[f]) + 1].buy = r
      /\ DOMAIN lots[f] = 1 .. Len(lots[f]) /\ DOMAIN lots'[f] = 1 .. Len(lots[f]) + 1
      /\ Len(lots[f]) \in Nat
      /\ \A e \in Entities \ {f} : lots'[e] = lots[e]
  BY <1>1, <1>2, <1>3, <1>4
<1>8. \A e \in Entities : \A b : Queued(e, b)' => Queued(e, b) \/ (e = f /\ b = r)
  BY <1>7 DEF Queued
<1>9. \A s, b : Consumes(s, b)' <=> Consumes(s, b)
  BY <1>1 DEF Consumes, Matched
<1>10. QueuesOrdered'
  <2>1. ASSUME NEW e \in Entities, NEW b \in rows', Queued(e, b)'
        PROVE  b.op.entity = e /\ \A t \in todo' : Before(b, t)
    BY <2>1, <1>1, <1>8 DEF WalkInv, QueuesOrdered, f
  <2>2. ASSUME NEW e \in Entities, NEW i \in DOMAIN lots'[e], NEW j \in DOMAIN lots'[e], i < j
        PROVE  Before(lots'[e][i].buy, lots'[e][j].buy)
    <3>1. CASE e # f
      BY <3>1, <2>2, <1>7 DEF WalkInv, QueuesOrdered
    <3>2. CASE e = f /\ j <= Len(lots[f])
      <4>1. /\ i \in DOMAIN lots[f] /\ j \in DOMAIN lots[f]
            /\ lots'[f][i] = lots[f][i] /\ lots'[f][j] = lots[f][j]
        BY <3>2, <2>2, <1>7
      <4> QED
        BY <4>1, <3>2, <2>2, <1>2 DEF WalkInv, QueuesOrdered
    <3>3. CASE e = f /\ ~(j <= Len(lots[f]))
      <4>1. j = Len(lots[f]) + 1 /\ i \in DOMAIN lots[f] /\ lots'[f][i] = lots[f][i]
        BY <3>3, <2>2, <1>7
      <4>2. Queued(f, lots[f][i].buy)
        BY <4>1 DEF Queued
      <4>3. lots[f][i].buy \in rows
        BY <4>2, <1>2, HeldAreRows DEF WalkInv
      <4>4. Before(lots[f][i].buy, r)
        BY <4>2, <4>3, <1>2 DEF WalkInv, QueuesOrdered
      <4> QED
        BY <4>1, <4>4, <3>3, <1>7
    <3> QED
      BY <3>1, <3>2, <3>3
  <2> QED
    BY <2>1, <2>2, <1>1 DEF QueuesOrdered
<1>11. SellsOrdered'
  BY <1>1, <1>9 DEF WalkInv, SellsOrdered
<1>12. OldestFirst'
  <2>1. ASSUME NEW s \in rows, NEW b \in rows, NEW q \in rows,
               Consumes(s, b), Queued(s.op.entity, q)'
        PROVE  ~Before(q, b)
    <3>1. s.op.entity \in Entities
      BY RowTypes DEF WalkInv
    <3>2. CASE Queued(s.op.entity, q)
      BY <3>2, <2>1 DEF WalkInv, OldestFirst
    <3>3. CASE q = r
      <4>1. Before(b, s) /\ Before(s, r)
        BY <2>1 DEF WalkInv, SellsOrdered
      <4>2. Before(b, r)
        BY <4>1, <1>2, BeforeOrders DEF WalkInv
      <4> QED
        BY <4>2, <3>3, <1>2, BeforeOrders DEF WalkInv
    <3> QED
      BY <3>1, <3>2, <3>3, <2>1, <1>8
  <2> QED
    BY <2>1, <1>1, <1>9 DEF WalkInv, OldestFirst
<1> QED
  BY <1>6, <1>10, <1>11, <1>12 DEF WalkInv

-----------------------------------------------------------------------------
\* A sequence keeps its length and its other members when the first is replaced.
LEMMA HeadReplaced ==
  ASSUME NEW S, NEW q \in Seq(S), NEW x \in S, 1 \in DOMAIN q
  PROVE  /\ [q EXCEPT ![1] = x] \in Seq(S)
         /\ Len([q EXCEPT ![1] = x]) = Len(q) /\ Len(q) \in Nat
         /\ DOMAIN [q EXCEPT ![1] = x] = 1 .. Len(q) /\ DOMAIN q = 1 .. Len(q)
         /\ \A i \in 1 .. Len(q) : [q EXCEPT ![1] = x][i] = IF i = 1 THEN x ELSE q[i]
OBVIOUS

\* The head of a sequence that is not empty is one of its members.
LEMMA HeadMember ==
  ASSUME NEW S, NEW q \in Seq(S), q # <<>>
  PROVE  Head(q) \in S /\ Head(q) = q[1] /\ 1 \in DOMAIN q
OBVIOUS

\* A lot loses units or leaves from the front of its queue.
LEMMA TakeWalk == ASSUME WalkInv, Take PROVE WalkInv'
<1> DEFINE f == selling.row.op.entity
           lot == Head(lots[f])
           part == Lesser(lot.qty, selling.need)
           piece == [lot EXCEPT !.qty = part]
           rest == [lot EXCEPT !.start = @ + part, !.qty = @ - part]
           d == IF part >= lot.qty THEN 1 ELSE 0
           q == lots[f]
           p == IF part >= lot.qty THEN Tail(q) ELSE [q EXCEPT ![1] = rest]
<1>1. /\ rows' = rows /\ nextId' = nextId /\ phase' = phase /\ todo' = todo
      /\ sales' = sales /\ vanished' = vanished
      /\ selling # NoSale /\ selling.need > 0 /\ q # <<>>
      /\ selling' = [selling EXCEPT !.need = @ - part, !.taken = Append(@, piece)]
      /\ used' = [used EXCEPT ![f] = @ + part]
  BY DEF Take, ledger
<1>2. lots' = [lots EXCEPT ![f] = p]
  BY DEF Take
<1>3. selling \in Matches
  BY <1>1 DEF WalkInv, WalkTypes
<1>4. /\ selling.row \in rows /\ selling.need \in Nat \ {0}
      /\ selling.taken \in Seq(Pieces) /\ f \in Entities
  BY <1>1, <1>3, RowTypes DEF WalkInv, Matches, WalkableRows
<1>5. q \in Seq(Pieces) /\ lots \in [Entities -> Seq(Pieces)] /\ used \in [Entities -> Nat]
  BY <1>4 DEF WalkInv, WalkTypes
<1>6. lot \in Pieces /\ lot = q[1] /\ 1 \in DOMAIN q
  <2>1. q \in Seq(Pieces) /\ q # <<>>
    BY <1>1, <1>5
  <2> HIDE DEF q
  <2> QED
    BY <2>1, HeadMember DEF q
<1>7. lot.buy \in rows /\ lot.start \in Nat /\ lot.qty \in Nat \ {0}
  BY <1>6 DEF Pieces, WalkableRows
<1>8. part \in Nat \ {0} /\ part <= lot.qty /\ part <= selling.need
  BY <1>4, <1>7, LesserType
<1>9. piece \in Pieces /\ piece.buy = lot.buy
  BY <1>6, <1>8 DEF Pieces
<1> HIDE DEF part, lot
<1>10. part < lot.qty => rest \in Pieces /\ rest.buy = lot.buy
  BY <1>6, <1>8, RestType
<1> HIDE DEF piece, rest
<1>11. /\ p \in Seq(Pieces) /\ Len(p) = Len(q) - d /\ Len(q) \in Nat /\ d \in {0, 1}
       /\ DOMAIN p = 1 .. Len(q) - d /\ DOMAIN q = 1 .. Len(q)
       /\ \A i \in DOMAIN p : i + d \in DOMAIN q /\ p[i].buy = q[i + d].buy
  <2>1. CASE part >= lot.qty
    <3>1. p = Tail(q) /\ d = 1
      BY <2>1
    <3>2. /\ Tail(q) \in Seq(Pieces) /\ Len(Tail(q)) = Len(q) - 1 /\ Len(q) \in Nat
          /\ DOMAIN Tail(q) = 1 .. Len(q) - 1 /\ DOMAIN q = 1 .. Len(q)
          /\ \A i \in 1 .. Len(q) - 1 : Tail(q)[i] = q[i + 1] /\ i + 1 \in 1 .. Len(q)
      BY <1>1, <1>5
    <3> QED
      BY <3>1, <3>2
  <2>2. CASE ~(part >= lot.qty)
    <3>1. p = [q EXCEPT ![1] = rest] /\ d = 0 /\ rest \in Pieces /\ rest.buy = q[1].buy
      BY <2>2, <1>6, <1>7, <1>8, <1>10
    <3> HIDE DEF p, d, q
    <3>2. /\ [q EXCEPT ![1] = rest] \in Seq(Pieces)
          /\ Len([q EXCEPT ![1] = rest]) = Len(q) /\ Len(q) \in Nat
          /\ DOMAIN [q EXCEPT ![1] = rest] = 1 .. Len(q) /\ DOMAIN q = 1 .. Len(q)
          /\ \A i \in 1 .. Len(q) :
               [q EXCEPT ![1] = rest][i] = IF i = 1 THEN rest ELSE q[i]
      BY <3>1, <1>5, <1>6, HeadReplaced
    <3>3. \A i \in 1 .. Len(q) : p[i].buy = q[i].buy /\ i + 0 = i
      BY <3>1, <3>2
    <3>4. DOMAIN p = 1 .. Len(q) /\ Len(p) = Len(q) /\ p \in Seq(Pieces)
      BY <3>1, <3>2
    <3>5. \A i \in DOMAIN p : i + d \in DOMAIN q /\ p[i].buy = q[i + d].buy
      <4>1. ASSUME NEW i \in DOMAIN p
            PROVE  i + d = i
        BY <3>1, <3>4
      <4> QED
        BY <4>1, <3>2, <3>3, <3>4
    <3>6. Len(q) - d = Len(q)
      BY <3>1, <3>2
    <3> QED
      BY <3>1, <3>2, <3>4, <3>5, <3>6
  <2> QED
    BY <2>1, <2>2
<1> HIDE DEF p, d
<1>12. lots'[f] = p /\ \A e \in Entities \ {f} : lots'[e] = lots[e]
  BY <1>2, <1>4, <1>5
<1>13. selling' \in Matches /\ selling'.row = selling.row
       /\ selling'.taken = Append(selling.taken, piece)
  <2>1. selling.need - part \in Nat /\ Append(selling.taken, piece) \in Seq(Pieces)
    BY <1>4, <1>8, <1>9
  <2> QED
    BY <1>1, <1>3, <2>1 DEF Matches
<1>14. LedgerTypes' /\ WalkTypes' /\ Phases'
  <2>1. lots' \in [Entities -> Seq(Pieces)]
    BY <1>2, <1>4, <1>5, <1>11
  <2>2. used' \in [Entities -> Nat]
    BY <1>1, <1>4, <1>5, <1>8, Counted
  <2>3. phase = "walk"
    BY <1>1 DEF WalkInv, Phases
  <2> QED
    BY <1>1, <1>13, <2>1, <2>2, <2>3
    DEF WalkInv, LedgerTypes, WalkTypes, Phases, WalkableRows,
              Pieces, Sales, Matches
<1>15. \A e \in Entities : \A b : Queued(e, b)' => Queued(e, b)
  <2>1. ASSUME NEW e \in Entities, NEW b, NEW i \in DOMAIN lots'[e], lots'[e][i].buy = b
        PROVE  \E j \in DOMAIN lots[e] : lots[e][j].buy = b
    <3>1. CASE e # f
      BY <3>1, <2>1, <1>12
    <3>2. CASE e = f
      <4>1. i + d \in DOMAIN lots[f] /\ lots[f][i + d].buy = b
        BY <3>2, <2>1, <1>11, <1>12
      <4> QED
        BY <4>1, <3>2
    <3> QED
      BY <3>1, <3>2
  <2> QED
    BY <2>1 DEF Queued
<1>16. Queued(f, lot.buy)
  BY <1>6 DEF Queued
<1>17. \A s, b : Consumes(s, b)' => Consumes(s, b) \/ (s = selling.row /\ b = lot.buy)
  <2>1. ASSUME NEW s, NEW b, Consumes(s, b)'
        PROVE  Consumes(s, b) \/ (s = selling.row /\ b = lot.buy)
    <3>1. PICK m \in Matched' : m.row = s /\ \E i \in DOMAIN m.taken : m.taken[i].buy = b
      BY <2>1 DEF Consumes
    <3>2. CASE m \in sales
      BY <3>1, <3>2 DEF Consumes, Matched
    <3>3. CASE m = [row |-> selling'.row, taken |-> selling'.taken]
      <4>1. PICK i \in DOMAIN Append(selling.taken, piece) :
              Append(selling.taken, piece)[i].buy = b
        BY <3>1, <3>3, <1>13
      <4>2. s = selling.row
        BY <3>1, <3>3, <1>13
      <4>3. CASE i \in DOMAIN selling.taken
        <5>1. selling.taken[i].buy = b
          BY <4>1, <4>3, <1>4
        <5>2. [row |-> selling.row, taken |-> selling.taken] \in Matched
          BY <1>1 DEF Matched
        <5> QED
          BY <5>1, <5>2, <4>2, <4>3 DEF Consumes
      <4>4. CASE i \notin DOMAIN selling.taken
        <5>1. Append(selling.taken, piece)[i] = piece
          BY <4>1, <4>4, <1>4
        <5> QED
          BY <5>1, <4>1, <4>2, <1>9
      <4> QED
        BY <4>3, <4>4
    <3> QED
      BY <3>1, <3>2, <3>3, <1>1 DEF Matched
  <2> QED
    BY <2>1
<1>18. /\ lot.buy.op.entity = f /\ Before(lot.buy, selling.row)
       /\ \A t \in todo : Before(selling.row, t)
  BY <1>1, <1>4, <1>7, <1>16 DEF WalkInv, QueuesOrdered, SellsOrdered
<1> HIDE DEF f, lot, q
<1>19. QueuesOrdered'
  <2>1. ASSUME NEW e \in Entities, NEW i \in DOMAIN lots'[e], NEW j \in DOMAIN lots'[e], i < j
        PROVE  Before(lots'[e][i].buy, lots'[e][j].buy)
    <3>1. CASE e # f
      BY <3>1, <2>1, <1>12 DEF WalkInv, QueuesOrdered
    <3>2. CASE e = f
      <4>1. /\ i + d \in DOMAIN q /\ j + d \in DOMAIN q /\ i + d < j + d
            /\ p[i].buy = q[i + d].buy /\ p[j].buy = q[j + d].buy
        BY <3>2, <2>1, <1>11, <1>12
      <4> QED
        BY <4>1, <3>2, <1>4, <1>12 DEF WalkInv, QueuesOrdered, q
    <3> QED
      BY <3>1, <3>2
  <2>2. ASSUME NEW e \in Entities, NEW b \in rows, Queued(e, b)'
        PROVE  /\ b.op.entity = e
               /\ \A t \in todo : Before(b, t)
               /\ Before(b, selling.row)
    BY <2>2, <1>1, <1>15 DEF WalkInv, QueuesOrdered
  <2> QED
    BY <2>1, <2>2, <1>1, <1>13 DEF QueuesOrdered
<1>20. SellsOrdered'
  <2>1. ASSUME NEW s \in rows, NEW b \in rows, Consumes(s, b)'
        PROVE  /\ b.op.entity = s.op.entity /\ Before(b, s)
               /\ \A t \in todo : Before(s, t)
               /\ s = selling.row \/ Before(s, selling.row)
    <3>1. CASE Consumes(s, b)
      BY <3>1, <1>1 DEF WalkInv, SellsOrdered
    <3>2. CASE s = selling.row /\ b = lot.buy
      BY <3>2, <1>18 DEF f
    <3> QED
      BY <2>1, <3>1, <3>2, <1>17
  <2> QED
    BY <2>1, <1>1, <1>13, <1>18 DEF SellsOrdered
<1>21. OldestFirst'
  <2>1. ASSUME NEW s \in rows, NEW b \in rows, NEW c \in rows,
               Consumes(s, b)', Queued(s.op.entity, c)'
        PROVE  ~Before(c, b)
    <3>1. s.op.entity \in Entities
      BY RowTypes DEF WalkInv
    <3>2. Queued(s.op.entity, c)
      BY <2>1, <3>1, <1>15
    <3>3. CASE Consumes(s, b)
      BY <3>2, <3>3 DEF WalkInv, OldestFirst
    <3>4. CASE s = selling.row /\ b = lot.buy
      <4>1. PICK i \in DOMAIN q : q[i].buy = c
        BY <3>2, <3>4 DEF Queued, f, q
      <4>2. i = 1 \/ 1 < i
        BY <1>11
      <4>3. c = lot.buy \/ Before(lot.buy, c)
        BY <4>1, <4>2, <1>4, <1>6 DEF WalkInv, QueuesOrdered, q
      <4> QED
        BY <4>3, <3>4, <1>7, BeforeOrders DEF WalkInv
    <3> QED
      BY <2>1, <3>3, <3>4, <1>17
  <2>2. ASSUME NEW r \in rows, NEW b \in rows, NEW s \in rows, NEW c \in rows,
               Consumes(r, b)', Consumes(s, c)',
               s.op.entity = r.op.entity, Before(r, s)
        PROVE  ~Before(c, b)
    <3>1. CASE Consumes(r, b) /\ Consumes(s, c)
      BY <3>1, <2>2 DEF WalkInv, OldestFirst
    <3>2. CASE Consumes(r, b) /\ s = selling.row /\ c = lot.buy
      BY <3>2, <2>2, <1>16 DEF WalkInv, OldestFirst, f
    <3>3. CASE r = selling.row /\ s = selling.row
      BY <3>3, <2>2, BeforeOrders DEF WalkInv
    <3>4. CASE r = selling.row /\ Consumes(s, c)
      <4>1. s = selling.row \/ Before(s, selling.row)
        BY <3>4, <1>1 DEF WalkInv, SellsOrdered
      <4> QED
        BY <4>1, <3>4, <2>2, BeforeOrders DEF WalkInv
    <3> QED
      BY <2>2, <3>1, <3>2, <3>3, <3>4, <1>17
  <2> QED
    BY <2>1, <2>2, <1>1 DEF OldestFirst
<1> QED
  BY <1>14, <1>19, <1>20, <1>21 DEF WalkInv

-----------------------------------------------------------------------------
LEMMA NextWalk == WalkInv /\ [Next]_vars => WalkInv'
<1> SUFFICES ASSUME WalkInv, [Next]_vars PROVE WalkInv'
  OBVIOUS
<1>1. CASE Next
  BY <1>1, EnterWalk, EditWalk, DeleteWalk, ReportWalk, SkipRowWalk, WalkBuyWalk,
     SkipSellWalk, BeginSellWalk, TakeWalk, FinishSellWalk, TaxesWalk, AnswerWalk DEF Next
<1>2. CASE UNCHANGED vars
  <2>1. LedgerTypes' /\ WalkTypes' /\ Phases'
    BY <1>2 DEF vars, WalkInv, LedgerTypes, WalkTypes, Phases, WalkableRows,
              Pieces, Sales, Matches
  <2>2. \A e, b : Queued(e, b)' <=> Queued(e, b)
    BY <1>2 DEF vars, Queued
  <2>3. \A s, b : Consumes(s, b)' <=> Consumes(s, b)
    BY <1>2 DEF vars, Consumes, Matched
  <2>4. QueuesOrdered' /\ SellsOrdered' /\ OldestFirst'
    BY <1>2, <2>2, <2>3 DEF vars, WalkInv, QueuesOrdered, SellsOrdered, OldestFirst
  <2> QED
    BY <2>1, <2>4 DEF WalkInv
<1> QED
  BY <1>1, <1>2

\* The walk of compute_fifo keeps its types, its queues in the order of purchase and its
\* sells in the order of sale, whatever rows requests entered, edited and deleted before.
THEOREM WalkInvariant == Spec => []WalkInv
<1> QED
  BY InitWalk, NextWalk, PTL DEF Spec

\* Every sell consumes the oldest units of its own entity that were bought before it and
\* no earlier sell consumed, for any rows entered in any order (compute_fifo).
THEOREM SellsAreFirstInFirstOut == Spec => []FirstInFirstOut
<1>1. ASSUME WalkInv PROVE FirstInFirstOut
  <2>1. ASSUME NEW s \in Matched, NEW i \in DOMAIN s.taken
        PROVE  /\ s.taken[i].buy.op.entity = s.row.op.entity
               /\ Before(s.taken[i].buy, s.row)
               /\ \A t \in Matched : \A j \in DOMAIN t.taken :
                    t.row.op.entity = s.row.op.entity /\ Before(s.row, t.row)
                      => ~Before(t.taken[j].buy, s.taken[i].buy)
               /\ \A j \in DOMAIN lots[s.row.op.entity] :
                    ~Before(lots[s.row.op.entity][j].buy, s.taken[i].buy)
    <3>1. Consumes(s.row, s.taken[i].buy)
      BY DEF Consumes
    <3>2. s.row \in rows /\ s.taken[i].buy \in rows
      BY <3>1, <1>1, HeldAreRows DEF WalkInv
    <3>3. ASSUME NEW t \in Matched, NEW j \in DOMAIN t.taken,
                 t.row.op.entity = s.row.op.entity, Before(s.row, t.row)
          PROVE  ~Before(t.taken[j].buy, s.taken[i].buy)
      <4>1. Consumes(t.row, t.taken[j].buy)
        BY DEF Consumes
      <4>2. t.row \in rows /\ t.taken[j].buy \in rows
        BY <4>1, <1>1, HeldAreRows DEF WalkInv
      <4> QED
        BY <3>1, <3>2, <3>3, <4>1, <4>2, <1>1 DEF WalkInv, OldestFirst
    <3>4. ASSUME NEW j \in DOMAIN lots[s.row.op.entity]
          PROVE  ~Before(lots[s.row.op.entity][j].buy, s.taken[i].buy)
      <4>1. Queued(s.row.op.entity, lots[s.row.op.entity][j].buy)
        BY DEF Queued
      <4>2. s.row.op.entity \in Entities
        BY <3>2, <1>1, RowTypes DEF WalkInv
      <4>3. lots[s.row.op.entity][j].buy \in rows
        BY <4>1, <4>2, <1>1, HeldAreRows DEF WalkInv
      <4> QED
        BY <3>1, <3>2, <4>1, <4>3, <1>1 DEF WalkInv, OldestFirst
    <3> QED
      BY <3>1, <3>2, <3>3, <3>4, <1>1 DEF WalkInv, SellsOrdered
  <2> QED
    BY <2>1 DEF FirstInFirstOut
<1> QED
  BY <1>1, WalkInvariant, PTL

-----------------------------------------------------------------------------
(* Finite sets by their size, counting up to it.                            *)

LEMMA CountUp ==
  ASSUME NEW Q, 0 \in Q, \A n \in Nat : n \in Q => n + 1 \in Q
  PROVE  Nat \subseteq Q
<1> SUFFICES ASSUME Nat \ Q # {}
             PROVE  FALSE
  OBVIOUS
<1>1. PICK m \in Nat \ Q : \A k \in Nat \ Q : <<k, m>> \notin OpToRel(<, Nat)
  BY NatLessThanWellFounded, WFMin, Nat \ Q \subseteq Nat
<1>2. m # 0 /\ m - 1 \in Nat /\ m - 1 < m
  OBVIOUS
<1>3. m - 1 \notin Q
  BY <1>2
<1>4. <<m - 1, m>> \in OpToRel(<, Nat)
  BY <1>2 DEF OpToRel
<1> QED
  BY <1>1, <1>2, <1>3, <1>4

\* A set of n + 1 elements has one, and n without it.
LEMMA OneLess ==
  ASSUME NEW S, IsFiniteSet(S), NEW n \in Nat, Cardinality(S) = n + 1
  PROVE  S # {} /\ \A x \in S : IsFiniteSet(S \ {x}) /\ Cardinality(S \ {x}) = n
<1>1. S # {}
  <2>1. Cardinality(S) # 0
    OBVIOUS
  <2> QED
    BY <2>1, FS_EmptySet
<1>2. ASSUME NEW x \in S
      PROVE  IsFiniteSet(S \ {x}) /\ Cardinality(S \ {x}) = n
  <2>1. IsFiniteSet(S \ {x}) /\ Cardinality(S \ {x}) = Cardinality(S) - 1
    BY FS_RemoveElement
  <2> QED
    BY <2>1
<1> QED
  BY <1>1, <1>2

LEMMA GrowSet ==
  ASSUME NEW S, IsFiniteSet(S), NEW Q, {} \in Q,
         \A T \in SUBSET S : \A x \in S \ T : T \in Q => T \cup {x} \in Q
  PROVE  S \in Q
<1> DEFINE P == {n \in Nat : \A T \in SUBSET S : Cardinality(T) = n => T \in Q}
<1>1. 0 \in P
  BY FS_Subset, FS_EmptySet
<1>2. ASSUME NEW n \in Nat, n \in P
      PROVE  n + 1 \in P
  <2> SUFFICES ASSUME NEW T \in SUBSET S, Cardinality(T) = n + 1
               PROVE  T \in Q
    OBVIOUS
  <2>1. IsFiniteSet(T)
    BY FS_Subset
  <2>2. T # {} /\ \A x \in T : Cardinality(T \ {x}) = n
    BY <2>1, OneLess
  <2>3. PICK x \in T : TRUE
    BY <2>2
  <2>4. T \ {x} \in SUBSET S /\ Cardinality(T \ {x}) = n /\ x \in S \ (T \ {x})
    BY <2>2
  <2>5. T \ {x} \in Q
    BY <1>2, <2>4
  <2>6. (T \ {x}) \cup {x} = T
    BY <2>3
  <2>7. (T \ {x}) \cup {x} \in Q
    BY <2>4, <2>5
  <2> QED
    BY <2>6, <2>7
<1> HIDE DEF P
<1>3. Nat \subseteq P
  BY <1>1, <1>2, CountUp
<1>4. Cardinality(S) \in P
  BY <1>3, FS_CardinalityType
<1> QED
  BY <1>4 DEF P

-----------------------------------------------------------------------------
(* Sums over finite sets.                                                  *)

Some(s) == CHOOSE x \in s : TRUE

Adds(g, f, S) == g = [s \in SUBSET S |-> IF s = {} THEN 0 ELSE f[Some(s)] + g[s \ {Some(s)}]]

LEMMA SumIsIteration ==
  ASSUME NEW f, NEW S
  PROVE  SumFunctionOnSet(f, S) = (CHOOSE g : Adds(g, f, S))[S]
BY DEF SumFunctionOnSet, FoldFunctionOnSet, MapThenFoldSet, Adds, Some

\* The iteration exists: up to each size of the subsets.
LEMMA IterationExists ==
  ASSUME NEW f, NEW S, IsFiniteSet(S)
  PROVE  \E g : Adds(g, f, S)
<1> DEFINE Upto(n) == {s \in SUBSET S : Cardinality(s) <= n}
           Built(n) == \E g : g = [s \in Upto(n) |->
                         IF s = {} THEN 0 ELSE f[Some(s)] + g[s \ {Some(s)}]]
           P == {n \in Nat : Built(n)}
<1>0. \A s \in SUBSET S : /\ IsFiniteSet(s) /\ Cardinality(s) \in Nat
                          /\ Cardinality(s) <= Cardinality(S)
  BY FS_Subset, FS_CardinalityType
<1>1. 0 \in P
  <2> DEFINE g == [s \in Upto(0) |-> 0]
  <2>1. \A s \in Upto(0) : s = {}
    BY <1>0, FS_EmptySet
  <2>2. g = [s \in Upto(0) |-> IF s = {} THEN 0 ELSE f[Some(s)] + g[s \ {Some(s)}]]
    BY <2>1
  <2> QED
    BY <2>2
<1>2. ASSUME NEW n \in Nat, n \in P
      PROVE  n + 1 \in P
  <2>1. PICK g : g = [s \in Upto(n) |-> IF s = {} THEN 0 ELSE f[Some(s)] + g[s \ {Some(s)}]]
    BY <1>2
  <2> DEFINE h == [s \in Upto(n + 1) |-> IF s = {} THEN 0 ELSE f[Some(s)] + g[s \ {Some(s)}]]
  <2>2. ASSUME NEW s \in Upto(n + 1), s # {}
        PROVE  s \ {Some(s)} \in Upto(n)
    <3>1. Some(s) \in s
      BY <2>2 DEF Some
    <3> QED
      BY <1>0, <3>1, FS_RemoveElement
  <2>3. ASSUME NEW s \in Upto(n)
        PROVE  s \in Upto(n + 1) /\ h[s] = g[s]
    <3>1. s \in Upto(n + 1)
      BY <1>0
    <3>2. g[s] = IF s = {} THEN 0 ELSE f[Some(s)] + g[s \ {Some(s)}]
      BY <2>1
    <3> QED
      BY <3>1, <3>2
  <2> HIDE DEF Upto
  <2>4. h = [s \in Upto(n + 1) |-> IF s = {} THEN 0 ELSE f[Some(s)] + h[s \ {Some(s)}]]
    BY <2>2, <2>3
  <2>5. Built(n + 1)
    BY <2>4
  <2> HIDE DEF Built
  <2> QED
    BY <2>5
<1> HIDE DEF P, Upto
<1>3. Nat \subseteq P
  BY <1>1, <1>2, CountUp
<1>4. Cardinality(S) \in P
  BY <1>0, <1>3
<1>5. Upto(Cardinality(S)) = SUBSET S
  BY <1>0 DEF Upto
<1> QED
  BY <1>4, <1>5 DEF P, Adds

LEMMA IterationUnique ==
  ASSUME NEW f, NEW S, NEW T, NEW g, NEW h, Adds(g, f, S), Adds(h, f, T),
         NEW R, IsFiniteSet(R), R \subseteq S, R \subseteq T
  PROVE  g[R] = h[R]
<1> DEFINE P == {n \in Nat : \A s \in SUBSET R : Cardinality(s) = n => g[s] = h[s]}
<1>0. ASSUME NEW s \in SUBSET R
      PROVE  /\ IsFiniteSet(s)
             /\ g[s] = IF s = {} THEN 0 ELSE f[Some(s)] + g[s \ {Some(s)}]
             /\ h[s] = IF s = {} THEN 0 ELSE f[Some(s)] + h[s \ {Some(s)}]
  <2>1. s \in SUBSET S /\ s \in SUBSET T
    OBVIOUS
  <2>2. g = [r \in SUBSET S |-> IF r = {} THEN 0 ELSE f[Some(r)] + g[r \ {Some(r)}]]
    BY DEF Adds
  <2>3. h = [r \in SUBSET T |-> IF r = {} THEN 0 ELSE f[Some(r)] + h[r \ {Some(r)}]]
    BY DEF Adds
  <2>4. g[s] = IF s = {} THEN 0 ELSE f[Some(s)] + g[s \ {Some(s)}]
    BY <2>1, <2>2
  <2>5. h[s] = IF s = {} THEN 0 ELSE f[Some(s)] + h[s \ {Some(s)}]
    BY <2>1, <2>3
  <2> QED
    BY <2>4, <2>5, FS_Subset
<1>1. 0 \in P
  <2>1. ASSUME NEW s \in SUBSET R, Cardinality(s) = 0
        PROVE  g[s] = h[s]
    <3>1. s = {}
      BY <1>0, <2>1, FS_EmptySet
    <3> QED
      BY <1>0, <3>1
  <2> QED
    BY <2>1
<1>2. ASSUME NEW n \in Nat, n \in P
      PROVE  n + 1 \in P
  <2>1. ASSUME NEW s \in SUBSET R, Cardinality(s) = n + 1
        PROVE  g[s] = h[s]
    <3>1. s # {} /\ \A x \in s : Cardinality(s \ {x}) = n
      BY <1>0, <2>1, OneLess
    <3>2. Some(s) \in s
      BY <3>1 DEF Some
    <3>3. s \ {Some(s)} \in SUBSET R /\ Cardinality(s \ {Some(s)}) = n
      BY <3>1, <3>2
    <3>4. g[s \ {Some(s)}] = h[s \ {Some(s)}]
      BY <1>2, <3>3
    <3> QED
      BY <1>0, <3>1, <3>4
  <2> QED
    BY <2>1
<1> HIDE DEF P
<1>3. Nat \subseteq P
  BY <1>1, <1>2, CountUp
<1>4. Cardinality(R) \in P
  BY <1>3, FS_CardinalityType
<1> QED
  BY <1>4 DEF P

LEMMA SumStep ==
  ASSUME NEW f, NEW S, IsFiniteSet(S)
  PROVE  SumFunctionOnSet(f, S) =
           IF S = {} THEN 0 ELSE f[Some(S)] + SumFunctionOnSet(f, S \ {Some(S)})
<1> DEFINE rest == S \ {Some(S)}
           g == CHOOSE i : Adds(i, f, S)
           h == CHOOSE i : Adds(i, f, rest)
<1>1. IsFiniteSet(rest)
  BY FS_RemoveElement
<1>2. Adds(g, f, S) /\ Adds(h, f, rest)
  BY <1>1, IterationExists
<1>3. SumFunctionOnSet(f, S) = g[S] /\ SumFunctionOnSet(f, rest) = h[rest]
  BY SumIsIteration
<1> HIDE DEF g, h
<1>4. g[rest] = h[rest]
  BY <1>1, <1>2, IterationUnique
<1>5. g[S] = IF S = {} THEN 0 ELSE f[Some(S)] + g[rest]
  BY <1>2 DEF Adds
<1> QED
  BY <1>3, <1>4, <1>5

LEMMA SumOfNone ==
  ASSUME NEW f
  PROVE  SumFunctionOnSet(f, {}) = 0
BY FS_EmptySet, SumStep

LEMMA SumIsInt ==
  ASSUME NEW f, NEW S, IsFiniteSet(S), \A x \in S : f[x] \in Int
  PROVE  SumFunctionOnSet(f, S) \in Int
<1> DEFINE P == {n \in Nat : \A s \in SUBSET S :
                               Cardinality(s) = n => SumFunctionOnSet(f, s) \in Int}
<1>1. 0 \in P
  <2>1. ASSUME NEW s \in SUBSET S, Cardinality(s) = 0
        PROVE  SumFunctionOnSet(f, s) \in Int
    <3>1. s = {}
      BY <2>1, FS_Subset, FS_EmptySet
    <3> QED
      BY <3>1, SumOfNone
  <2> QED
    BY <2>1
<1>2. ASSUME NEW n \in Nat, n \in P
      PROVE  n + 1 \in P
  <2>1. ASSUME NEW s \in SUBSET S, Cardinality(s) = n + 1
        PROVE  SumFunctionOnSet(f, s) \in Int
    <3>0. IsFiniteSet(s)
      BY FS_Subset
    <3>1. IsFiniteSet(s) /\ s # {} /\ \A x \in s : Cardinality(s \ {x}) = n
      BY <2>1, <3>0, OneLess
    <3>2. Some(s) \in s
      BY <3>1 DEF Some
    <3>3. s \ {Some(s)} \in SUBSET S /\ Cardinality(s \ {Some(s)}) = n
      BY <3>1, <3>2
    <3>4. SumFunctionOnSet(f, s \ {Some(s)}) \in Int
      BY <1>2, <3>3
    <3>5. f[Some(s)] \in Int
      BY <3>2
    <3>6. SumFunctionOnSet(f, s) = f[Some(s)] + SumFunctionOnSet(f, s \ {Some(s)})
      BY <3>1, SumStep
    <3> QED
      BY <3>4, <3>5, <3>6
  <2> QED
    BY <2>1
<1> HIDE DEF P
<1>3. Nat \subseteq P
  BY <1>1, <1>2, CountUp
<1>4. Cardinality(S) \in P
  BY <1>3, FS_CardinalityType
<1> QED
  BY <1>4 DEF P

\* Any element may be taken out of a sum.
LEMMA SumTakes ==
  ASSUME NEW f, NEW S, IsFiniteSet(S), \A x \in S : f[x] \in Int, NEW x \in S
  PROVE  SumFunctionOnSet(f, S) = f[x] + SumFunctionOnSet(f, S \ {x})
<1> DEFINE P == {n \in Nat : \A s \in SUBSET S : \A y \in s : Cardinality(s) = n =>
                   SumFunctionOnSet(f, s) = f[y] + SumFunctionOnSet(f, s \ {y})}
<1>0. ASSUME NEW s \in SUBSET S
      PROVE  IsFiniteSet(s) /\ SumFunctionOnSet(f, s) \in Int
  BY FS_Subset, SumIsInt
<1>1. 0 \in P
  BY <1>0, FS_EmptySet
<1>2. ASSUME NEW n \in Nat, n \in P
      PROVE  n + 1 \in P
  <2>1. ASSUME NEW s \in SUBSET S, NEW y \in s, Cardinality(s) = n + 1
        PROVE  SumFunctionOnSet(f, s) = f[y] + SumFunctionOnSet(f, s \ {y})
    <3> DEFINE c == Some(s)
               both == s \ {c, y}
    <3>1. c \in s
      BY DEF Some
    <3>2. SumFunctionOnSet(f, s) = f[c] + SumFunctionOnSet(f, s \ {c})
      BY <1>0, SumStep
    <3> HIDE DEF c
    <3>3. CASE c = y
      BY <3>2, <3>3
    <3>4. CASE c # y
      <4>0. Cardinality(s \ {c}) = n /\ Cardinality(s \ {y}) = n
        BY <1>0, <2>1, <3>1, OneLess
      <4>1. /\ s \ {c} \in SUBSET S /\ s \ {y} \in SUBSET S /\ both \in SUBSET S
            /\ Cardinality(s \ {c}) = n /\ Cardinality(s \ {y}) = n
            /\ y \in s \ {c} /\ c \in s \ {y}
            /\ (s \ {c}) \ {y} = both /\ (s \ {y}) \ {c} = both
        BY <3>1, <3>4, <4>0
      <4> HIDE DEF both
      <4>2. SumFunctionOnSet(f, s \ {c}) = f[y] + SumFunctionOnSet(f, both)
        BY <1>2, <4>1
      <4>3. SumFunctionOnSet(f, s \ {y}) = f[c] + SumFunctionOnSet(f, both)
        BY <1>2, <4>1
      <4>4. f[c] \in Int /\ f[y] \in Int /\ SumFunctionOnSet(f, both) \in Int
        BY <1>0, <3>1, <4>1
      <4> QED
        BY <3>2, <4>2, <4>3, <4>4
    <3> QED
      BY <3>3, <3>4
  <2> QED
    BY <2>1
<1> HIDE DEF P
<1>3. Nat \subseteq P
  BY <1>1, <1>2, CountUp
<1>4. Cardinality(S) \in P
  BY <1>3, FS_CardinalityType
<1> QED
  BY <1>4 DEF P

\* A sum depends on the values in the set only.
LEMMA SumOfSame ==
  ASSUME NEW f, NEW h, NEW S, IsFiniteSet(S), \A x \in S : f[x] \in Int /\ h[x] = f[x]
  PROVE  SumFunctionOnSet(h, S) = SumFunctionOnSet(f, S)
<1> DEFINE Q == {T \in SUBSET S : SumFunctionOnSet(h, T) = SumFunctionOnSet(f, T)}
<1>1. {} \in Q
  BY SumOfNone
<1>2. ASSUME NEW T \in SUBSET S, NEW x \in S \ T, T \in Q
      PROVE  T \cup {x} \in Q
  <2>1. IsFiniteSet(T \cup {x}) /\ (T \cup {x}) \ {x} = T
    BY FS_Subset
  <2>2. SumFunctionOnSet(f, T \cup {x}) = f[x] + SumFunctionOnSet(f, (T \cup {x}) \ {x})
    BY <2>1, SumTakes
  <2>3. SumFunctionOnSet(h, T \cup {x}) = h[x] + SumFunctionOnSet(h, (T \cup {x}) \ {x})
    BY <2>1, SumTakes
  <2> QED
    BY <1>2, <2>1, <2>2, <2>3
<1> HIDE DEF Q
<1>3. S \in Q
  BY <1>1, <1>2, GrowSet
<1> QED
  BY <1>3 DEF Q

\* One more key adds its value.
LEMMA SumGrows ==
  ASSUME NEW f, NEW g, IsFiniteSet(DOMAIN g), NEW x, x \notin DOMAIN g,
         DOMAIN f = DOMAIN g \cup {x}, \A k \in DOMAIN f : f[k] \in Int,
         \A k \in DOMAIN g : f[k] = g[k]
  PROVE  SumFunction(f) = SumFunction(g) + f[x]
<1> DEFINE S == DOMAIN f
<1>1. IsFiniteSet(S)
  BY FS_AddElement
<1>2. SumFunctionOnSet(f, S) = f[x] + SumFunctionOnSet(f, S \ {x})
  BY <1>1, SumTakes
<1>3. S \ {x} = DOMAIN g
  OBVIOUS
<1>4. SumFunctionOnSet(f, DOMAIN g) = SumFunctionOnSet(g, DOMAIN g)
  BY SumOfSame
<1>5. SumFunctionOnSet(g, DOMAIN g) \in Int /\ f[x] \in Int
  BY SumIsInt
<1> QED
  BY <1>2, <1>3, <1>4, <1>5 DEF SumFunction

\* A key with another value changes the sum by the difference.
LEMMA SumChanges ==
  ASSUME NEW f, NEW g, IsFiniteSet(DOMAIN g), NEW x \in DOMAIN g, DOMAIN f = DOMAIN g,
         \A k \in DOMAIN g : f[k] \in Int /\ g[k] \in Int,
         \A k \in DOMAIN g \ {x} : f[k] = g[k]
  PROVE  SumFunction(f) = SumFunction(g) + f[x] - g[x]
<1> DEFINE S == DOMAIN g
<1>1. /\ SumFunctionOnSet(f, S) = f[x] + SumFunctionOnSet(f, S \ {x})
      /\ SumFunctionOnSet(g, S) = g[x] + SumFunctionOnSet(g, S \ {x})
  BY SumTakes
<1>2. IsFiniteSet(S \ {x})
  BY FS_RemoveElement
<1>3. /\ SumFunctionOnSet(f, S \ {x}) = SumFunctionOnSet(g, S \ {x})
      /\ SumFunctionOnSet(g, S \ {x}) \in Int
  BY <1>2, SumOfSame, SumIsInt
<1> QED
  BY <1>1, <1>3 DEF SumFunction

\* Dropping the head of a sequence of numbers.
LEMMA SumOfTail ==
  ASSUME NEW n \in Nat
  PROVE  \A f \in [1 .. n + 1 -> Int] :
           SumFunction(f) = f[1] + SumFunction([i \in 1 .. n |-> f[i + 1]])
<1> DEFINE Rest(f, m) == [i \in 1 .. m |-> f[i + 1]]
           Holds(m) == \A f \in [1 .. m + 1 -> Int] :
                         SumFunction(f) = f[1] + SumFunction(Rest(f, m))
           Q == {m \in Nat : Holds(m)}
<1>0. \A m \in Nat : IsFiniteSet(1 .. m)
  BY FS_Interval
<1>1. Holds(0)
  <2> SUFFICES ASSUME NEW f \in [1 .. 1 -> Int]
               PROVE  SumFunction(f) = f[1] + SumFunction(Rest(f, 0))
    OBVIOUS
  <2>1. DOMAIN Rest(f, 0) = {} /\ DOMAIN f = {1} /\ f[1] \in Int
    OBVIOUS
  <2> HIDE DEF Rest
  <2>2. SumFunction(Rest(f, 0)) = 0
    BY <2>1, SumOfNone DEF SumFunction
  <2>3. SumFunction(f) = SumFunction(Rest(f, 0)) + f[1]
    <3>1. IsFiniteSet({})
      BY FS_EmptySet
    <3> QED
      BY <2>1, <3>1, SumGrows
  <2> QED
    BY <2>1, <2>2, <2>3
<1>2. ASSUME NEW m \in Nat, Holds(m)
      PROVE  Holds(m + 1)
  <2> SUFFICES ASSUME NEW f \in [1 .. (m + 1) + 1 -> Int]
               PROVE  SumFunction(f) = f[1] + SumFunction(Rest(f, m + 1))
    OBVIOUS
  <2> DEFINE h == [i \in 1 .. m + 1 |-> f[i]]
  <2>1. h \in [1 .. m + 1 -> Int] /\ h[1] = f[1]
    OBVIOUS
  <2>2. SumFunction(h) = f[1] + SumFunction(Rest(h, m))
    BY <1>2, <2>1
  <2>3. SumFunction(f) = SumFunction(h) + f[m + 2]
    <3>1. /\ DOMAIN h = 1 .. m + 1 /\ DOMAIN f = 1 .. m + 2
          /\ 1 .. m + 2 = (1 .. m + 1) \cup {m + 2} /\ m + 2 \notin 1 .. m + 1
          /\ \A k \in DOMAIN h : f[k] = h[k]
      OBVIOUS
    <3>2. \A k \in DOMAIN f : f[k] \in Int
      OBVIOUS
    <3> HIDE DEF h
    <3> QED
      BY <1>0, <3>1, <3>2, SumGrows
  <2>4. SumFunction(Rest(f, m + 1)) = SumFunction(Rest(h, m)) + f[m + 2]
    <3>1. /\ DOMAIN Rest(h, m) = 1 .. m /\ DOMAIN Rest(f, m + 1) = 1 .. m + 1
          /\ 1 .. m + 1 = (1 .. m) \cup {m + 1} /\ m + 1 \notin 1 .. m
          /\ \A k \in 1 .. m : Rest(f, m + 1)[k] = Rest(h, m)[k]
          /\ Rest(f, m + 1)[m + 1] = f[m + 2]
          /\ \A k \in 1 .. m + 1 : Rest(f, m + 1)[k] \in Int
      OBVIOUS
    <3> DEFINE a == Rest(f, m + 1)
               b == Rest(h, m)
    <3>2. /\ DOMAIN a = DOMAIN b \cup {m + 1} /\ m + 1 \notin DOMAIN b
          /\ \A k \in DOMAIN b : a[k] = b[k]
          /\ \A k \in DOMAIN a : a[k] \in Int
      BY <3>1
    <3>3. DOMAIN b = 1 .. m /\ a[m + 1] = f[m + 2]
      BY <3>1
    <3> HIDE DEF a, b
    <3>4. SumFunction(a) = SumFunction(b) + a[m + 1]
      <4>1. IsFiniteSet(DOMAIN b)
        BY <1>0, <3>3
      <4> QED
        BY <3>2, <4>1, SumGrows, Zenon
    <3>5. SumFunction(a) = SumFunction(b) + f[m + 2]
      BY <3>3, <3>4, Zenon
    <3> QED
      BY <3>5 DEF a, b
  <2>5. SumFunction(Rest(h, m)) \in Int /\ f[1] \in Int /\ f[m + 2] \in Int
    <3>1. DOMAIN Rest(h, m) = 1 .. m /\ \A k \in 1 .. m : Rest(h, m)[k] \in Int
      OBVIOUS
    <3> HIDE DEF h, Rest
    <3>2. SumFunction(Rest(h, m)) \in Int
      BY <1>0, <3>1, SumIsInt DEF SumFunction
    <3> QED
      BY <3>2
  <2> HIDE DEF h, Rest
  <2> QED
    BY <2>2, <2>3, <2>4, <2>5
<1> HIDE DEF Holds
<1>3. Nat \subseteq Q
  <2>1. 0 \in Q /\ \A m \in Nat : m \in Q => m + 1 \in Q
    BY <1>1, <1>2
  <2> HIDE DEF Q
  <2> QED
    BY <2>1, CountUp
<1> QED
  BY <1>3 DEF Holds

-----------------------------------------------------------------------------
(* What is held: the lots of the walk and the sums of the rows.            *)

Units(S) == SumFunction([r \in S |-> r.op.qty])

\* The rows of an entity, of one kind, that the walk has passed and not left out.
Passed(e, kind) == {r \in rows \ todo : r.op.entity = e /\ r.op.kind = kind /\ Walkable(r)}

\* What the sell being matched still needs of an entity's queue.
Unmatched(e) ==
  IF selling # NoSale /\ selling.row.op.entity = e THEN selling.need ELSE 0

\* Every unit walked is in the queue, sold, or was sold without being there.
Balanced(e) ==
  LotQuantity(e) + Units(Passed(e, "sell"))
    = Units(Passed(e, "buy")) + vanished[e] + Unmatched(e)

HoldInv ==
  /\ IsFiniteSet(rows)
  /\ selling # NoSale => selling \in Matchings
  /\ phase = "idle" => vanished = Zero(Entities)
  /\ phase # "idle" => \A e \in Entities : Balanced(e)

\* The units of a set of rows, and of one row more.
LEMMA UnitsOfRows ==
  ASSUME LedgerTypes, NEW S, S \subseteq rows, IsFiniteSet(S)
  PROVE  /\ Units(S) \in Int
         /\ \A r \in rows \ S : Units(S \cup {r}) = Units(S) + r.op.qty
<1> DEFINE g == [r \in S |-> r.op.qty]
<1>1. \A r \in rows : r.op.qty \in Int
  BY RowTypes
<1>2. DOMAIN g = S /\ \A r \in S : g[r] \in Int
  BY <1>1
<1>3. Units(S) \in Int
  <2> HIDE DEF g
  <2>1. SumFunction(g) \in Int
    BY <1>2, SumIsInt DEF SumFunction
  <2> QED
    BY <2>1 DEF Units, g
<1>4. ASSUME NEW r \in rows \ S
      PROVE  Units(S \cup {r}) = Units(S) + r.op.qty
  <2> DEFINE f == [q \in S \cup {r} |-> q.op.qty]
  <2>1. /\ DOMAIN f = DOMAIN g \cup {r} /\ r \notin DOMAIN g /\ f[r] = r.op.qty
        /\ (\A k \in DOMAIN f : f[k] \in Int) /\ (\A k \in DOMAIN g : f[k] = g[k])
    BY <1>1
  <2>2. IsFiniteSet(DOMAIN g)
    BY <1>2
  <2> HIDE DEF f, g
  <2>3. SumFunction(f) = SumFunction(g) + f[r]
    BY <2>1, <2>2, SumGrows
  <2> QED
    BY <2>1, <2>3 DEF Units, f, g
<1> QED
  BY <1>3, <1>4

\* The lots of a queue, and how each step of the walk changes their sum.
LotsOf(q) == SumFunction([i \in DOMAIN q |-> q[i].qty])

LEMMA PieceUnits ==
  ASSUME NEW q \in Seq(Pieces)
  PROVE  /\ DOMAIN q = 1 .. Len(q) /\ Len(q) \in Nat /\ IsFiniteSet(DOMAIN q)
         /\ \A i \in DOMAIN q : q[i] \in Pieces /\ q[i].qty \in Nat \ {0}
<1>1. DOMAIN q = 1 .. Len(q) /\ Len(q) \in Nat
  OBVIOUS
<1>2. IsFiniteSet(1 .. Len(q))
  BY <1>1, FS_Interval
<1>3. \A i \in DOMAIN q : q[i] \in Pieces
  OBVIOUS
<1> QED
  BY <1>1, <1>2, <1>3 DEF Pieces

LEMMA LotsAreInt ==
  ASSUME NEW q \in Seq(Pieces)
  PROVE  LotsOf(q) \in Int
<1> DEFINE g == [i \in DOMAIN q |-> q[i].qty]
<1>1. DOMAIN g = DOMAIN q /\ IsFiniteSet(DOMAIN q) /\ \A i \in DOMAIN g : g[i] \in Int
  BY PieceUnits
<1> HIDE DEF g
<1>2. SumFunction(g) \in Int
  BY <1>1, SumIsInt DEF SumFunction
<1> QED
  BY <1>2 DEF LotsOf, g

LEMMA NoLots == LotsOf(<<>>) = 0
<1> DEFINE g == [i \in DOMAIN <<>> |-> <<>>[i].qty]
<1>1. DOMAIN g = {}
  OBVIOUS
<1> HIDE DEF g
<1>2. SumFunction(g) = 0
  BY <1>1, SumOfNone DEF SumFunction
<1> QED
  BY <1>2 DEF LotsOf, g

LEMMA LotsOfAppend ==
  ASSUME NEW q \in Seq(Pieces), NEW lot \in Pieces
  PROVE  LotsOf(Append(q, lot)) = LotsOf(q) + lot.qty
<1> DEFINE g == [i \in DOMAIN q |-> q[i].qty]
           f == [i \in DOMAIN Append(q, lot) |-> Append(q, lot)[i].qty]
           n == Len(q) + 1
<1>1. /\ DOMAIN q = 1 .. Len(q) /\ Len(q) \in Nat /\ IsFiniteSet(DOMAIN q)
      /\ \A i \in DOMAIN q : q[i].qty \in Int
  BY PieceUnits
<1>2. /\ DOMAIN Append(q, lot) = DOMAIN q \cup {n} /\ n \notin DOMAIN q
      /\ Append(q, lot)[n] = lot /\ \A i \in DOMAIN q : Append(q, lot)[i] = q[i]
  BY <1>1
<1>3. lot.qty \in Int
  BY DEF Pieces
<1>4. /\ DOMAIN f = DOMAIN g \cup {n} /\ n \notin DOMAIN g /\ IsFiniteSet(DOMAIN g)
      /\ (\A k \in DOMAIN f : f[k] \in Int) /\ (\A k \in DOMAIN g : f[k] = g[k])
      /\ f[n] = lot.qty
  BY <1>1, <1>2, <1>3
<1> HIDE DEF f, g, n
<1>5. SumFunction(f) = SumFunction(g) + f[n]
  BY <1>4, SumGrows
<1> QED
  BY <1>4, <1>5 DEF LotsOf, f, g

LEMMA LotsOfTail ==
  ASSUME NEW q \in Seq(Pieces), q # <<>>
  PROVE  LotsOf(q) = Head(q).qty + LotsOf(Tail(q))
<1> DEFINE n == Len(q) - 1
           f == [i \in DOMAIN q |-> q[i].qty]
           g == [i \in 1 .. n |-> f[i + 1]]
           h == [i \in DOMAIN Tail(q) |-> Tail(q)[i].qty]
<1>1. /\ DOMAIN q = 1 .. Len(q) /\ Len(q) \in Nat
      /\ \A i \in DOMAIN q : q[i].qty \in Int
  BY PieceUnits
<1>2. Len(q) # 0 /\ n \in Nat /\ Len(q) = n + 1
  BY <1>1
<1>3. f \in [1 .. n + 1 -> Int] /\ f[1] = Head(q).qty
  BY <1>1, <1>2
<1>4. DOMAIN Tail(q) = 1 .. n /\ \A i \in 1 .. n : Tail(q)[i] = q[i + 1]
  BY <1>1, <1>2
<1>5. h = g
  BY <1>1, <1>2, <1>4
<1> HIDE DEF f, h, n
<1>6. SumFunction(f) = f[1] + SumFunction(g)
  BY <1>2, <1>3, SumOfTail
<1> HIDE DEF g
<1> QED
  BY <1>3, <1>5, <1>6 DEF LotsOf, f, h

LEMMA LotsOfRest ==
  ASSUME NEW q \in Seq(Pieces), q # <<>>, NEW lot \in Pieces
  PROVE  LotsOf([q EXCEPT ![1] = lot]) = LotsOf(q) + lot.qty - Head(q).qty
<1> DEFINE g == [i \in DOMAIN q |-> q[i].qty]
           p == [q EXCEPT ![1] = lot]
           f == [i \in DOMAIN p |-> p[i].qty]
<1>1. /\ DOMAIN q = 1 .. Len(q) /\ Len(q) \in Nat /\ IsFiniteSet(DOMAIN q)
      /\ \A i \in DOMAIN q : q[i].qty \in Int
  BY PieceUnits
<1>2. 1 \in DOMAIN q /\ Head(q) = q[1] /\ lot.qty \in Int
  BY <1>1 DEF Pieces
<1>3. DOMAIN p = DOMAIN q /\ \A i \in DOMAIN q : p[i] = IF i = 1 THEN lot ELSE q[i]
  BY <1>1
<1> HIDE DEF p
<1>4. /\ DOMAIN f = DOMAIN g /\ IsFiniteSet(DOMAIN g) /\ 1 \in DOMAIN g
      /\ (\A k \in DOMAIN g : f[k] \in Int /\ g[k] \in Int)
      /\ (\A k \in DOMAIN g \ {1} : f[k] = g[k])
      /\ f[1] = lot.qty /\ g[1] = Head(q).qty
  BY <1>1, <1>2, <1>3
<1> HIDE DEF f, g
<1>5. SumFunction(f) = SumFunction(g) + f[1] - g[1]
  BY <1>4, SumChanges
<1> QED
  BY <1>4, <1>5 DEF LotsOf, f, g, p

LEMMA InitHolds == Init => HoldInv
<1>1. IsFiniteSet({})
  BY FS_EmptySet
<1> QED
  BY <1>1 DEF Init, HoldInv

\* Between reports only the rows change, by one.
LEMMA IdleHolds ==
  ASSUME HoldInv, NEW op, NEW r, Enter(op) \/ Edit(r, op) \/ Delete(r)
  PROVE  HoldInv'
<1>1. phase = "idle" /\ phase' = "idle" /\ vanished' = vanished /\ selling' = selling
  BY DEF Enter, Edit, Delete, walk
<1>2. IsFiniteSet(rows')
  <2>1. \A x : IsFiniteSet(rows \cup {x})
    BY FS_AddElement DEF HoldInv
  <2>2. \A x : IsFiniteSet(rows \ {x})
    BY FS_RemoveElement DEF HoldInv
  <2>3. \A x, y : IsFiniteSet((rows \ {x}) \cup {y})
    BY <2>2, FS_AddElement
  <2>4. CASE Enter(op)
    BY <2>1, <2>4 DEF Enter
  <2>5. CASE Edit(r, op)
    BY <2>3, <2>5 DEF Edit
  <2>6. CASE Delete(r)
    BY <2>2, <2>6 DEF Delete
  <2> QED
    BY <2>4, <2>5, <2>6
<1> QED
  BY <1>1, <1>2 DEF HoldInv

\* What is passed is a finite set of rows.
LEMMA PassedRows ==
  ASSUME LedgerTypes, HoldInv, NEW e, NEW kind
  PROVE  /\ Passed(e, kind) \subseteq rows /\ IsFiniteSet(Passed(e, kind))
         /\ Units(Passed(e, kind)) \in Int
<1>1. Passed(e, kind) \subseteq rows
  BY DEF Passed
<1>2. IsFiniteSet(Passed(e, kind))
  BY <1>1, FS_Subset DEF HoldInv
<1> QED
  BY <1>1, <1>2, UnitsOfRows

LEMMA NoUnits == Units({}) = 0
<1> DEFINE g == [r \in {} |-> r.op.qty]
<1>1. DOMAIN g = {}
  OBVIOUS
<1> HIDE DEF g
<1>2. SumFunction(g) = 0
  BY <1>1, SumOfNone DEF SumFunction
<1> QED
  BY <1>2 DEF Units, g

LEMMA ReportHolds == ASSUME WalkInv, HoldInv, Report PROVE HoldInv'
<1>1. /\ rows' = rows /\ phase = "idle" /\ phase' = "walk" /\ lots' = Empty
      /\ selling' = NoSale /\ vanished' = Zero(Entities)
      /\ todo' = {r \in rows : r.op.kind \in {"buy", "sell"}}
  BY DEF WalkInv, Phases, HoldInv, Report, ledger
<1>2. ASSUME NEW e \in Entities
      PROVE  Balanced(e)'
  <2>1. Passed(e, "buy")' = {} /\ Passed(e, "sell")' = {}
    BY <1>1 DEF Passed
  <2>2. lots'[e] = <<>> /\ vanished'[e] = 0
    BY <1>1 DEF Empty, Zero
  <2>3. LotQuantity(e)' = LotsOf(lots'[e])
    BY DEF LotQuantity, LotsOf
  <2>4. LotQuantity(e)' = 0
    BY <2>2, <2>3, NoLots
  <2>5. Unmatched(e)' = 0
    BY <1>1 DEF Unmatched
  <2>6. Balanced(e)' <=> LotQuantity(e)' + Units(Passed(e, "sell")')
                           = Units(Passed(e, "buy")') + vanished'[e] + Unmatched(e)'
    BY DEF Balanced, Units
  <2>7. Units(Passed(e, "buy")') = 0 /\ Units(Passed(e, "sell")') = 0
    BY <2>1, NoUnits
  <2> QED
    BY <2>2, <2>4, <2>5, <2>6, <2>7
<1> QED
  BY <1>1, <1>2 DEF HoldInv

\* A row walked joins those of its entity and kind.
LEMMA PassedNext ==
  ASSUME LedgerTypes, HoldInv, todo \subseteq rows, NEW r \in todo, Walkable(r),
         todo' = todo \ {r}, rows' = rows, NEW e, NEW kind
  PROVE  Units(Passed(e, kind)') =
           Units(Passed(e, kind))
             + (IF r.op.entity = e /\ r.op.kind = kind THEN r.op.qty ELSE 0)
<1>1. r \notin Passed(e, kind) /\ r \in rows
  BY DEF Passed
<1>2. CASE r.op.entity = e /\ r.op.kind = kind
  <2>1. Passed(e, kind)' = Passed(e, kind) \cup {r}
    BY <1>2 DEF Passed
  <2>2. Units(Passed(e, kind) \cup {r}) = Units(Passed(e, kind)) + r.op.qty
    BY <1>1, PassedRows, UnitsOfRows
  <2> QED
    BY <1>2, <2>1, <2>2
<1>3. CASE ~(r.op.entity = e /\ r.op.kind = kind)
  <2>1. Passed(e, kind)' = Passed(e, kind)
    BY <1>3 DEF Passed
  <2>2. Units(Passed(e, kind)) \in Int
    BY PassedRows
  <2> QED
    BY <1>3, <2>1, <2>2
<1> QED
  BY <1>2, <1>3

\* The terms of the balance are numbers.
LEMMA BalanceTypes ==
  ASSUME WalkInv, HoldInv, NEW e \in Entities
  PROVE  /\ lots[e] \in Seq(Pieces) /\ LotQuantity(e) = LotsOf(lots[e]) /\ LotQuantity(e) \in Int
         /\ Units(Passed(e, "sell")) \in Int /\ Units(Passed(e, "buy")) \in Int
         /\ vanished[e] \in Nat /\ Unmatched(e) \in Nat
<1>1. lots[e] \in Seq(Pieces) /\ vanished[e] \in Nat
  BY DEF WalkInv, WalkTypes
<1>2. LotQuantity(e) = LotsOf(lots[e])
  BY DEF LotQuantity, LotsOf
<1>3. Unmatched(e) \in Nat
  BY DEF WalkInv, WalkTypes, Matches, Unmatched
<1> QED
  BY <1>1, <1>2, <1>3, LotsAreInt, PassedRows DEF WalkInv

\* The balance after a step, term by term.
LEMMA BalanceAfter ==
  ASSUME NEW e
  PROVE  /\ LotQuantity(e)' = LotsOf(lots'[e])
         /\ Balanced(e)' <=> LotQuantity(e)' + Units(Passed(e, "sell")')
                               = Units(Passed(e, "buy")') + vanished'[e] + Unmatched(e)'
BY DEF LotQuantity, LotsOf, Balanced, Units

\* Only a walk has rows to pass or a sell to match.
LEMMA Walking ==
  ASSUME WalkInv, HoldInv, todo # {} \/ selling # NoSale
  PROVE  phase = "walk" /\ \A e \in Entities : Balanced(e)
BY DEF WalkInv, WalkTypes, Phases, HoldInv

\* A row left out changes no term of the balance.
LEMMA SkipRowHolds == ASSUME WalkInv, HoldInv, NEW r \in todo, SkipRow(r) PROVE HoldInv'
<1>1. /\ rows' = rows /\ phase' = phase /\ selling' = selling /\ lots' = lots
      /\ vanished' = vanished /\ todo' = todo \ {r} /\ ~Walkable(r)
  BY DEF SkipRow, ledger
<1>2. \A e, kind : Passed(e, kind)' = Passed(e, kind)
  BY <1>1 DEF Passed
<1>3. ASSUME NEW e \in Entities
      PROVE  Balanced(e)' <=> Balanced(e)
  BY <1>1, <1>2 DEF Balanced, LotQuantity, Units, Unmatched
<1> QED
  BY <1>1, <1>3, Walking DEF HoldInv

LEMMA WalkBuyHolds == ASSUME WalkInv, HoldInv, NEW r \in todo, WalkBuy(r) PROVE HoldInv'
<1>1. /\ rows' = rows /\ phase' = phase /\ selling' = selling /\ vanished' = vanished
      /\ todo' = todo \ {r} /\ r.op.kind = "buy" /\ Walkable(r)
      /\ lots' = [lots EXCEPT ![r.op.entity] = Append(@, Lot(r))]
  BY DEF WalkBuy, ledger
<1>2. LedgerTypes /\ todo \subseteq rows /\ lots \in [Entities -> Seq(Pieces)]
      /\ r \in rows /\ r.op.qty \in Int
  BY RowTypes DEF WalkInv, WalkTypes
<1>3. Lot(r) \in Pieces /\ Lot(r).qty = r.op.qty
  BY <1>1, <1>2, LotIsPiece
<1>4. ASSUME NEW e \in Entities
      PROVE  Balanced(e)'
  <2> DEFINE n == IF r.op.entity = e THEN r.op.qty ELSE 0
  <2>1. LotQuantity(e) + Units(Passed(e, "sell"))
          = Units(Passed(e, "buy")) + vanished[e] + Unmatched(e)
    BY Walking DEF Balanced
  <2>2. LotQuantity(e)' = LotQuantity(e) + n
    <3>1. lots'[e] = IF r.op.entity = e THEN Append(lots[e], Lot(r)) ELSE lots[e]
      BY <1>1, <1>2
    <3>2. LotsOf(Append(lots[e], Lot(r))) = LotsOf(lots[e]) + r.op.qty
      BY <1>3, BalanceTypes, LotsOfAppend
    <3> QED
      BY <3>1, <3>2, BalanceTypes, BalanceAfter
  <2>3. Units(Passed(e, "sell")') = Units(Passed(e, "sell"))
    BY <1>1, <1>2, BalanceTypes, PassedNext
  <2>4. Units(Passed(e, "buy")') =
          Units(Passed(e, "buy")) + n
    BY <1>1, <1>2, PassedNext
  <2>5. Unmatched(e)' = Unmatched(e) /\ vanished'[e] = vanished[e]
    BY <1>1 DEF Unmatched
  <2>7. n \in Int
    BY <1>2
  <2> HIDE DEF n
  <2>8. /\ LotQuantity(e) \in Int /\ Units(Passed(e, "sell")) \in Int
        /\ Units(Passed(e, "buy")) \in Int /\ vanished[e] \in Int /\ Unmatched(e) \in Int
    BY BalanceTypes
  <2>9. Balanced(e)' <=> LotQuantity(e)' + Units(Passed(e, "sell")')
                           = Units(Passed(e, "buy")') + vanished'[e] + Unmatched(e)'
    BY BalanceAfter
  <2> QED
    BY <2>1, <2>2, <2>3, <2>4, <2>5, <2>7, <2>8, <2>9
<1> QED
  BY <1>1, <1>4, Walking DEF HoldInv

LEMMA SkipSellHolds == ASSUME WalkInv, HoldInv, NEW r \in todo, SkipSell(r) PROVE HoldInv'
<1>1. /\ rows' = rows /\ phase' = phase /\ selling' = selling /\ lots' = lots
      /\ todo' = todo \ {r} /\ r.op.kind = "sell" /\ Walkable(r)
      /\ vanished' = [vanished EXCEPT ![r.op.entity] = @ + r.op.qty]
  BY DEF SkipSell, ledger
<1>2. LedgerTypes /\ todo \subseteq rows /\ vanished \in [Entities -> Nat]
      /\ r \in rows /\ r.op.qty \in Int
  BY RowTypes DEF WalkInv, WalkTypes
<1>4. ASSUME NEW e \in Entities
      PROVE  Balanced(e)'
  <2>1. LotQuantity(e) + Units(Passed(e, "sell"))
          = Units(Passed(e, "buy")) + vanished[e] + Unmatched(e)
    BY Walking DEF Balanced
  <2>2. LotQuantity(e)' = LotQuantity(e)
    BY <1>1, BalanceTypes, BalanceAfter
  <2>3. Units(Passed(e, "sell")') =
          Units(Passed(e, "sell")) + (IF r.op.entity = e THEN r.op.qty ELSE 0)
    BY <1>1, <1>2, PassedNext
  <2>4. Units(Passed(e, "buy")') = Units(Passed(e, "buy"))
    BY <1>1, <1>2, BalanceTypes, PassedNext
  <2>5. /\ Unmatched(e)' = Unmatched(e)
        /\ vanished'[e] = vanished[e] + (IF r.op.entity = e THEN r.op.qty ELSE 0)
    BY <1>1, <1>2 DEF Unmatched
  <2>8. /\ LotQuantity(e) \in Int /\ Units(Passed(e, "sell")) \in Int
        /\ Units(Passed(e, "buy")) \in Int /\ vanished[e] \in Int /\ Unmatched(e) \in Int
    BY BalanceTypes
  <2>9. Balanced(e)' <=> LotQuantity(e)' + Units(Passed(e, "sell")')
                           = Units(Passed(e, "buy")') + vanished'[e] + Unmatched(e)'
    BY BalanceAfter
  <2> QED
    BY <1>2, <2>1, <2>2, <2>3, <2>4, <2>5, <2>8, <2>9
<1> QED
  BY <1>1, <1>4, Walking DEF HoldInv

LEMMA BeginSellHolds ==
  ASSUME WalkInv, HoldInv, NEW r \in todo, BeginSell(r)
  PROVE  HoldInv'
<1>1. /\ rows' = rows /\ phase' = phase /\ vanished' = vanished /\ lots' = lots
      /\ todo' = todo \ {r} /\ r.op.kind = "sell" /\ Walkable(r) /\ selling = NoSale
      /\ selling' = [row |-> r, need |-> r.op.qty, taken |-> <<>>]
  BY DEF BeginSell, IsNext, ledger
<1>2. LedgerTypes /\ todo \subseteq rows /\ r \in rows /\ r.op.qty \in Nat
  BY <1>1, RowTypes DEF WalkInv, WalkTypes
<1>3. selling' # NoSale /\ selling' \in Matchings
  <2>1. r \in Stores
    BY <1>2 DEF LedgerTypes
  <2>2. selling' \in Matchings
    BY <1>1, <1>2, <2>1 DEF Matchings
  <2> QED
    BY <2>2, NoSaleAssumption
<1>4. ASSUME NEW e \in Entities
      PROVE  Balanced(e)'
  <2>1. LotQuantity(e) + Units(Passed(e, "sell"))
          = Units(Passed(e, "buy")) + vanished[e] + Unmatched(e)
    BY Walking DEF Balanced
  <2>2. LotQuantity(e)' = LotQuantity(e)
    BY <1>1, BalanceTypes, BalanceAfter
  <2>3. Units(Passed(e, "sell")') =
          Units(Passed(e, "sell")) + (IF r.op.entity = e THEN r.op.qty ELSE 0)
    BY <1>1, <1>2, PassedNext
  <2>4. Units(Passed(e, "buy")') = Units(Passed(e, "buy"))
    BY <1>1, <1>2, BalanceTypes, PassedNext
  <2>5. /\ Unmatched(e) = 0 /\ Unmatched(e)' = IF r.op.entity = e THEN r.op.qty ELSE 0
        /\ vanished'[e] = vanished[e]
    BY <1>1, <1>3 DEF Unmatched
  <2>8. /\ LotQuantity(e) \in Int /\ Units(Passed(e, "sell")) \in Int
        /\ Units(Passed(e, "buy")) \in Int /\ vanished[e] \in Int /\ Unmatched(e) \in Int
    BY BalanceTypes
  <2>9. Balanced(e)' <=> LotQuantity(e)' + Units(Passed(e, "sell")')
                           = Units(Passed(e, "buy")') + vanished'[e] + Unmatched(e)'
    BY BalanceAfter
  <2> QED
    BY <1>2, <2>1, <2>2, <2>3, <2>4, <2>5, <2>8, <2>9
<1> QED
  BY <1>1, <1>3, <1>4, Walking DEF HoldInv

\* A step that passes no row leaves the sums of the rows as they are.
LEMMA PassedSame ==
  ASSUME rows' = rows, todo' = todo, NEW e, NEW kind
  PROVE  Units(Passed(e, kind)') = Units(Passed(e, kind))
<1>1. Passed(e, kind)' = Passed(e, kind)
  BY DEF Passed
<1> QED
  BY <1>1

LEMMA TakeHolds == ASSUME WalkInv, HoldInv, Take PROVE HoldInv'
<1> DEFINE e0 == selling.row.op.entity
           lot == Head(lots[e0])
           part == Lesser(lot.qty, selling.need)
           rest == [lot EXCEPT !.start = @ + part, !.qty = @ - part]
<1>1. /\ rows' = rows /\ phase' = phase /\ vanished' = vanished /\ todo' = todo
      /\ selling # NoSale /\ selling.need > 0 /\ lots[e0] # <<>>
      /\ selling' = [selling EXCEPT !.need = @ - part,
                                    !.taken = Append(@, [lot EXCEPT !.qty = part])]
      /\ lots' = [lots EXCEPT ![e0] =
                    IF part >= lot.qty THEN Tail(@) ELSE [@ EXCEPT ![1] = rest]]
  BY DEF Take, ledger
<1>2. /\ LedgerTypes /\ lots \in [Entities -> Seq(Pieces)]
      /\ selling \in Matches /\ selling.need \in Nat \ {0} /\ selling.row \in rows
  <2>1. selling \in Matches
    BY <1>1 DEF WalkInv, WalkTypes
  <2>2. selling.need \in Nat /\ selling.row \in rows
    BY <2>1 DEF Matches, WalkableRows
  <2>3. LedgerTypes /\ lots \in [Entities -> Seq(Pieces)]
    BY DEF WalkInv, WalkTypes
  <2>4. selling.need > 0
    BY <1>1
  <2> QED
    BY <2>1, <2>2, <2>3, <2>4
<1>3. e0 \in Entities
  BY <1>2, RowTypes
<1>4. lots[e0] \in Seq(Pieces) /\ lot \in Pieces /\ lot.qty \in Nat \ {0}
  <2>1. lots[e0] \in Seq(Pieces)
    BY <1>2, <1>3
  <2>2. lot \in Pieces
    BY <1>1, <2>1, HeadMember
  <2> QED
    BY <2>1, <2>2 DEF Pieces
<1> HIDE DEF lot
<1>5. part \in Nat \ {0} /\ part <= lot.qty /\ part <= selling.need
  BY <1>2, <1>4, LesserType
<1> HIDE DEF part
<1>6. selling'.need = selling.need - part /\ selling'.row = selling.row
  BY <1>1, <1>2 DEF Matches
<1>7. selling' # NoSale /\ selling' \in Matchings
  <2>1. rows \subseteq Stores
    BY <1>2 DEF LedgerTypes
  <2>2. [lot EXCEPT !.qty = part] \in [buy : Stores, start : Nat, qty : Nat \ {0}]
    BY <1>4, <1>5, <2>1 DEF Pieces, WalkableRows
  <2>3. selling \in Matchings
    BY <1>1 DEF HoldInv
  <2>4. selling.need - part \in Nat
    BY <1>2, <1>5
  <2>5. Append(selling.taken, [lot EXCEPT !.qty = part])
          \in Seq([buy : Stores, start : Nat, qty : Nat \ {0}])
    <3>1. selling.taken \in Seq([buy : Stores, start : Nat, qty : Nat \ {0}])
      BY <2>3 DEF Matchings
    <3> QED
      BY <2>2, <3>1
  <2>6. selling' = [selling EXCEPT !.need = selling.need - part,
                                   !.taken = Append(selling.taken, [lot EXCEPT !.qty = part])]
    BY <1>1
  <2>7. selling' \in Matchings
    BY <2>3, <2>4, <2>5, <2>6 DEF Matchings
  <2> QED
    BY <2>7, NoSaleAssumption
<1>8. ASSUME NEW e \in Entities
      PROVE  Balanced(e)'
  <2>1. LotQuantity(e) + Units(Passed(e, "sell"))
          = Units(Passed(e, "buy")) + vanished[e] + Unmatched(e)
    BY <1>1, Walking DEF Balanced
  <2>2. LotQuantity(e)' = LotQuantity(e) - (IF e0 = e THEN part ELSE 0)
    <3>1. CASE e0 # e
      <4>1. lots'[e] = lots[e]
        BY <1>1, <1>2, <3>1
      <4> QED
        BY <3>1, <4>1, BalanceTypes, BalanceAfter
    <3>2. CASE e0 = e /\ part >= lot.qty
      <4>1. lots'[e] = Tail(lots[e]) /\ part = lot.qty
        BY <1>1, <1>2, <1>3, <1>4, <1>5, <3>2
      <4>2. LotsOf(lots[e]) = lot.qty + LotsOf(Tail(lots[e]))
        BY <1>1, <1>4, <3>2, LotsOfTail DEF lot
      <4>3. Tail(lots[e]) \in Seq(Pieces)
        BY <1>1, <1>4, <3>2
      <4>4. LotsOf(Tail(lots[e])) \in Int
        BY <4>3, LotsAreInt
      <4>5. LotsOf(Tail(lots[e])) = LotsOf(lots[e]) - part
        BY <1>4, <4>1, <4>2, <4>4
      <4> QED
        BY <3>2, <4>1, <4>5, BalanceTypes, BalanceAfter
    <3>3. CASE e0 = e /\ ~(part >= lot.qty)
      <4>1. lots'[e] = [lots[e] EXCEPT ![1] = rest]
        BY <1>1, <1>2, <1>3, <3>3
      <4>2. rest \in Pieces /\ rest.qty = lot.qty - part
        <5>1. part \in Nat /\ part < lot.qty
          BY <1>4, <1>5, <3>3
        <5> QED
          BY <1>4, <5>1, RestType
      <4>3. LotsOf(lots'[e]) = LotsOf(lots[e]) + rest.qty - lot.qty
        BY <1>1, <1>4, <3>3, <4>1, <4>2, LotsOfRest DEF lot
      <4>4. LotsOf(lots[e]) \in Int
        BY <1>4, <3>3, LotsAreInt
      <4>5. LotsOf(lots'[e]) = LotsOf(lots[e]) - part
        BY <1>4, <1>5, <4>2, <4>3, <4>4
      <4> QED
        BY <3>3, <4>5, BalanceTypes, BalanceAfter
    <3> QED
      BY <3>1, <3>2, <3>3
  <2>3. /\ Units(Passed(e, "sell")') = Units(Passed(e, "sell"))
        /\ Units(Passed(e, "buy")') = Units(Passed(e, "buy"))
    BY <1>1, PassedSame
  <2>4. Unmatched(e)' = Unmatched(e) - (IF e0 = e THEN part ELSE 0)
    BY <1>1, <1>2, <1>5, <1>6, <1>7 DEF Unmatched
  <2>8. /\ LotQuantity(e) \in Int /\ Units(Passed(e, "sell")) \in Int
        /\ Units(Passed(e, "buy")) \in Int /\ vanished[e] \in Int /\ Unmatched(e) \in Int
    BY BalanceTypes
  <2>9. Balanced(e)' <=> LotQuantity(e)' + Units(Passed(e, "sell")')
                           = Units(Passed(e, "buy")') + vanished'[e] + Unmatched(e)'
    BY BalanceAfter
  <2> QED
    <3>1. vanished'[e] = vanished[e]
      BY <1>1
    <3>2. part \in Int
      BY <1>5
    <3>3. LotQuantity(e)' = LotQuantity(e) - (IF e0 = e THEN part ELSE 0)
      BY <2>2
    <3> HIDE DEF e0
    <3> QED
      BY <2>1, <2>3, <2>4, <2>8, <2>9, <3>1, <3>2, <3>3
<1> QED
  BY <1>1, <1>7, <1>8, Walking DEF HoldInv

LEMMA FinishSellHolds == ASSUME WalkInv, HoldInv, FinishSell PROVE HoldInv'
<1> DEFINE e0 == selling.row.op.entity
<1>1. /\ rows' = rows /\ phase' = phase /\ lots' = lots /\ todo' = todo
      /\ selling # NoSale /\ selling' = NoSale
      /\ vanished' = [vanished EXCEPT ![e0] = @ + selling.need]
  BY DEF FinishSell, ledger
<1>2. selling \in Matches /\ selling.need \in Nat /\ vanished \in [Entities -> Nat]
  BY <1>1 DEF WalkInv, WalkTypes, Matches
<1>3. ASSUME NEW e \in Entities
      PROVE  Balanced(e)'
  <2>1. LotQuantity(e) + Units(Passed(e, "sell"))
          = Units(Passed(e, "buy")) + vanished[e] + Unmatched(e)
    BY <1>1, Walking DEF Balanced
  <2>2. LotQuantity(e)' = LotQuantity(e)
    BY <1>1, BalanceTypes, BalanceAfter
  <2>3. /\ Units(Passed(e, "sell")') = Units(Passed(e, "sell"))
        /\ Units(Passed(e, "buy")') = Units(Passed(e, "buy"))
    BY <1>1, PassedSame
  <2>4. /\ Unmatched(e)' = 0
        /\ vanished'[e] = vanished[e] + Unmatched(e)
    BY <1>1, <1>2 DEF Unmatched
  <2>8. /\ LotQuantity(e) \in Int /\ Units(Passed(e, "sell")) \in Int
        /\ Units(Passed(e, "buy")) \in Int /\ vanished[e] \in Int /\ Unmatched(e) \in Int
    BY BalanceTypes
  <2>9. Balanced(e)' <=> LotQuantity(e)' + Units(Passed(e, "sell")')
                           = Units(Passed(e, "buy")') + vanished'[e] + Unmatched(e)'
    BY BalanceAfter
  <2> QED
    BY <2>1, <2>2, <2>3, <2>4, <2>8, <2>9
<1> QED
  BY <1>1, <1>3, Walking DEF HoldInv

\* The taxes read the walk and leave it alone; the answer forgets it.
LEMMA TaxesHold ==
  ASSUME WalkInv, HoldInv, StartTaxes \/ \E i \in items : TaxItem(i)
  PROVE  HoldInv'
<1>1. /\ UNCHANGED <<rows, todo, lots, selling, vanished>>
      /\ phase # "idle" /\ phase' # "idle"
  BY DEF StartTaxes, TaxItem, ledger, walk
<1>2. ASSUME NEW e \in Entities
      PROVE  Balanced(e)' <=> Balanced(e)
  BY <1>1 DEF Balanced, LotQuantity, Units, Passed, Unmatched
<1> QED
  BY <1>1, <1>2 DEF HoldInv

LEMMA NextHolds == WalkInv /\ HoldInv /\ [Next]_vars => HoldInv'
<1> SUFFICES ASSUME WalkInv, HoldInv, [Next]_vars
             PROVE  HoldInv'
  OBVIOUS
<1>1. CASE Answer
  BY <1>1 DEF Answer, ledger, HoldInv
<1>2. CASE UNCHANGED vars
  <2>1. \A e \in Entities : Balanced(e)' <=> Balanced(e)
    BY <1>2 DEF vars, Balanced, LotQuantity, Units, Passed, Unmatched
  <2> QED
    BY <1>2, <2>1 DEF vars, HoldInv
<1> QED
  BY <1>1, <1>2, IdleHolds, ReportHolds, SkipRowHolds, WalkBuyHolds, SkipSellHolds,
     BeginSellHolds, TakeHolds, FinishSellHolds, TaxesHold DEF Next

\* The units of rows are those of the rows the walk takes and of those it leaves out.
LEMMA UnitsSplit ==
  ASSUME LedgerTypes, NEW S, S \subseteq rows, IsFiniteSet(S)
  PROVE  Units(S) = Units({r \in S : Walkable(r)}) + Units({r \in S : ~Walkable(r)})
<1> DEFINE Taken(T) == {r \in T : Walkable(r)}
           Left(T) == {r \in T : ~Walkable(r)}
           Q == {T \in SUBSET S : Units(T) = Units(Taken(T)) + Units(Left(T))}
<1>1. {} \in Q
  <2>1. Taken({}) = {} /\ Left({}) = {}
    OBVIOUS
  <2> QED
    BY <2>1, NoUnits
<1>2. ASSUME NEW T \in SUBSET S, NEW y \in S \ T, T \in Q
      PROVE  T \cup {y} \in Q
  <2>1. /\ IsFiniteSet(T) /\ Taken(T) \subseteq T /\ Left(T) \subseteq T
        /\ T \subseteq rows /\ y \in rows \ T
    BY FS_Subset
  <2>2. IsFiniteSet(Taken(T)) /\ IsFiniteSet(Left(T))
    BY <2>1, FS_Subset
  <2>3. /\ Units(T) \in Int /\ Units(T \cup {y}) = Units(T) + y.op.qty
        /\ Units(Taken(T)) \in Int /\ Units(Taken(T) \cup {y}) = Units(Taken(T)) + y.op.qty
        /\ Units(Left(T)) \in Int /\ Units(Left(T) \cup {y}) = Units(Left(T)) + y.op.qty
    <3>1. Taken(T) \subseteq rows /\ y \in rows \ Taken(T)
      BY <2>1
    <3>2. Left(T) \subseteq rows /\ y \in rows \ Left(T)
      BY <2>1
    <3> HIDE DEF Taken, Left
    <3> QED
      BY <2>1, <2>2, <3>1, <3>2, UnitsOfRows
  <2>4. y.op.qty \in Int
    BY <2>1, RowTypes
  <2>5. Units(T) = Units(Taken(T)) + Units(Left(T))
    BY <1>2
  <2>6. CASE Walkable(y)
    <3>1. Taken(T \cup {y}) = Taken(T) \cup {y} /\ Left(T \cup {y}) = Left(T)
      BY <2>6
    <3>2. /\ Units(Taken(T \cup {y})) = Units(Taken(T)) + y.op.qty
          /\ Units(Left(T \cup {y})) = Units(Left(T))
      <4> HIDE DEF Taken, Left
      <4> QED
        BY <2>3, <3>1, Zenon
    <3>3. Units(T \cup {y}) = Units(Taken(T \cup {y})) + Units(Left(T \cup {y}))
      <4> HIDE DEF Taken, Left
      <4> QED
        BY <2>3, <2>4, <2>5, <3>2
    <3> QED
      BY <3>3
  <2>7. CASE ~Walkable(y)
    <3>1. Taken(T \cup {y}) = Taken(T) /\ Left(T \cup {y}) = Left(T) \cup {y}
      BY <2>7
    <3>2. /\ Units(Left(T \cup {y})) = Units(Left(T)) + y.op.qty
          /\ Units(Taken(T \cup {y})) = Units(Taken(T))
      <4> HIDE DEF Taken, Left
      <4> QED
        BY <2>3, <3>1, Zenon
    <3>3. Units(T \cup {y}) = Units(Taken(T \cup {y})) + Units(Left(T \cup {y}))
      <4> HIDE DEF Taken, Left
      <4> QED
        BY <2>3, <2>4, <2>5, <3>2
    <3> QED
      BY <3>3
  <2> QED
    BY <2>6, <2>7
<1>3. S \in Q
  <2> HIDE DEF Q
  <2> QED
    BY <1>1, <1>2, GrowSet
<1> QED
  BY <1>3

\* Whatever rows requests enter, edit and delete, with and without quantities and totals,
\* the lots the walk leaves are what the SQL sums count as held, but for the rows it leaves
\* out and the units that were sold without being held.
THEOREM LotsAreHoldings == Spec => []HoldingsMatchLots
<1>1. WalkInv /\ HoldInv => HoldingsMatchLots
  <2> SUFFICES ASSUME WalkInv, HoldInv, phase = "tax", NEW e \in Entities
               PROVE  LotQuantity(e)
                        = NetQuantity(RowsAt(e)) - NetQuantity(LeftOut(e)) + vanished[e]
    BY DEF HoldingsMatchLots
  <2> DEFINE At(kind) == {r \in RowsAt(e) : r.op.kind = kind}
             Out(kind) == {r \in LeftOut(e) : r.op.kind = kind}
  <2>1. todo = {} /\ selling = NoSale /\ LedgerTypes
    BY DEF WalkInv, Phases
  <2>2. ASSUME NEW kind
        PROVE  /\ Units(At(kind)) = Units(Passed(e, kind)) + Units(Out(kind))
               /\ Units(Out(kind)) \in Int
    <3>1. At(kind) \subseteq rows /\ Out(kind) \subseteq rows
      BY DEF RowsAt, LeftOut
    <3>2. IsFiniteSet(At(kind)) /\ IsFiniteSet(Out(kind))
      BY <3>1, FS_Subset DEF HoldInv
    <3>3. Passed(e, kind) = {r \in At(kind) : Walkable(r)}
      BY <2>1 DEF Passed, RowsAt
    <3>4. Out(kind) = {r \in At(kind) : ~Walkable(r)}
      <4>1. \A r \in rows : r.op.qty \in Int
        BY <2>1, RowTypes
      <4> QED
        BY <4>1 DEF RowsAt, LeftOut, Walkable
    <3> HIDE DEF At, Out
    <3> QED
      BY <2>1, <3>1, <3>2, <3>3, <3>4, UnitsSplit, UnitsOfRows
  <2>3. /\ NetQuantity(RowsAt(e)) = Units(At("buy")) - Units(At("sell"))
        /\ NetQuantity(LeftOut(e)) = Units(Out("buy")) - Units(Out("sell"))
    BY DEF NetQuantity, Units
  <2>4. Unmatched(e) = 0
    BY <2>1 DEF Unmatched
  <2>5. Balanced(e)
    BY DEF HoldInv
  <2> HIDE DEF At, Out
  <2> QED
    BY <2>2, <2>3, <2>4, <2>5, BalanceTypes DEF Balanced
<1>2. Spec => []HoldInv
  BY InitHolds, NextHolds, WalkInvariant, PTL DEF Spec
<1> QED
  BY <1>1, <1>2, WalkInvariant, PTL

-----------------------------------------------------------------------------
(* Types of the taxes.                                                     *)

TaxTypes ==
  /\ items \subseteq [row : rows, gross : Int]
  /\ phase # "tax" => items = {}
  /\ net \in [Years -> Int] /\ owed \in [Years -> Int] /\ gains \in [Years -> Nat]

\* A finite set has an element of the greatest value.
LEMMA GreatestExists ==
    ASSUME NEW v, NEW S, IsFiniteSet(S), S # {}, \A x \in S : v[x] \in Int
    PROVE  \E m \in S : \A x \in S : v[x] <= v[m]
<1> DEFINE Q == {T \in SUBSET S : T # {} => \E m \in T : \A x \in T : v[x] <= v[m]}
<1>1. {} \in Q
  OBVIOUS
<1>2. ASSUME NEW T \in SUBSET S, NEW y \in S \ T, T \in Q
      PROVE  T \cup {y} \in Q
  <2>1. CASE T = {}
    <3>1. T \cup {y} = {y} /\ v[y] <= v[y]
      BY <2>1
    <3> QED
      BY <3>1
  <2>2. CASE T # {}
    <3>1. PICK m \in T : \A x \in T : v[x] <= v[m]
      BY <1>2, <2>2
    <3>2. CASE v[y] <= v[m]
      <4>1. \A x \in T \cup {y} : v[x] <= v[m]
        BY <3>1, <3>2
      <4> QED
        BY <4>1
    <3>3. CASE v[m] <= v[y]
      <4>1. \A x \in T \cup {y} : v[x] <= v[y]
        BY <3>1, <3>3
      <4> QED
        BY <4>1
    <3> QED
      BY <3>2, <3>3
  <2> QED
    BY <2>1, <2>2
<1> HIDE DEF Q
<1>3. S \in Q
  BY <1>1, <1>2, GrowSet
<1> QED
  BY <1>3 DEF Q

\* The latest of the days, and the latest base in force.
LEMMA LatestDay == Max(Times) \in Times
<1> DEFINE v == [t \in Times |-> t]
<1>1. \A t \in Times : v[t] = t /\ v[t] \in Int
  BY EntriesAssumption
<1>2. \E m \in Times : \A t \in Times : v[t] <= v[m]
  BY <1>1, GreatestExists, RatesAssumption
<1>3. \E m \in Times : \A t \in Times : m >= t
  BY <1>1, <1>2
<1> QED
  BY <1>3 DEF Max

LEMMA BaseInForce ==
  ASSUME NEW y, InForce(y) # {}
  PROVE  BaseOf(y) \in Bases
<1> DEFINE v == [b \in InForce(y) |-> b.since]
<1>1. InForce(y) \subseteq Bases
  BY DEF InForce
<1>2. IsFiniteSet(InForce(y))
  BY <1>1, FS_Subset, RatesAssumption
<1>3. \A b \in InForce(y) : v[b] = b.since /\ v[b] \in Int
  BY <1>1, RatesAssumption
<1>4. \E m \in InForce(y) : \A b \in InForce(y) : v[b] <= v[m]
  BY <1>2, <1>3, GreatestExists
<1>5. \E m \in InForce(y) : \A b \in InForce(y) : b.since <= m.since
  BY <1>3, <1>4
<1>6. BaseOf(y) \in InForce(y)
  BY <1>5 DEF BaseOf
<1> QED
  BY <1>1, <1>6

LEMMA BandTypes ==
  ASSUME NEW y, InForce(y) # {}
  PROVE  /\ BaseOf(y).flat \in Nat /\ IsFiniteSet(BaseOf(y).bands)
         /\ \A b \in BaseOf(y).bands :
              b.from \in Nat /\ b.rate \in Nat /\ b.to \in Nat \cup {NoLimit}
<1>1. \A c \in Bases : /\ c.flat \in Nat /\ IsFiniteSet(c.bands)
                       /\ c.bands \subseteq [from : Nat, to : Nat \cup {NoLimit}, rate : Nat]
  BY RatesAssumption
<1>2. /\ BaseOf(y).flat \in Nat /\ IsFiniteSet(BaseOf(y).bands)
      /\ BaseOf(y).bands \subseteq [from : Nat, to : Nat \cup {NoLimit}, rate : Nat]
  BY <1>1, BaseInForce
<1> QED
  BY <1>2

LEMMA RowAmounts ==
  ASSUME LedgerTypes, NEW r \in rows
  PROVE  /\ r.op.at \in Times /\ Total(r.op) \in Int /\ Rate[r.op.at] \in Nat
         /\ Walkable(r) => r.op.total \in Int /\ r.op.qty \in Nat \ {0}
<1>1. r.op \in Entries
  BY DEF LedgerTypes, Stores
<1>2. r.op.at \in Times /\ r.op.total \in Int \cup {NoTotal}
  BY <1>1, EntriesAssumption
<1>3. Rate \in [Times -> Nat]
  BY RatesAssumption
<1> QED
  BY <1>2, <1>3, RowTypes DEF Total

\* What a sale comes to is a number, as far as its lots are numbers.
LEMMA ConvertedType ==
  ASSUME LedgerTypes, NEW s \in Sales
  PROVE  Converted(s) \in Int
<1> DEFINE g == [i \in DOMAIN s.taken |-> CostOf(s.row, s.taken[i])]
<1>1. s.row \in rows /\ Walkable(s.row) /\ s.taken \in Seq(Pieces)
  BY DEF Sales, WalkableRows
<1>2. SaleRate(s.row) \in Nat
  <2>1. Rate[Max(Times)] \in Nat
    BY LatestDay, RatesAssumption
  <2> QED
    BY <1>1, <2>1, RowAmounts DEF SaleRate
<1>3. ASSUME NEW i \in DOMAIN s.taken
      PROVE  CostOf(s.row, s.taken[i]) \in Int
  <2> DEFINE p == s.taken[i]
  <2>1. p \in Pieces
    BY <1>1
  <2>2. p.buy \in rows /\ Walkable(p.buy) /\ p.qty \in Nat
    BY <2>1 DEF Pieces, WalkableRows
  <2>3. CostRate(s.row, p) \in Nat
    BY <1>2, <2>2, RowAmounts DEF CostRate
  <2>4. p.buy.op.total \div p.buy.op.qty \in Int
    <3>1. p.buy.op.total \in Int /\ p.buy.op.qty \in Nat \ {0}
      BY <2>2, RowAmounts
    <3> QED
      BY <3>1
  <2> HIDE DEF p
  <2>5. CostOf(s.row, p) \in Int
    BY <2>2, <2>3, <2>4 DEF CostOf
  <2> QED
    BY <2>5 DEF p
<1>4. SumFunction(g) \in Int
  <2>1. IsFiniteSet(DOMAIN s.taken)
    BY <1>1, PieceUnits
  <2>2. DOMAIN g = DOMAIN s.taken /\ \A i \in DOMAIN g : g[i] \in Int
    BY <1>3
  <2> HIDE DEF g
  <2> QED
    BY <2>1, <2>2, SumIsInt DEF SumFunction
<1>5. s.row.op.total \in Int
  BY <1>1, RowAmounts
<1> HIDE DEF g
<1>6. s.row.op.total * SaleRate(s.row) - SumFunction(g) \in Int
  BY <1>2, <1>4, <1>5
<1> QED
  BY <1>6 DEF Converted, g

\* An exemption takes a part of a gain, never more.
LEMMA TaxableType ==
  ASSUME LedgerTypes, NEW r \in rows, NEW gross \in Int
  PROVE  Taxable(r, gross) \in Int /\ Taxable(r, gross) <= Greater(0, gross)
<1>1. CASE gross > 0
  <2> DEFINE share == (gross * Exemption.rate) \div 100
             fixed == Exemption.fixed * Rate[r.op.at]
  <2>1. /\ Exemption.rate \in Nat /\ Exemption.limit \in Nat /\ Exemption.fixed \in Nat
    BY RatesAssumption
  <2>2. Rate[r.op.at] \in Nat
    BY RowAmounts
  <2>3. gross * Exemption.rate \in Nat /\ fixed \in Nat
    BY <1>1, <2>1, <2>2
  <2>4. share \in Nat
    <3>1. \A n \in Nat : n \div 100 \in Nat
      OBVIOUS
    <3> QED
      BY <2>3, <3>1
  <2> HIDE DEF share, fixed
  <2>5. Lesser(share, Exemption.limit) \in Nat
    BY <2>1, <2>4 DEF Lesser
  <2>6. Lesser(gross, Lesser(share, Exemption.limit) + fixed) \in Nat
    BY <1>1, <2>3, <2>5 DEF Lesser
  <2>7. Exempted(r, gross) \in Nat
    BY <2>6 DEF Exempted, share, fixed
  <2> QED
    BY <1>1, <2>7 DEF Taxable, Greater
<1>2. CASE ~(gross > 0)
  BY <1>2 DEF Taxable, Greater
<1> QED
  BY <1>1, <1>2

-----------------------------------------------------------------------------
(* The tax between two positions.                                          *)

LEMMA SumOfLess ==
  ASSUME NEW f, NEW h, NEW S, IsFiniteSet(S),
         \A x \in S : f[x] \in Int /\ h[x] \in Int /\ f[x] <= h[x]
  PROVE  SumFunctionOnSet(f, S) <= SumFunctionOnSet(h, S)
<1> DEFINE Q == {T \in SUBSET S : SumFunctionOnSet(f, T) <= SumFunctionOnSet(h, T)}
<1>1. {} \in Q
  BY SumOfNone
<1>2. ASSUME NEW T \in SUBSET S, NEW x \in S \ T, T \in Q
      PROVE  T \cup {x} \in Q
  <2>1. IsFiniteSet(T) /\ IsFiniteSet(T \cup {x}) /\ (T \cup {x}) \ {x} = T
    BY FS_Subset
  <2>2. SumFunctionOnSet(f, T \cup {x}) = f[x] + SumFunctionOnSet(f, (T \cup {x}) \ {x})
    BY <2>1, SumTakes
  <2>3. SumFunctionOnSet(h, T \cup {x}) = h[x] + SumFunctionOnSet(h, (T \cup {x}) \ {x})
    BY <2>1, SumTakes
  <2>4. SumFunctionOnSet(f, T) \in Int /\ SumFunctionOnSet(h, T) \in Int
    BY <2>1, SumIsInt
  <2>5. SumFunctionOnSet(f, T) <= SumFunctionOnSet(h, T)
    BY <1>2
  <2>6. SumFunctionOnSet(f, T \cup {x}) <= SumFunctionOnSet(h, T \cup {x})
    <3>1. /\ SumFunctionOnSet(f, T \cup {x}) = f[x] + SumFunctionOnSet(f, T)
          /\ SumFunctionOnSet(h, T \cup {x}) = h[x] + SumFunctionOnSet(h, T)
      BY <2>1, <2>2, <2>3
    <3>2. f[x] \in Int /\ h[x] \in Int /\ f[x] <= h[x]
      OBVIOUS
    <3> QED
      BY <3>1, <3>2, <2>4, <2>5
  <2> QED
    BY <2>6
<1> HIDE DEF Q
<1>3. S \in Q
  BY <1>1, <1>2, GrowSet
<1> QED
  BY <1>3 DEF Q

LEMMA SumOfBoth ==
  ASSUME NEW f, NEW g, NEW h, NEW S, IsFiniteSet(S),
         \A x \in S : f[x] \in Int /\ g[x] \in Int /\ h[x] = f[x] + g[x]
  PROVE  SumFunctionOnSet(h, S) = SumFunctionOnSet(f, S) + SumFunctionOnSet(g, S)
<1> DEFINE Q == {T \in SUBSET S : SumFunctionOnSet(h, T)
                                    = SumFunctionOnSet(f, T) + SumFunctionOnSet(g, T)}
<1>1. {} \in Q
  BY SumOfNone
<1>2. ASSUME NEW T \in SUBSET S, NEW x \in S \ T, T \in Q
      PROVE  T \cup {x} \in Q
  <2>0. \A z \in S : h[z] \in Int
    OBVIOUS
  <2>1. IsFiniteSet(T) /\ IsFiniteSet(T \cup {x}) /\ (T \cup {x}) \ {x} = T
    BY FS_Subset
  <2>2. SumFunctionOnSet(f, T \cup {x}) = f[x] + SumFunctionOnSet(f, (T \cup {x}) \ {x})
    BY <2>1, SumTakes
  <2>3. SumFunctionOnSet(g, T \cup {x}) = g[x] + SumFunctionOnSet(g, (T \cup {x}) \ {x})
    BY <2>1, SumTakes
  <2>4. SumFunctionOnSet(h, T \cup {x}) = h[x] + SumFunctionOnSet(h, (T \cup {x}) \ {x})
    BY <2>0, <2>1, SumTakes
  <2>5. SumFunctionOnSet(f, T) \in Int /\ SumFunctionOnSet(g, T) \in Int
    BY <2>1, SumIsInt
  <2>6. SumFunctionOnSet(h, T) = SumFunctionOnSet(f, T) + SumFunctionOnSet(g, T)
    BY <1>2
  <2>7. SumFunctionOnSet(h, T \cup {x})
          = SumFunctionOnSet(f, T \cup {x}) + SumFunctionOnSet(g, T \cup {x})
    <3>1. /\ SumFunctionOnSet(f, T \cup {x}) = f[x] + SumFunctionOnSet(f, T)
          /\ SumFunctionOnSet(g, T \cup {x}) = g[x] + SumFunctionOnSet(g, T)
          /\ SumFunctionOnSet(h, T \cup {x}) = h[x] + SumFunctionOnSet(h, T)
      BY <2>1, <2>2, <2>3, <2>4
    <3>2. f[x] \in Int /\ g[x] \in Int /\ h[x] = f[x] + g[x]
      OBVIOUS
    <3> QED
      BY <3>1, <3>2, <2>5, <2>6
  <2> QED
    BY <2>7
<1> HIDE DEF Q
<1>3. S \in Q
  BY <1>1, <1>2, GrowSet
<1> QED
  BY <1>3 DEF Q

\* Bands as the bases have them, and the part of a band between two positions.
IsBand(b) == b.from \in Nat /\ b.rate \in Nat /\ b.to \in Nat \cup {NoLimit}

Width(b, from, to) == Greater(0, Ceiling(b, to) - Greater(from, b.from))

Covers(b, u) == b.from <= u /\ (b.to = NoLimit \/ u < b.to)

LEMMA Widths ==
  ASSUME NEW b, IsBand(b), NEW x \in Int, NEW y \in Int
  PROVE  /\ Width(b, x, y) \in Nat
         /\ y <= x => Width(b, x, y) = 0
         /\ Width(b, 0, y) <= Width(b, 0, x) + Width(b, x, y)
         /\ x <= y => Width(b, x, y + 1) = Width(b, x, y) + (IF Covers(b, y) THEN 1 ELSE 0)
<1>1. CASE b.to = NoLimit
  BY <1>1 DEF IsBand, Width, Covers, Ceiling, Greater
<1>2. CASE b.to # NoLimit
  BY <1>2 DEF IsBand, Width, Covers, Ceiling, Greater, Lesser
<1> QED
  BY <1>1, <1>2

\* The same, times the rate.
Share(b, from, to) == Width(b, from, to) * b.rate

Rated(b, u) == IF Covers(b, u) THEN b.rate ELSE 0

LEMMA Shares ==
  ASSUME NEW b, IsBand(b), NEW x \in Int, NEW y \in Int
  PROVE  /\ Share(b, x, y) \in Nat /\ Rated(b, y) \in Nat
         /\ y <= x => Share(b, x, y) = 0
         /\ Share(b, 0, y) <= Share(b, 0, x) + Share(b, x, y)
         /\ x <= y => Share(b, x, y + 1) = Share(b, x, y) + Rated(b, y)
<1> DEFINE w == Width(b, x, y)
           n == Width(b, 0, x)
           m == Width(b, 0, y)
           o == Width(b, x, y + 1)
           r == b.rate
<1>1. /\ w \in Nat /\ n \in Nat /\ m \in Nat /\ o \in Nat /\ r \in Nat
      /\ (y <= x => w = 0) /\ m <= n + w
      /\ x <= y => o = w + (IF Covers(b, y) THEN 1 ELSE 0)
  BY Widths DEF IsBand
<1>2. Share(b, x, y) = w * r /\ Share(b, 0, y) = m * r /\ Share(b, 0, x) = n * r
      /\ Share(b, x, y + 1) = o * r
  BY DEF Share
<1>3. Rated(b, y) = IF Covers(b, y) THEN r ELSE 0
  BY DEF Rated
<1> HIDE DEF w, n, m, o, r
<1>4. w * r \in Nat /\ n * r \in Nat /\ m * r \in Nat /\ o * r \in Nat
  BY <1>1
<1>5. m * r <= n * r + w * r
  <2>1. PICK d \in Nat : m + d = n + w
    BY <1>1
  <2>2. (m + d) * r = (n + w) * r /\ d * r \in Nat
    BY <1>1, <2>1
  <2> QED
    BY <1>1, <1>4, <2>2
<1>6. w = 0 => w * r = 0
  BY <1>1
<1>7. (w + 1) * r = w * r + r
  BY <1>1
<1> QED
  BY <1>1, <1>2, <1>3, <1>4, <1>5, <1>6, <1>7

\* The rate that applies to one unit of amount.
Marginal(bands, u) == SumFunction([b \in bands |-> Rated(b, u)])

LEMMA Progressives ==
  ASSUME NEW bands, IsFiniteSet(bands), \A b \in bands : IsBand(b), NEW x \in Int, NEW y \in Int
  PROVE  /\ Progressive(bands, x, y) \in Int /\ Marginal(bands, y) \in Int
         /\ 0 <= Progressive(bands, x, y)
         /\ y <= x => Progressive(bands, x, y) = 0
         /\ Progressive(bands, 0, y) <= Progressive(bands, 0, x) + Progressive(bands, x, y)
         /\ x <= y => Progressive(bands, x, y + 1)
                        = Progressive(bands, x, y) + Marginal(bands, y)
<1> DEFINE S(from, to) == [b \in bands |-> Share(b, from, to)]
           M == [b \in bands |-> Rated(b, y)]
           Z == [b \in bands |-> 0]
           T(f) == SumFunctionOnSet(f, bands)
<1>0. /\ \A b \in bands, i \in Int, j \in Int : Share(b, i, j) \in Nat
      /\ \A b \in bands : Rated(b, y) \in Nat
  BY Shares
<1>1. /\ \A b \in bands, i \in Int, j \in Int : S(i, j)[b] \in Int /\ S(i, j)[b] = Share(b, i, j)
      /\ \A b \in bands : M[b] \in Int /\ M[b] = Rated(b, y)
      /\ \A b \in bands : Z[b] \in Int /\ Z[b] = 0
  BY <1>0
<1>2. \A i, j \in Int : Progressive(bands, i, j) = T(S(i, j))
  BY DEF Progressive, SumFunction, Share, Width
<1>3. Marginal(bands, y) = T(M)
  BY DEF Marginal, SumFunction
<1>4. /\ \A b \in bands : Z[b] <= S(x, y)[b]
      /\ y <= x => \A b \in bands : S(x, y)[b] = Z[b]
      /\ \A b \in bands : S(0, y)[b] <= S(0, x)[b] + S(x, y)[b]
      /\ x <= y => \A b \in bands : S(x, y + 1)[b] = S(x, y)[b] + M[b]
  BY <1>1, Shares
<1>5. y + 1 \in Int /\ 0 \in Int
  OBVIOUS
<1> DEFINE a == S(x, y)
           c == S(0, x)
           d == S(0, y)
           e == S(x, y + 1)
           p == [b \in bands |-> c[b] + a[b]]
<1>6. /\ \A b \in bands : /\ a[b] \in Int /\ c[b] \in Int /\ d[b] \in Int /\ e[b] \in Int
                          /\ M[b] \in Int /\ Z[b] \in Int /\ Z[b] = 0
                          /\ p[b] = c[b] + a[b] /\ p[b] \in Int
                          /\ Z[b] <= a[b] /\ d[b] <= p[b]
      /\ y <= x => \A b \in bands : a[b] = Z[b]
      /\ x <= y => \A b \in bands : e[b] = a[b] + M[b]
  BY <1>1, <1>4, <1>5
<1>7. /\ Progressive(bands, x, y) = T(a) /\ Progressive(bands, 0, x) = T(c)
      /\ Progressive(bands, 0, y) = T(d) /\ Progressive(bands, x, y + 1) = T(e)
  BY <1>2, <1>5
<1> HIDE DEF a, c, d, e, p, M, Z, S
<1>8. T(a) \in Int /\ T(c) \in Int /\ T(M) \in Int
  BY <1>6, SumIsInt
<1>9. T(Z) = 0
  <2>1. T(Z) = T(Z) + T(Z) /\ T(Z) \in Int
    BY <1>6, SumOfBoth, SumIsInt
  <2>2. \A n \in Int : n = n + n => n = 0
    OBVIOUS
  <2> HIDE DEF T
  <2> QED
    BY <2>1, <2>2
<1>10. T(Z) <= T(a)
  BY <1>6, SumOfLess
<1>11. y <= x => T(a) = T(Z)
  BY <1>6, SumOfSame
<1>12. T(d) <= T(p)
  BY <1>6, SumOfLess
<1>13. T(p) = T(c) + T(a)
  BY <1>6, SumOfBoth
<1>14. x <= y => T(e) = T(a) + T(M)
  BY <1>6, SumOfBoth
<1> HIDE DEF T
<1> QED
  BY <1>3, <1>7, <1>8, <1>9, <1>10, <1>11, <1>12, <1>13, <1>14

\* The brackets of every base ask for a higher rate, or the same one, further up.
RatesRise ==
  \A b \in Bases : \A u, v \in Int : u <= v => Marginal(b.bands, u) <= Marginal(b.bands, v)

\* A stretch further up costs no less.
LEMMA Climb ==
  ASSUME NEW bands, IsFiniteSet(bands), \A b \in bands : IsBand(b),
         \A u, v \in Int : u <= v => Marginal(bands, u) <= Marginal(bands, v),
         NEW x \in Int, NEW z \in Nat, x <= z
  PROVE  \A n \in Nat : Progressive(bands, x, x + n) + Progressive(bands, 0, z)
                          <= Progressive(bands, 0, z + n)
<1> DEFINE P(from, to) == Progressive(bands, from, to)
           M(u) == Marginal(bands, u)
           Q == {n \in Nat : P(x, x + n) + P(0, z) <= P(0, z + n)}
<1>1. /\ \A i, j \in Int : P(i, j) \in Int /\ M(j) \in Int
      /\ \A i, j \in Int : i <= j => P(i, j + 1) = P(i, j) + M(j)
      /\ \A i \in Int : P(i, i) = 0
  BY Progressives
<1>2. \A u, v \in Int : u <= v => M(u) <= M(v)
  OBVIOUS
<1> HIDE DEF P, M
<1>3. 0 \in Q
  <2>1. x + 0 = x /\ z + 0 = z /\ P(x, x) = 0 /\ P(0, z) \in Int
    BY <1>1
  <2> QED
    BY <2>1
<1>4. ASSUME NEW n \in Nat, n \in Q
      PROVE  n + 1 \in Q
  <2> DEFINE i == x + n
             j == z + n
  <2>1. i \in Int /\ j \in Int /\ x <= i /\ 0 <= j /\ i <= j
    OBVIOUS
  <2>2. P(x, i + 1) = P(x, i) + M(i) /\ P(0, j + 1) = P(0, j) + M(j)
    BY <1>1, <2>1
  <2>3. M(i) <= M(j) /\ M(i) \in Int /\ M(j) \in Int
    BY <1>1, <1>2, <2>1
  <2>4. P(x, i) \in Int /\ P(0, j) \in Int /\ P(0, z) \in Int
    BY <1>1, <2>1
  <2>5. P(x, i) + P(0, z) <= P(0, j)
    BY <1>4
  <2>6. x + (n + 1) = i + 1 /\ z + (n + 1) = j + 1
    OBVIOUS
  <2> HIDE DEF i, j
  <2>7. P(x, i + 1) + P(0, z) <= P(0, j + 1)
    BY <2>2, <2>3, <2>4, <2>5
  <2> QED
    BY <2>6, <2>7
<1> HIDE DEF Q
<1>5. Nat \subseteq Q
  BY <1>3, <1>4, CountUp
<1> QED
  BY <1>5 DEF Q, P

LEMMA Capped ==
  ASSUME NEW bands, IsFiniteSet(bands), \A b \in bands : IsBand(b),
         \A u, v \in Int : u <= v => Marginal(bands, u) <= Marginal(bands, v),
         NEW x \in Int, NEW y \in Int, NEW z \in Nat, NEW d \in Nat, x <= z, y <= x + d
  PROVE  Progressive(bands, x, y) + Progressive(bands, 0, z) <= Progressive(bands, 0, z + d)
<1> DEFINE P(from, to) == Progressive(bands, from, to)
<1>1. \A i, j \in Int : P(i, j) \in Int /\ 0 <= P(i, j) /\ (j <= i => P(i, j) = 0)
  BY Progressives
<1>2. \A n \in Nat : P(x, x + n) + P(0, z) <= P(0, z + n)
  BY Climb
<1>3. CASE y <= x
  <2>1. P(x, x + d) + P(0, z) <= P(0, z + d)
    BY <1>2
  <2>2. P(x, y) = 0 /\ 0 <= P(x, x + d)
    BY <1>1, <1>3
  <2>3. P(x, x + d) \in Int /\ P(0, z) \in Int /\ P(0, z + d) \in Int
    BY <1>1
  <2> HIDE DEF P
  <2>4. P(x, y) + P(0, z) <= P(0, z + d)
    BY <2>1, <2>2, <2>3
  <2> QED
    BY <2>4 DEF P
<1>4. CASE x < y
  <2> DEFINE n == y - x
             w == z + n
  <2>1. n \in Nat /\ w \in Nat /\ d - n \in Nat /\ x + n = y /\ w + (d - n) = z + d
    BY <1>4
  <2>2. P(x, y) + P(0, z) <= P(0, w)
    BY <1>2, <2>1
  <2>3. \A m \in Nat : P(w, w + m) + P(0, w) <= P(0, w + m)
    <3>1. w \in Int /\ w \in Nat /\ w <= w
      BY <2>1
    <3> HIDE DEF w
    <3> QED
      BY <3>1, Climb
  <2>4. P(w, z + d) + P(0, w) <= P(0, z + d)
    BY <2>1, <2>3
  <2>5. /\ P(w, z + d) \in Int /\ P(0, w) \in Int /\ P(0, z + d) \in Int
        /\ P(x, y) \in Int /\ P(0, z) \in Int /\ 0 <= P(w, z + d)
    BY <1>1, <2>1
  <2> HIDE DEF P, w, n
  <2>6. P(x, y) + P(0, z) <= P(0, z + d)
    BY <2>2, <2>4, <2>5
  <2> QED
    BY <2>6 DEF P
<1> QED
  BY <1>3, <1>4

\* The tax between two positions, flat or progressive.
LEMMA TaxLaws ==
  ASSUME NEW y, InForce(y) # {}, NEW a \in Int, NEW b \in Int
  PROVE  /\ TaxBetween(y, a, b) \in Int
         /\ TaxBetween(y, 0, 0) = 0
         /\ TaxBetween(y, 0, b) <= TaxBetween(y, 0, a) + TaxBetween(y, a, b)
         /\ RatesRise => \A z, d \in Nat : a <= z /\ b <= a + d =>
              TaxBetween(y, a, b) + TaxBetween(y, 0, z) <= TaxBetween(y, 0, z + d)
<1> DEFINE bands == BaseOf(y).bands
           flat == BaseOf(y).flat
           T(i, j) == TaxBetween(y, i, j)
<1>1. flat \in Nat /\ IsFiniteSet(bands) /\ \A c \in bands : IsBand(c)
  BY BandTypes DEF IsBand
<1>2. \A i, j \in Int :
        T(i, j) = IF BaseOf(y).progressive THEN Progressive(bands, i, j) ELSE (j - i) * flat
  BY DEF TaxBetween
<1>3. RatesRise => \A u, v \in Int : u <= v => Marginal(bands, u) <= Marginal(bands, v)
  BY BaseInForce DEF RatesRise
<1> HIDE DEF bands, flat, T
<1>4. CASE ~BaseOf(y).progressive
  <2>0. /\ \A i, j \in Int : T(i, j) = (j - i) * flat
        /\ \A i \in Int : i - 0 = i /\ i - i = 0
        /\ 0 * flat = 0
    BY <1>1, <1>2, <1>4
  <2>1. /\ T(a, b) = (b - a) * flat /\ T(0, 0) = 0 /\ T(0, b) = b * flat /\ T(0, a) = a * flat
        /\ \A z, d \in Nat : T(0, z) = z * flat /\ T(0, z + d) = (z + d) * flat
    <3>1. T(a, b) = (b - a) * flat /\ T(0, 0) = (0 - 0) * flat
      BY <2>0
    <3>2. \A i \in Int : T(0, i) = i * flat
      <4>1. ASSUME NEW i \in Int
            PROVE  T(0, i) = i * flat
        <5>1. T(0, i) = (i - 0) * flat
          BY <2>0
        <5>2. i - 0 = i
          OBVIOUS
        <5> QED
          BY <5>1, <5>2
      <4> QED
        BY <4>1
    <3>3. \A z, d \in Nat : T(0, z) = z * flat /\ T(0, z + d) = (z + d) * flat
      <4>1. \A z, d \in Nat : z \in Int /\ z + d \in Int
        OBVIOUS
      <4> QED
        BY <3>2, <4>1
    <3> QED
      BY <2>0, <3>1, <3>2, <3>3
  <2>2. (b - a) * flat \in Int /\ a * flat \in Int /\ b * flat \in Int
    BY <1>1
  <2>3. b * flat = a * flat + (b - a) * flat
    BY <1>1
  <2>4. ASSUME NEW z \in Nat, NEW d \in Nat, b <= a + d
        PROVE  (b - a) * flat + z * flat <= (z + d) * flat
    <3>1. PICK k \in Nat : (b - a) + k = d
      BY <2>4
    <3>2. (z + d) * flat = z * flat + (b - a) * flat + k * flat
      BY <1>1, <3>1
    <3>3. k * flat \in Nat /\ z * flat \in Nat
      BY <1>1
    <3> QED
      BY <2>2, <3>2, <3>3
  <2>5. T(a, b) \in Int /\ T(0, 0) = 0 /\ T(0, b) <= T(0, a) + T(a, b)
    BY <2>1, <2>2, <2>3
  <2>6. ASSUME NEW z \in Nat, NEW d \in Nat, b <= a + d
        PROVE  T(a, b) + T(0, z) <= T(0, z + d)
    <3>1. /\ T(a, b) = (b - a) * flat /\ T(0, z) = z * flat
          /\ T(0, z + d) = (z + d) * flat
      BY <2>1
    <3>2. (b - a) * flat + z * flat <= (z + d) * flat
      BY <2>4, <2>6
    <3> QED
      BY <3>1, <3>2
  <2> QED
    BY <2>5, <2>6 DEF T
<1>5. CASE BaseOf(y).progressive
  <2>1. \A i, j \in Int : T(i, j) = Progressive(bands, i, j)
    BY <1>2, <1>5
  <2>2. \A i, j \in Int :
          /\ Progressive(bands, i, j) \in Int
          /\ j <= i => Progressive(bands, i, j) = 0
          /\ Progressive(bands, 0, j) <= Progressive(bands, 0, i) + Progressive(bands, i, j)
    BY <1>1, Progressives
  <2>3. T(a, b) \in Int /\ T(0, 0) = 0 /\ T(0, b) <= T(0, a) + T(a, b)
    BY <2>1, <2>2
  <2>4. ASSUME RatesRise, NEW z \in Nat, NEW d \in Nat, a <= z, b <= a + d
        PROVE  T(a, b) + T(0, z) <= T(0, z + d)
    <3>1. Progressive(bands, a, b) + Progressive(bands, 0, z) <= Progressive(bands, 0, z + d)
      BY <1>1, <1>3, <2>4, Capped
    <3>2. T(a, b) = Progressive(bands, a, b) /\ T(0, z) = Progressive(bands, 0, z)
          /\ T(0, z + d) = Progressive(bands, 0, z + d)
      BY <2>1
    <3> QED
      BY <3>1, <3>2
  <2> QED
    BY <2>3, <2>4 DEF T
<1> QED
  BY <1>4, <1>5

-----------------------------------------------------------------------------
(* The year's tax.                                                         *)

\* A year's position is never above its gains.
NetInGains == \A y \in Years : net[y] <= gains[y]

LEMMA InitTaxes == Init => TaxTypes /\ NetInGains
<1> SUFFICES ASSUME Init
             PROVE  TaxTypes /\ NetInGains
  OBVIOUS
<1>1. /\ items = {} /\ phase = "idle"
      /\ net = [x \in Years |-> 0] /\ owed = [x \in Years |-> 0] /\ gains = [x \in Years |-> 0]
  BY DEF Init, Zero
<1> QED
  BY <1>1 DEF TaxTypes, NetInGains

\* What one item does to its year.
LEMMA ItemSteps ==
  ASSUME WalkInv, TaxTypes, NEW i \in items, TaxItem(i)
  PROVE  \E y \in Years, to \in Int, d \in Nat :
           /\ to <= net[y] + d
           /\ IF Taxed(y, i.row)
              THEN /\ owed' = [owed EXCEPT ![y] = @ + TaxBetween(y, net[y], to)]
                   /\ net' = [net EXCEPT ![y] = to]
                   /\ gains' = [gains EXCEPT ![y] = @ + d]
              ELSE UNCHANGED <<owed, net, gains>>
<1> DEFINE y == Year(i.row.op.at)
           t == Taxable(i.row, i.gross)
           d == Greater(0, i.gross)
<1>1. i.row \in rows /\ i.gross \in Int /\ LedgerTypes
  BY DEF TaxTypes, WalkInv
<1>2. y \in Years
  BY <1>1, RowAmounts DEF Years
<1>3. t \in Int /\ t <= d
  BY <1>1, TaxableType
<1>4. d \in Nat
  BY <1>1 DEF Greater
<1>5. net[y] \in Int
  BY <1>2 DEF TaxTypes
<1>6. IF Taxed(y, i.row)
      THEN /\ owed' = [owed EXCEPT ![y] = @ + TaxBetween(y, net[y], net[y] + t)]
           /\ net' = [net EXCEPT ![y] = net[y] + t]
           /\ gains' = [gains EXCEPT ![y] = @ + d]
      ELSE UNCHANGED <<owed, net, gains>>
  BY DEF TaxItem
<1> HIDE DEF y, t, d
<1>7. net[y] + t \in Int /\ net[y] + t <= net[y] + d
  BY <1>3, <1>4, <1>5
<1> QED
  BY <1>2, <1>4, <1>6, <1>7

LEMMA ItemTypes ==
  ASSUME WalkInv, TaxTypes, NEW i \in items, TaxItem(i)
  PROVE  TaxTypes'
<1>1. rows' = rows /\ phase' = phase /\ items' = items \ {i} /\ phase = "tax"
  BY DEF TaxItem, ledger
<1>2. PICK y \in Years, to \in Int, d \in Nat :
           IF Taxed(y, i.row)
           THEN /\ owed' = [owed EXCEPT ![y] = @ + TaxBetween(y, net[y], to)]
                /\ net' = [net EXCEPT ![y] = to]
                /\ gains' = [gains EXCEPT ![y] = @ + d]
           ELSE UNCHANGED <<owed, net, gains>>
  BY ItemSteps
<1>3. net \in [Years -> Int] /\ owed \in [Years -> Int] /\ gains \in [Years -> Nat]
  BY DEF TaxTypes
<1>4. CASE Taxed(y, i.row)
  <2>1. TaxBetween(y, net[y], to) \in Int
    <3>1. InForce(y) # {} /\ net[y] \in Int
      BY <1>3, <1>4 DEF Taxed
    <3> QED
      BY <3>1, TaxLaws
  <2>2. owed[y] + TaxBetween(y, net[y], to) \in Int /\ gains[y] + d \in Nat
    BY <1>3, <2>1
  <2>3. net' \in [Years -> Int] /\ owed' \in [Years -> Int] /\ gains' \in [Years -> Nat]
    BY <1>2, <1>3, <1>4, <2>2
  <2> QED
    BY <1>1, <2>3 DEF TaxTypes
<1>5. CASE ~Taxed(y, i.row)
  BY <1>1, <1>2, <1>5 DEF TaxTypes
<1> QED
  BY <1>4, <1>5

LEMMA StartTypes ==
  ASSUME WalkInv, TaxTypes, StartTaxes
  PROVE  TaxTypes'
<1>1. /\ rows' = rows /\ phase' = "tax" /\ UNCHANGED <<net, owed, gains>>
      /\ items' = {Item(s.row, Converted(s)) : s \in sales}
           \cup {Item(r, Total(r.op) * Rate[r.op.at]) : r \in {d \in rows : d.op.kind = "dividend"}}
  BY DEF StartTaxes, ledger
<1>2. LedgerTypes /\ sales \subseteq Sales
  BY DEF WalkInv, WalkTypes
<1>3. ASSUME NEW s \in sales
      PROVE  Item(s.row, Converted(s)) \in [row : rows, gross : Int]
  <2>1. s \in Sales
    BY <1>2
  <2>2. Converted(s) \in Int
    BY <1>2, <2>1, ConvertedType
  <2>3. s.row \in rows
    BY <2>1 DEF Sales, WalkableRows
  <2> QED
    BY <2>2, <2>3 DEF Item
<1>4. ASSUME NEW r \in rows
      PROVE  Item(r, Total(r.op) * Rate[r.op.at]) \in [row : rows, gross : Int]
  <2>1. Total(r.op) * Rate[r.op.at] \in Int
    <3>1. Total(r.op) \in Int /\ Rate[r.op.at] \in Nat
      BY <1>2, RowAmounts
    <3> QED
      BY <3>1
  <2> QED
    BY <2>1 DEF Item
<1>5. items' \subseteq [row : rows, gross : Int]
  BY <1>1, <1>3, <1>4
<1> QED
  BY <1>1, <1>5 DEF TaxTypes

\* Only the items and the answer touch the amounts of a year.
LEMMA AnswerTaxes == ASSUME TaxTypes, Answer PROVE TaxTypes' /\ NetInGains'
<1>1. /\ items' = {} /\ net' = [x \in Years |-> 0] /\ owed' = [x \in Years |-> 0]
      /\ gains' = [x \in Years |-> 0]
  BY DEF Answer, Zero
<1> QED
  BY <1>1 DEF TaxTypes, NetInGains

LEMMA NoTaxes ==
  ASSUME TaxTypes, [Next]_vars, ~StartTaxes, ~Answer, \A i \in items : ~TaxItem(i)
  PROVE  /\ UNCHANGED <<net, owed, gains>> /\ items' = items /\ (phase' = "tax" => phase = "tax")
         /\ rows' = rows \/ phase = "idle"
BY DEF Next, vars, ledger, taxes, walk, Enter, Edit, Delete, Report, SkipRow, WalkBuy, SkipSell,
       BeginSell, IsNext, Take, FinishSell

LEMMA NextTypes == WalkInv /\ TaxTypes /\ [Next]_vars => TaxTypes'
<1> SUFFICES ASSUME WalkInv, TaxTypes, [Next]_vars
             PROVE  TaxTypes'
  OBVIOUS
<1>1. CASE ~StartTaxes /\ ~Answer /\ \A i \in items : ~TaxItem(i)
  <2>1. /\ UNCHANGED <<net, owed, gains>> /\ items' = items /\ (phase' = "tax" => phase = "tax")
        /\ rows' = rows \/ phase = "idle"
    BY <1>1, NoTaxes
  <2>2. CASE phase = "idle"
    BY <2>1, <2>2 DEF TaxTypes
  <2>3. CASE phase # "idle"
    <3>1. rows' = rows /\ items' \subseteq [row : rows', gross : Int]
      BY <2>1, <2>3 DEF TaxTypes
    <3>2. phase' # "tax" => items' = {}
      <4>1. CASE phase # "tax"
        BY <2>1, <4>1 DEF TaxTypes
      <4>2. CASE phase = "tax"
        BY <1>1, <4>2 DEF Next, vars, Enter, Edit, Delete, Report, SkipRow, WalkBuy, SkipSell,
                          BeginSell, IsNext, Take, FinishSell
      <4> QED
        BY <4>1, <4>2
    <3> QED
      BY <2>1, <3>1, <3>2 DEF TaxTypes
  <2> QED
    BY <2>2, <2>3
<1>2. CASE StartTaxes \/ Answer \/ \E i \in items : TaxItem(i)
  BY <1>2, StartTypes, AnswerTaxes, ItemTypes
<1> QED
  BY <1>1, <1>2

LEMMA TaxesTyped == Spec => []TaxTypes
<1>1. Init => TaxTypes
  BY InitTaxes
<1> QED
  BY <1>1, NextTypes, WalkInvariant, PTL DEF Spec

\* Types of rows, lots, sales and amounts, whatever is entered and edited.
THEOREM ReportTypes == Spec => []TypeOK
<1>1. WalkInv /\ TaxTypes => TypeOK
  <2> SUFFICES ASSUME WalkInv, TaxTypes
               PROVE  TypeOK
    OBVIOUS
  <2>1. selling = NoSale \/ /\ selling.need \in Nat
                            /\ [row |-> selling.row, taken |-> selling.taken] \in Sales
    BY DEF WalkInv, WalkTypes, Matches, Sales
  <2> QED
    BY <2>1 DEF WalkInv, WalkTypes, LedgerTypes, TaxTypes, TypeOK
<1> QED
  BY <1>1, WalkInvariant, TaxesTyped, PTL

\* Taxing item by item never asks for less than the tax on the year's net amount, whatever the
\* brackets, the exemptions and the order of gains and losses.
LEMMA NextNetTaxed == WalkInv /\ TaxTypes /\ NetIsTaxed /\ [Next]_vars => NetIsTaxed'
<1> SUFFICES ASSUME WalkInv, TaxTypes, NetIsTaxed, [Next]_vars, NEW z \in Years, InForce(z) # {}
             PROVE  TaxBetween(z, 0, net'[z]) <= owed'[z]
  BY DEF NetIsTaxed, TaxBetween, InForce, BaseOf
<1>1. net \in [Years -> Int] /\ owed \in [Years -> Int]
  BY DEF TaxTypes
<1>2. TaxBetween(z, 0, net[z]) <= owed[z]
  BY DEF NetIsTaxed
<1>3. ASSUME NEW i \in items, TaxItem(i)
      PROVE  TaxBetween(z, 0, net'[z]) <= owed'[z]
  <2>1. PICK y \in Years, to \in Int, d \in Nat :
             IF Taxed(y, i.row)
             THEN /\ owed' = [owed EXCEPT ![y] = @ + TaxBetween(y, net[y], to)]
                  /\ net' = [net EXCEPT ![y] = to]
             ELSE UNCHANGED <<owed, net>>
    BY <1>3, ItemSteps
  <2>2. CASE Taxed(y, i.row) /\ z = y
    <3>1. net'[z] = to /\ owed'[z] = owed[z] + TaxBetween(z, net[z], to)
      BY <1>1, <2>1, <2>2
    <3>2. net[z] \in Int /\ owed[z] \in Int
      BY <1>1
    <3>3. /\ TaxBetween(z, 0, to) <= TaxBetween(z, 0, net[z]) + TaxBetween(z, net[z], to)
          /\ TaxBetween(z, net[z], to) \in Int
      BY <3>2, TaxLaws
    <3>4. TaxBetween(z, 0, to) \in Int /\ TaxBetween(z, 0, net[z]) \in Int
      BY <3>2, TaxLaws
    <3> QED
      BY <1>2, <3>1, <3>2, <3>3, <3>4
  <2>3. CASE ~(Taxed(y, i.row) /\ z = y)
    <3>1. net'[z] = net[z] /\ owed'[z] = owed[z]
      BY <1>1, <2>1, <2>3
    <3> QED
      BY <1>2, <3>1
  <2> QED
    BY <2>2, <2>3
<1>4. CASE Answer
  <2>1. net'[z] = 0 /\ owed'[z] = 0
    BY <1>4 DEF Answer, Zero
  <2>2. TaxBetween(z, 0, 0) = 0
    BY TaxLaws
  <2> QED
    BY <2>1, <2>2
<1>5. CASE StartTaxes
  BY <1>2, <1>5 DEF StartTaxes
<1>6. CASE ~StartTaxes /\ ~Answer /\ \A i \in items : ~TaxItem(i)
  BY <1>2, <1>6, NoTaxes
<1> QED
  BY <1>3, <1>4, <1>5, <1>6

\* Nor, under brackets that ask for more further up, for more than the tax on the gains alone.
LEMMA NextGainsTaxed ==
  RatesRise /\ WalkInv /\ TaxTypes /\ NetInGains /\ OnlyGainsAreTaxed /\ [Next]_vars
    => (NetInGains /\ OnlyGainsAreTaxed)'
<1> SUFFICES ASSUME RatesRise, WalkInv, TaxTypes, NetInGains, OnlyGainsAreTaxed, [Next]_vars,
                    NEW z \in Years
             PROVE  /\ net'[z] <= gains'[z]
                    /\ InForce(z) # {} => owed'[z] <= TaxBetween(z, 0, gains'[z])
  BY DEF NetInGains, OnlyGainsAreTaxed, TaxBetween, InForce, BaseOf
<1> DEFINE Fine(n, o, g) == n <= g /\ (InForce(z) # {} => o <= TaxBetween(z, 0, g))
<1>1. net \in [Years -> Int] /\ owed \in [Years -> Int] /\ gains \in [Years -> Nat]
  BY DEF TaxTypes
<1>2. Fine(net[z], owed[z], gains[z])
  BY DEF NetInGains, OnlyGainsAreTaxed
<1>3. ASSUME NEW i \in items, TaxItem(i)
      PROVE  Fine(net'[z], owed'[z], gains'[z])
  <2>1. PICK y \in Years, to \in Int, d \in Nat :
           /\ to <= net[y] + d
           /\ IF Taxed(y, i.row)
              THEN /\ owed' = [owed EXCEPT ![y] = @ + TaxBetween(y, net[y], to)]
                   /\ net' = [net EXCEPT ![y] = to]
                   /\ gains' = [gains EXCEPT ![y] = @ + d]
              ELSE UNCHANGED <<owed, net, gains>>
    BY <1>3, ItemSteps
  <2>2. CASE Taxed(y, i.row) /\ z = y
    <3>1. /\ net'[z] = to /\ owed'[z] = owed[z] + TaxBetween(z, net[z], to)
          /\ gains'[z] = gains[z] + d /\ to <= net[z] + d
      BY <1>1, <2>1, <2>2
    <3>2. net[z] \in Int /\ owed[z] \in Int /\ gains[z] \in Nat
      BY <1>1
    <3>3. InForce(z) # {}
      BY <2>2 DEF Taxed
    <3>4. net[z] <= gains[z] /\ owed[z] <= TaxBetween(z, 0, gains[z])
      BY <1>2, <3>3
    <3>5. TaxBetween(z, net[z], to) + TaxBetween(z, 0, gains[z]) <= TaxBetween(z, 0, gains[z] + d)
      BY <3>1, <3>2, <3>3, <3>4, TaxLaws
    <3>6. /\ TaxBetween(z, net[z], to) \in Int /\ TaxBetween(z, 0, gains[z]) \in Int
          /\ TaxBetween(z, 0, gains[z] + d) \in Int
      <4>1. \A m, n \in Int : TaxBetween(z, m, n) \in Int
        BY <3>3, TaxLaws
      <4>2. gains[z] + d \in Int /\ gains[z] \in Int
        BY <3>2
      <4> DEFINE g == gains[z] + d
      <4>3. net[z] \in Int /\ g \in Int /\ 0 \in Int /\ to \in Int
        BY <3>2, <4>2
      <4> HIDE DEF g
      <4>4. TaxBetween(z, net[z], to) \in Int
        BY <4>1, <4>3
      <4>5. TaxBetween(z, 0, gains[z]) \in Int
        BY <4>1, <4>2, <4>3
      <4>6. TaxBetween(z, 0, g) \in Int
        BY <4>1, <4>3
      <4> QED
        BY <4>4, <4>5, <4>6 DEF g
    <3>7. owed[z] + TaxBetween(z, net[z], to) <= TaxBetween(z, 0, gains[z] + d)
      BY <3>2, <3>4, <3>5, <3>6
    <3>8. to <= gains[z] + d
      BY <3>1, <3>2, <3>4
    <3> QED
      BY <3>1, <3>7, <3>8
  <2>3. CASE ~(Taxed(y, i.row) /\ z = y)
    <3>1. net'[z] = net[z] /\ owed'[z] = owed[z] /\ gains'[z] = gains[z]
      BY <1>1, <2>1, <2>3
    <3> QED
      BY <1>2, <3>1
  <2> QED
    BY <2>2, <2>3
<1>4. CASE Answer
  <2>1. net'[z] = 0 /\ owed'[z] = 0 /\ gains'[z] = 0
    BY <1>4 DEF Answer, Zero
  <2>2. InForce(z) # {} => TaxBetween(z, 0, 0) = 0
    BY TaxLaws
  <2> QED
    BY <2>1, <2>2
<1>5. CASE StartTaxes
  BY <1>2, <1>5 DEF StartTaxes
<1>6. CASE ~StartTaxes /\ ~Answer /\ \A i \in items : ~TaxItem(i)
  BY <1>2, <1>6, NoTaxes
<1> QED
  BY <1>3, <1>4, <1>5, <1>6

LEMMA InitBounds == Init => NetIsTaxed /\ OnlyGainsAreTaxed
<1> SUFFICES ASSUME Init, NEW y \in Years, InForce(y) # {}
             PROVE  /\ TaxBetween(y, 0, net[y]) <= owed[y]
                    /\ owed[y] <= TaxBetween(y, 0, gains[y])
  BY DEF NetIsTaxed, OnlyGainsAreTaxed
<1>1. net[y] = 0 /\ owed[y] = 0 /\ gains[y] = 0
  BY DEF Init, Zero
<1>2. TaxBetween(y, 0, 0) = 0
  BY TaxLaws
<1> QED
  BY <1>1, <1>2

\* The lower bound needs nothing of the brackets.
THEOREM NetAmountsAreTaxed == Spec => []NetIsTaxed
<1>1. Init => NetIsTaxed
  BY InitBounds
<1> QED
  BY <1>1, NextNetTaxed, WalkInvariant, TaxesTyped, PTL DEF Spec

\* Both bounds, for every base whose brackets rise.
THEOREM TaxesStayWithinBounds ==
  ASSUME RatesRise
  PROVE  Spec => []TaxWithinBounds
<1>1. Init => NetInGains /\ OnlyGainsAreTaxed
  BY InitTaxes, InitBounds
<1>2. WalkInv /\ TaxTypes /\ (NetInGains /\ OnlyGainsAreTaxed) /\ [Next]_vars
        => (NetInGains /\ OnlyGainsAreTaxed)'
  BY NextGainsTaxed
<1>3. Spec => [](NetInGains /\ OnlyGainsAreTaxed)
  BY <1>1, <1>2, WalkInvariant, TaxesTyped, PTL DEF Spec
<1>4. NetIsTaxed /\ (NetInGains /\ OnlyGainsAreTaxed) => TaxWithinBounds
  BY DEF TaxWithinBounds
<1> QED
  BY <1>3, <1>4, NetAmountsAreTaxed, PTL

=============================================================================
