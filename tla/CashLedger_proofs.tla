-------------------------- MODULE CashLedger_proofs --------------------------
(***************************************************************************)
(* Proofs of the attachment model of the cash ledger, for any number of    *)
(* transactions, snapshots and pockets, any instants and any amounts.      *)
(*                                                                         *)
(* In the first part, on links, a balance is whatever BalanceAt says it    *)
(* is.  The second part is about amounts: sums, types, adjustments, and    *)
(* the funding of spends.  The third is about snapshots: that each lands   *)
(* on the amount declared.                                                 *)
(***************************************************************************)
EXTENDS CashLedgerProperties, FiniteSetTheorems, TLAPS

USE NoRowAssumption

\* d is a copy of the tables.
Shape(d) ==
    /\ DOMAIN d = {"tx", "snap", "adj", "inj", "link", "dangling", "fee"}
    /\ d.tx \in [TxIds -> TxRows \cup {NoRow}]

\* Transaction t is a spend of the slot.
Spends(d, t, slot) == d.tx[t] # NoRow /\ IsSpend(d.tx[t]) /\ Slot(d.tx[t]) = slot

\* A link joins an injection to a spend of its slot, and one whose injection
\* was deleted still names a spend of that slot: LinksFund, pair by pair.
Joined(d) ==
    /\ d.link \subseteq (DOMAIN d.inj) \X TxIds
    /\ \A slot \in DOMAIN d.inj, t \in TxIds : <<slot, t>> \in d.link => Spends(d, t, slot)
    /\ \A l \in d.dangling : l[2] \in TxIds /\ Spends(d, l[2], l[1]) /\ l[1][1] = MainCurrency

\* Every injection outside the main currency's pocket, those of `slots` left
\* aside, has a link.  A fee may leave one of the main currency without.
HeldBut(d, slots) ==
    \A slot \in DOMAIN d.inj \ slots :
        slot[1] # MainCurrency => \E t \in TxIds : <<slot, t>> \in d.link

\* The inductive invariant, on tables.
Sound(d) == Shape(d) /\ Joined(d) /\ HeldBut(d, {})

\* Sound tables in which t is a spend about to be linked: the injection of
\* its slot may have no link yet.
Pending(d, t) ==
    /\ Shape(d)
    /\ Joined(d)
    /\ d.tx[t] \in TxRows /\ IsSpend(d.tx[t])
    /\ HeldBut(d, {Slot(d.tx[t])})

\* What the reconciliation of snapshots never touches.
SameSpends(d, e) ==
    /\ Shape(e)
    /\ e.tx = d.tx /\ e.inj = d.inj /\ e.link = d.link /\ e.dangling = d.dangling

-----------------------------------------------------------------------------
(* Statements.                                                             *)

\* Reconciling a snapshot rewrites the adjustments only.
LEMMA SetAdjustmentKeeps ==
    ASSUME NEW d, Shape(d), NEW p, NEW s, NEW ts, NEW amount
    PROVE  SameSpends(d, SetAdjustment(d, p, s, ts, amount))
<1> DEFINE key == <<s, p>>
           at == IF key \in DOMAIN d.adj THEN d.adj[key].ts ELSE AdjustmentTs(ts)
           table == With(d.adj, key, [ts |-> at, amount |-> amount])
<1>1. SetAdjustment(d, p, s, ts, amount) = [d EXCEPT !.adj = table]
  BY DEF SetAdjustment
<1> HIDE DEF table
<1> QED
  BY <1>1 DEF SameSpends, Shape

LEMMA RecalculateKeeps ==
    ASSUME NEW d, Shape(d), NEW p, NEW ts
    PROVE  SameSpends(d, Recalculate(d, p, ts))
<1> DEFINE s == Earliest(d, SnapsAfter(d, p, ts))
           row == d.snap[s]
           refreshed == SetAdjustment(d, p, s, row.ts, Reconciling(d, p, s, row.ts, row.amount))
<1>1. Recalculate(d, p, ts) = IF SnapsAfter(d, p, ts) = {} THEN d ELSE refreshed
  BY DEF Recalculate
<1>2. SameSpends(d, refreshed)
  BY SetAdjustmentKeeps
<1>3. SameSpends(d, d)
  BY DEF SameSpends
<1> QED
  BY <1>1, <1>2, <1>3

\* Whatever keeps the spends, the injections and the links keeps soundness.
LEMMA SameSpendsSound ==
    ASSUME NEW d, NEW e, Sound(d), SameSpends(d, e)
    PROVE  Sound(e)
BY DEF Sound, SameSpends, Joined, Spends, HeldBut

LEMMA RecalculateSound ==
    ASSUME NEW d, Sound(d), NEW p, NEW ts
    PROVE  Sound(Recalculate(d, p, ts))
BY RecalculateKeeps, SameSpendsSound DEF Sound

\* Funding a spend touches no injection but that of its slot, and no link.
LEMMA EnsureCashKeeps ==
    ASSUME NEW d, Shape(d), NEW seen, NEW row, NEW mode
    PROVE  LET e == EnsureCash(d, seen, row, mode)
           IN  /\ Shape(e)
               /\ e.tx = d.tx
               /\ e.link = d.link /\ e.dangling = d.dangling
               /\ DOMAIN d.inj \subseteq DOMAIN e.inj
               /\ DOMAIN e.inj \subseteq DOMAIN d.inj \cup {Slot(row)}
<1> DEFINE anchored == SnapsBefore(d, row.pocket, InjectionTs(row.ts)) # {}
           needed == row.cash - BalanceAt(seen, row.pocket, row.ts, TRUE)
           held == IF Slot(row) \in DOMAIN d.inj THEN d.inj[Slot(row)] ELSE 0
           table == With(d.inj, Slot(row), held + needed)
           skip == mode = "debit" \/ (anchored /\ mode # "inject") \/ needed <= 0
<1>1. EnsureCash(d, seen, row, mode) = IF skip THEN d ELSE [d EXCEPT !.inj = table]
  BY DEF EnsureCash
<1>2. DOMAIN table = DOMAIN d.inj \cup {Slot(row)}
  BY DEF With
<1> HIDE DEF table, skip
<1> QED
  BY <1>1, <1>2 DEF Shape

\* Linking the pending spend makes the tables sound: the injection of its
\* slot now has a link, and the link joins a spend of that slot.
LEMMA LinkingSound ==
    ASSUME NEW d, NEW t \in TxIds, Pending(d, t)
    PROVE  Sound(LinkInjection(d, t))
<1> DEFINE slot == Slot(d.tx[t])
           e == LinkInjection(d, t)
<1>1. CASE slot \in DOMAIN d.inj
  <2>1. e = [d EXCEPT !.link = d.link \cup {<<slot, t>>}]
    BY <1>1 DEF LinkInjection
  <2>2. /\ Shape(e) /\ e.tx = d.tx /\ e.inj = d.inj
        /\ e.link = d.link \cup {<<slot, t>>} /\ e.dangling = d.dangling
    BY <2>1 DEF Pending, Shape
  <2>3. d.tx[t] # NoRow
    BY DEF Pending
  <2> HIDE DEF e
  <2>4. Joined(e)
    <3>1. e.link \subseteq (DOMAIN e.inj) \X TxIds
      BY <1>1, <2>2 DEF Pending, Joined
    <3>2. ASSUME NEW a \in DOMAIN e.inj, NEW u \in TxIds, <<a, u>> \in e.link
          PROVE  Spends(e, u, a)
      <4>1. CASE <<a, u>> \in d.link
        BY <2>2, <3>2, <4>1 DEF Pending, Joined, Spends
      <4>2. CASE <<a, u>> = <<slot, t>>
        BY <2>2, <2>3, <4>2 DEF Pending, Spends
      <4> QED
        BY <2>2, <3>2, <4>1, <4>2
    <3>3. \A l \in e.dangling :
            l[2] \in TxIds /\ Spends(e, l[2], l[1]) /\ l[1][1] = MainCurrency
      BY <2>2 DEF Pending, Joined, Spends
    <3> QED
      BY <3>1, <3>2, <3>3 DEF Joined
  <2>5. HeldBut(e, {})
    <3>1. ASSUME NEW a \in DOMAIN e.inj, a[1] # MainCurrency
          PROVE  \E u \in TxIds : <<a, u>> \in e.link
      <4>1. CASE a = slot
        BY <2>2, <4>1
      <4>2. CASE a # slot
        BY <2>2, <3>1, <4>2 DEF Pending, HeldBut
      <4> QED
        BY <4>1, <4>2
    <3> QED
      BY <3>1 DEF HeldBut
  <2> QED
    BY <2>2, <2>4, <2>5 DEF Sound, e
<1>2. CASE slot \notin DOMAIN d.inj
  <2>1. e = d
    BY <1>2 DEF LinkInjection
  <2> QED
    BY <1>2, <2>1 DEF Pending, Sound, HeldBut
<1> QED
  BY <1>1, <1>2

-----------------------------------------------------------------------------
(* Detaching a spend from its injection.                                   *)

\* No link names transaction t, dangling or not.
Free(d, t) ==
    /\ \A slot \in DOMAIN d.inj : <<slot, t>> \notin d.link
    /\ \A l \in d.dangling : l[2] # t

\* A transaction that is not a spend, or is not there, has no link.
LEMMA OthersFree ==
    ASSUME NEW d, NEW t \in TxIds, Joined(d), d.tx[t] = NoRow \/ ~IsSpend(d.tx[t])
    PROVE  Free(d, t)
BY DEF Joined, Spends, Free

\* Its links lead to its slot.
LEMMA OwnSlot ==
    ASSUME NEW d, NEW t \in TxIds, Joined(d), NEW slot \in DOMAIN d.inj,
           <<slot, t>> \in d.link
    PROVE  slot = Slot(d.tx[t])
BY DEF Joined, Spends

\* A free transaction may be rewritten.
LEMMA RewriteKeeps ==
    ASSUME NEW d, NEW t \in TxIds, Shape(d), Joined(d), Free(d, t),
           NEW row \in TxRows \cup {NoRow}
    PROVE  LET e == [d EXCEPT !.tx[t] = row]
           IN  /\ Shape(e) /\ Joined(e)
               /\ e.tx = [d.tx EXCEPT ![t] = row]
               /\ e.inj = d.inj /\ e.link = d.link /\ e.dangling = d.dangling
<1> DEFINE e == [d EXCEPT !.tx[t] = row]
<1>1. /\ Shape(e) /\ e.tx = [d.tx EXCEPT ![t] = row]
      /\ e.inj = d.inj /\ e.link = d.link /\ e.dangling = d.dangling
  BY DEF Shape
<1> HIDE DEF e
<1>2. e.link \subseteq (DOMAIN e.inj) \X TxIds
  BY <1>1 DEF Joined
<1>3. ASSUME NEW a \in DOMAIN e.inj, NEW u \in TxIds, <<a, u>> \in e.link
      PROVE  Spends(e, u, a)
  <2>1. u # t
    BY <1>1, <1>3 DEF Free
  <2>2. e.tx[u] = d.tx[u]
    BY <1>1, <2>1 DEF Shape
  <2> QED
    BY <1>1, <1>3, <2>2 DEF Joined, Spends
<1>4. ASSUME NEW l \in e.dangling
      PROVE  l[2] \in TxIds /\ Spends(e, l[2], l[1]) /\ l[1][1] = MainCurrency
  <2>1. l[2] # t /\ l[2] \in TxIds
    BY <1>1 DEF Free, Joined
  <2>2. e.tx[l[2]] = d.tx[l[2]]
    BY <1>1, <2>1 DEF Shape
  <2> QED
    BY <1>1, <2>2 DEF Joined, Spends
<1>5. Joined(e)
  BY <1>2, <1>3, <1>4 DEF Joined
<1> QED
  BY <1>1, <1>5 DEF e

LEMMA RewriteSound ==
    ASSUME NEW d, NEW t \in TxIds, Sound(d), Free(d, t), NEW row \in TxRows \cup {NoRow}
    PROVE  /\ Sound([d EXCEPT !.tx[t] = row])
           /\ Free([d EXCEPT !.tx[t] = row], t)
<1> DEFINE e == [d EXCEPT !.tx[t] = row]
<1>1. /\ Shape(e) /\ Joined(e)
      /\ e.inj = d.inj /\ e.link = d.link /\ e.dangling = d.dangling
  BY RewriteKeeps DEF Sound
<1> HIDE DEF e
<1>2. Free(e, t) /\ HeldBut(e, {})
  BY <1>1 DEF Sound, Free, HeldBut
<1> QED
  BY <1>1, <1>2 DEF Sound, e

\* Dropping an injection with its links.
LEMMA DropSound ==
    ASSUME NEW d, NEW slot, Shape(d), Joined(d), HeldBut(d, {slot})
    PROVE  LET e == DropInjection(d, slot)
           IN  /\ Sound(e)
               /\ e.tx = d.tx
               /\ e.link \subseteq d.link /\ e.dangling = d.dangling
<1> DEFINE e == DropInjection(d, slot)
           table == Without(d.inj, {slot})
<1>1. DOMAIN table = DOMAIN d.inj \ {slot}
  BY DEF Without
<1> HIDE DEF table
<1>2. /\ Shape(e) /\ e.tx = d.tx /\ e.inj = table
      /\ e.link = {l \in d.link : l[1] # slot} /\ e.dangling = d.dangling
  BY DEF DropInjection, table, Shape
<1> HIDE DEF e
<1>3. \A a, u : <<a, u>> \in e.link <=> <<a, u>> \in d.link /\ a # slot
  BY <1>2
<1>4. Joined(e)
  <2>1. e.link \subseteq (DOMAIN e.inj) \X TxIds
    BY <1>1, <1>2 DEF Joined
  <2> QED
    BY <1>1, <1>2, <1>3, <2>1 DEF Joined, Spends
<1>5. HeldBut(e, {})
  BY <1>1, <1>2, <1>3 DEF HeldBut
<1> QED
  BY <1>2, <1>4, <1>5 DEF Sound, e

\* Deleting an injection of the main currency and leaving its links.
LEMMA AbandonSound ==
    ASSUME NEW d, NEW slot, slot[1] = MainCurrency, Sound(d)
    PROVE  Sound(AbandonInjection(d, slot))
<1> DEFINE c == DropInjection(d, slot)
           left == d.dangling \cup {l \in d.link : l[1] = slot}
           e == AbandonInjection(d, slot)
<1>1. HeldBut(d, {slot})
  BY DEF Sound, HeldBut
<1>2. Sound(c) /\ c.tx = d.tx
  BY <1>1, DropSound DEF Sound
<1>3. e = [c EXCEPT !.dangling = left]
  BY DEF AbandonInjection
<1> HIDE DEF c, e, left
<1>4. Shape(e) /\ e.tx = c.tx /\ e.inj = c.inj /\ e.link = c.link /\ e.dangling = left
  BY <1>2, <1>3 DEF Sound, Shape
<1>5. ASSUME NEW l \in left
      PROVE  l[2] \in TxIds /\ Spends(d, l[2], l[1]) /\ l[1][1] = MainCurrency
  <2>1. CASE l \in d.dangling
    BY <2>1 DEF Sound, Joined
  <2>2. CASE l \in d.link /\ l[1] = slot
    <3>1. l[1] \in DOMAIN d.inj /\ l[2] \in TxIds /\ l = <<l[1], l[2]>>
      BY <2>2 DEF Sound, Joined
    <3> QED
      BY <2>2, <3>1 DEF Sound, Joined
  <2> QED
    BY <2>1, <2>2 DEF left
<1>6. Joined(e)
  BY <1>2, <1>4, <1>5 DEF Sound, Joined, Spends
<1>7. HeldBut(e, {})
  BY <1>2, <1>4 DEF Sound, HeldBut
<1> QED
  BY <1>4, <1>6, <1>7 DEF Sound, e

\* Unlinking t keeps the other links; only the injection of its slot may be
\* left without one.
LEMMA UnlinkedKeeps ==
    ASSUME NEW d, NEW t \in TxIds, Sound(d)
    PROVE  LET e == Unlinked(d, t)
           IN  /\ Shape(e) /\ e.tx = d.tx /\ e.inj = d.inj
               /\ \A a, u : <<a, u>> \in e.link <=> <<a, u>> \in d.link /\ u # t
               /\ Joined(e)
               /\ e.dangling = {l \in d.dangling : l[2] # t}
               /\ Free(e, t)
               /\ HeldBut(e, {Slot(d.tx[t])})
               /\ LinksOf(d, t) = {} => Sound(e)
<1> DEFINE e == Unlinked(d, t)
<1>1. /\ Shape(e) /\ e.tx = d.tx /\ e.inj = d.inj /\ e.link = {l \in d.link : l[2] # t}
      /\ e.dangling = {l \in d.dangling : l[2] # t}
  BY DEF Unlinked, Sound, Shape
<1> HIDE DEF e
<1>2. \A a, u : <<a, u>> \in e.link <=> <<a, u>> \in d.link /\ u # t
  BY <1>1
<1>3. Joined(e)
  <2>1. e.link \subseteq (DOMAIN e.inj) \X TxIds
    BY <1>1 DEF Sound, Joined
  <2> QED
    BY <1>1, <1>2, <2>1 DEF Sound, Joined, Spends
<1>4. Free(e, t)
  BY <1>1, <1>2 DEF Free
<1>5. HeldBut(e, {Slot(d.tx[t])})
  <2>1. ASSUME NEW a \in DOMAIN d.inj, a # Slot(d.tx[t]), a[1] # MainCurrency
        PROVE  \E u \in TxIds : <<a, u>> \in e.link
    <3>1. PICK u \in TxIds : <<a, u>> \in d.link
      BY <2>1 DEF Sound, HeldBut
    <3>2. u # t
      BY <2>1, <3>1, OwnSlot DEF Sound
    <3> QED
      BY <1>2, <3>1, <3>2
  <2> QED
    BY <1>1, <2>1 DEF HeldBut
<1>6. ASSUME LinksOf(d, t) = {}
      PROVE  Sound(e)
  <2>1. HeldBut(e, {})
    BY <1>1, <1>2, <1>6 DEF Sound, HeldBut, LinksOf
  <2> QED
    BY <1>1, <1>3, <2>1 DEF Sound
<1> QED
  BY <1>1, <1>2, <1>3, <1>4, <1>5, <1>6 DEF e

\* Refreshing the one injection that may have no link: it is dropped, or it
\* still has one.
LEMMA RefreshSound ==
    ASSUME NEW d, NEW t \in TxIds, NEW slot \in DOMAIN d.inj, Shape(d), Joined(d),
           Free(d, t), HeldBut(d, {slot})
    PROVE  LET e == RefreshInjection(d, slot, t)
           IN  /\ Sound(e)
               /\ e.tx = d.tx
               /\ Free(e, t)
<1> DEFINE required == RequiredInjection(NoTx(d, t), slot)
           bare == (\A l \in d.link : l[1] # slot) \/ required <= 0
           kept == [d EXCEPT !.inj = With(d.inj, slot, required)]
           e == RefreshInjection(d, slot, t)
<1>1. e = IF bare THEN DropInjection(d, slot) ELSE kept
  BY DEF RefreshInjection
<1>2. \A u : <<u, t>> \notin d.link
  BY DEF Free, Joined
<1>3. CASE bare
  <2>1. e = DropInjection(d, slot)
    BY <1>1, <1>3
  <2> HIDE DEF e
  <2>2. Sound(e) /\ e.tx = d.tx /\ e.link \subseteq d.link /\ e.dangling = d.dangling
    BY <2>1, DropSound
  <2> QED
    BY <2>2, <1>2 DEF e, Free
<1>4. CASE ~bare
  <2>1. PICK l \in d.link : l[1] = slot
    BY <1>4
  <2>2. PICK v \in TxIds : <<slot, v>> \in d.link
    BY <2>1 DEF Joined
  <2> DEFINE table == With(d.inj, slot, required)
  <2>3. DOMAIN table = DOMAIN d.inj
    BY DEF With
  <2>4. e = kept
    BY <1>1, <1>4
  <2> HIDE DEF table, e
  <2>5. /\ Shape(e) /\ e.tx = d.tx /\ e.inj = table
        /\ e.link = d.link /\ e.dangling = d.dangling
    BY <2>4 DEF Shape, table
  <2>6. Joined(e)
    BY <2>3, <2>5 DEF Joined, Spends
  <2>7. HeldBut(e, {})
    BY <2>2, <2>3, <2>5 DEF HeldBut
  <2>8. Free(e, t)
    BY <1>2, <2>5 DEF Free
  <2> QED
    BY <2>5, <2>6, <2>7, <2>8 DEF Sound, e
<1> QED
  BY <1>3, <1>4

\* The detaching part of update, on tables where t has just been rewritten.
LEMMA DetachedSound ==
    ASSUME NEW d, NEW t \in TxIds, NEW row \in TxRows, Sound(d)
    PROVE  LET e == Detached([d EXCEPT !.tx[t] = row], t, d.tx[t])
           IN  Sound(e) /\ e.tx[t] = row /\ Free(e, t)
<1> DEFINE old == d.tx[t]
           c == [d EXCEPT !.tx[t] = row]
           e == Detached(c, t, old)
           slots == LinksOf(c, t)
           chosen == CHOOSE slot \in slots : TRUE
           f == Unlinked(c, t)
           g == Unlinked(d, t)
<1>1. /\ Shape(c) /\ c.tx = [d.tx EXCEPT ![t] = row] /\ c.tx[t] = row
      /\ c.inj = d.inj /\ c.link = d.link /\ c.dangling = d.dangling
  BY DEF Sound, Shape
<1>2. slots = {slot \in DOMAIN d.inj : <<slot, t>> \in d.link} /\ slots = LinksOf(d, t)
  BY <1>1 DEF LinksOf
<1>3. e = IF ~IsSpend(old) THEN c
          ELSE IF slots = {} THEN f
          ELSE RefreshInjection(f, chosen, t)
  BY DEF Detached
\* Unlinking after the row is stored leaves what unlinking before it leaves.
<1>4. /\ g.inj = d.inj /\ g.tx = d.tx /\ g.link = {l \in d.link : l[2] # t}
      /\ g.dangling = {l \in d.dangling : l[2] # t}
      /\ Joined(g) /\ Free(g, t) /\ HeldBut(g, {Slot(old)})
      /\ LinksOf(d, t) = {} => Sound(g)
  <2>1. g.link = {l \in d.link : l[2] # t}
    BY DEF Unlinked, Sound, Shape
  <2> QED
    BY <2>1, UnlinkedKeeps
<1>5. /\ Shape(f) /\ f.tx = c.tx /\ f.inj = g.inj /\ f.link = g.link
      /\ f.dangling = g.dangling
  <2> HIDE DEF c, g
  <2> QED
    BY <1>1, <1>4 DEF Unlinked, Shape
<1> HIDE DEF f, g, c, e, chosen, slots
<1>6. Free(f, t)
  BY <1>4, <1>5 DEF Free
<1>7. Joined(f)
  <2>1. \A u \in TxIds \ {t} : f.tx[u] = g.tx[u]
    BY <1>1, <1>4, <1>5 DEF Sound, Shape
  <2>2. ASSUME NEW a \in DOMAIN f.inj, NEW u \in TxIds, <<a, u>> \in f.link
        PROVE  Spends(f, u, a)
    BY <1>4, <1>5, <1>6, <2>1, <2>2 DEF Joined, Spends, Free
  <2>3. ASSUME NEW l \in f.dangling
        PROVE  l[2] \in TxIds /\ Spends(f, l[2], l[1]) /\ l[1][1] = MainCurrency
    <3>1. l[2] \in TxIds \ {t} /\ Spends(g, l[2], l[1]) /\ l[1][1] = MainCurrency
      BY <1>4, <1>5, <1>6, <2>3 DEF Joined, Free
    <3> QED
      BY <2>1, <3>1 DEF Spends
  <2> QED
    BY <1>4, <1>5, <2>2, <2>3 DEF Joined
<1>8. CASE ~IsSpend(old)
  <2>1. Free(d, t)
    BY <1>8, OthersFree DEF Sound
  <2>2. Sound(c) /\ Free(c, t)
    BY <2>1, RewriteSound DEF c
  <2> QED
    BY <1>1, <1>3, <1>8, <2>2 DEF e, c
<1>9. CASE IsSpend(old) /\ slots = {}
  <2>1. HeldBut(f, {})
    BY <1>2, <1>4, <1>5, <1>9 DEF Sound, HeldBut
  <2> QED
    BY <1>1, <1>3, <1>5, <1>6, <1>7, <1>9, <2>1 DEF Sound, e, c
<1>10. CASE IsSpend(old) /\ slots # {}
  <2>1. chosen \in slots
    BY <1>10 DEF chosen
  <2>2. chosen \in DOMAIN d.inj /\ chosen = Slot(old)
    BY <1>2, <2>1, OwnSlot DEF Sound
  <2>3. HeldBut(f, {chosen}) /\ chosen \in DOMAIN f.inj
    BY <1>4, <1>5, <2>2 DEF HeldBut
  <2>4. e = RefreshInjection(f, chosen, t)
    BY <1>3, <1>10
  <2>5. Sound(e) /\ e.tx = f.tx /\ Free(e, t)
    BY <1>5, <1>6, <1>7, <2>3, <2>4, RefreshSound
  <2> QED
    BY <1>1, <1>5, <2>5 DEF e, c
<1> QED
  BY <1>8, <1>9, <1>10

-----------------------------------------------------------------------------
(* The handlers keep the tables sound.                                     *)

\* Funding leaves at most the injection of the spend's slot without a link.
LEMMA Funding ==
    ASSUME NEW d, Sound(d), NEW seen, NEW row, NEW mode
    PROVE  LET e == EnsureCash(d, seen, row, mode)
           IN  /\ Shape(e) /\ Joined(e)
               /\ e.tx = d.tx
               /\ e.link = d.link /\ e.dangling = d.dangling
               /\ HeldBut(e, {Slot(row)})
<1> DEFINE e == EnsureCash(d, seen, row, mode)
<1>1. /\ Shape(e) /\ e.tx = d.tx /\ e.link = d.link /\ e.dangling = d.dangling
      /\ DOMAIN d.inj \subseteq DOMAIN e.inj
      /\ DOMAIN e.inj \subseteq DOMAIN d.inj \cup {Slot(row)}
  BY EnsureCashKeeps DEF Sound
<1> HIDE DEF e
<1>2. Joined(e)
  BY <1>1 DEF Sound, Joined, Spends
<1>3. HeldBut(e, {Slot(row)})
  BY <1>1 DEF Sound, HeldBut
<1> QED
  BY <1>1, <1>2, <1>3 DEF e

LEMMA CreatedSound ==
    ASSUME NEW d, NEW t \in TxIds, NEW row \in TxRows, NEW mode, Sound(d), d.tx[t] = NoRow
    PROVE  Sound(Created(d, t, row, mode))
<1> DEFINE funded == IF IsSpend(row) THEN EnsureCash(d, d, row, mode) ELSE d
           stored == [funded EXCEPT !.tx[t] = row]
           linked == IF IsSpend(row) THEN LinkInjection(stored, t) ELSE stored
<1>1. Sound(linked)
  <2>1. CASE ~IsSpend(row)
    <3>1. Free(d, t)
      BY OthersFree DEF Sound
    <3>2. linked = [d EXCEPT !.tx[t] = row]
      BY <2>1
    <3> HIDE DEF linked
    <3> QED
      BY <3>1, <3>2, RewriteSound
  <2>2. CASE IsSpend(row)
    <3> DEFINE e == EnsureCash(d, d, row, mode)
               f == [e EXCEPT !.tx[t] = row]
    <3>1. /\ Shape(e) /\ Joined(e) /\ e.tx = d.tx /\ e.link = d.link
          /\ e.dangling = d.dangling /\ HeldBut(e, {Slot(row)})
      BY Funding
    <3>2. linked = LinkInjection(f, t)
      BY <2>2
    <3> HIDE DEF e, linked
    <3>3. Free(e, t)
      BY <3>1, OthersFree
    <3>4. /\ Shape(f) /\ Joined(f)
          /\ f.tx = [e.tx EXCEPT ![t] = row] /\ f.inj = e.inj /\ f.link = e.link
      BY <3>1, <3>3, RewriteKeeps
    <3>5. f.tx[t] = row
      BY <3>1, <3>4 DEF Shape
    <3> HIDE DEF f
    <3>6. Pending(f, t)
      BY <2>2, <3>1, <3>4, <3>5 DEF Pending, HeldBut
    <3> QED
      BY <3>2, <3>6, LinkingSound
  <2> QED
    BY <2>1, <2>2
<1>2. Created(d, t, row, mode) =
        IF row.kind = "manual" THEN linked ELSE Recalculate(linked, row.pocket, row.ts)
  BY DEF Created
<1> HIDE DEF linked
<1> QED
  BY <1>1, <1>2, RecalculateSound

LEMMA ReattachedSound ==
    ASSUME NEW d, NEW t \in TxIds, NEW row \in TxRows, NEW mode, Sound(d), d.tx[t] = row
    PROVE  Sound(Reattached(d, t, row, mode))
<1> DEFINE funded == EnsureCash(d, NoTx(d, t), row, mode)
<1>1. CASE IsSpend(row)
  <2>1. /\ Shape(funded) /\ Joined(funded) /\ funded.tx = d.tx
        /\ HeldBut(funded, {Slot(row)})
    BY <1>1, Funding
  <2>2. Reattached(d, t, row, mode) = LinkInjection(funded, t)
    BY <1>1 DEF Reattached
  <2> HIDE DEF funded
  <2>3. Pending(funded, t)
    BY <1>1, <2>1 DEF Pending
  <2> QED
    BY <2>2, <2>3, LinkingSound
<1>2. CASE ~IsSpend(row)
  BY <1>2 DEF Reattached
<1> QED
  BY <1>1, <1>2

LEMMA RecalculateBothSound ==
    ASSUME NEW d, NEW old, NEW row, Sound(d)
    PROVE  Sound(RecalculateBoth(d, old, row))
<1> DEFINE here == Recalculate(d, row.pocket, row.ts)
<1>1. Sound(here)
  BY RecalculateSound
<1>2. RecalculateBoth(d, old, row) \in {d, here, Recalculate(here, old.pocket, old.ts)}
  BY DEF RecalculateBoth
<1> HIDE DEF here
<1>3. Sound(Recalculate(here, old.pocket, old.ts))
  BY <1>1, RecalculateSound
<1> QED
  BY <1>1, <1>2, <1>3

LEMMA UpdatedSound ==
    ASSUME NEW d, NEW t \in TxIds, NEW row \in TxRows, NEW mode, Sound(d)
    PROVE  Sound(Updated(d, t, row, mode))
<1> DEFINE stored == Detached([d EXCEPT !.tx[t] = row], t, d.tx[t])
<1>1. Sound(stored) /\ stored.tx[t] = row
  BY DetachedSound
<1>2. Updated(d, t, row, mode) = RecalculateBoth(Reattached(stored, t, row, mode), d.tx[t], row)
  BY DEF Updated
<1> HIDE DEF stored
<1> QED
  BY <1>1, <1>2, ReattachedSound, RecalculateBothSound

LEMMA DeletedSound ==
    ASSUME NEW d, NEW t \in TxIds, Sound(d)
    PROVE  Sound(Deleted(d, t))
<1> DEFINE old == d.tx[t]
           bare == Unlinked(d, t)
           gone == NoTx(bare, t)
           orphans == {slot \in LinksOf(d, t) : \A l \in gone.link : l[1] # slot}
           rest == Without(gone.inj, orphans)
           swept == IF IsSpend(old) THEN [gone EXCEPT !.inj = rest] ELSE gone
<1>1. /\ Shape(bare) /\ bare.tx = d.tx /\ bare.inj = d.inj
      /\ \A a, u : <<a, u>> \in bare.link <=> <<a, u>> \in d.link /\ u # t
      /\ Joined(bare) /\ Free(bare, t) /\ HeldBut(bare, {Slot(old)})
      /\ LinksOf(d, t) = {} => Sound(bare)
  BY UnlinkedKeeps
<1> HIDE DEF bare
<1>2. gone = [bare EXCEPT !.tx[t] = NoRow]
  BY DEF NoTx
<1>3. /\ Shape(gone) /\ Joined(gone) /\ gone.inj = d.inj
      /\ gone.link = bare.link /\ gone.dangling = bare.dangling
  BY <1>1, <1>2, RewriteKeeps
<1> HIDE DEF gone
<1>4. Sound(swept)
  <2>1. CASE ~IsSpend(old)
    <3>1. Sound(bare)
      BY <1>1, <2>1, OthersFree DEF Sound, Free, LinksOf
    <3>2. Sound(gone)
      BY <1>1, <1>2, <3>1, RewriteSound
    <3> QED
      BY <2>1, <3>2
  <2>2. CASE IsSpend(old)
    <3>1. DOMAIN rest = DOMAIN gone.inj \ orphans
      BY DEF Without
    <3>2. \A a, u : <<a, u>> \in gone.link => a \notin orphans
      OBVIOUS
    <3>3. ASSUME NEW a \in DOMAIN d.inj, a[1] # MainCurrency, a \notin orphans
          PROVE  \E u \in TxIds : <<a, u>> \in gone.link
      <4>1. CASE <<a, t>> \in d.link
        <5>1. PICK l \in gone.link : l[1] = a
          BY <3>3, <4>1 DEF LinksOf
        <5> QED
          BY <1>3, <5>1 DEF Joined
      <4>2. CASE <<a, t>> \notin d.link
        BY <1>1, <1>3, <3>3, <4>2 DEF Sound, HeldBut
      <4> QED
        BY <4>1, <4>2
    <3>4. swept = [gone EXCEPT !.inj = rest]
      BY <2>2
    <3> HIDE DEF swept, rest, orphans
    <3>5. /\ Shape(swept) /\ swept.tx = gone.tx /\ swept.inj = rest
          /\ swept.link = gone.link /\ swept.dangling = gone.dangling
      BY <1>3, <3>4 DEF Shape
    <3>6. Joined(swept)
      <4>1. swept.link \subseteq (DOMAIN swept.inj) \X TxIds
        BY <1>3, <3>1, <3>2, <3>5 DEF Joined
      <4> QED
        BY <1>3, <3>1, <3>5, <4>1 DEF Joined, Spends
    <3>7. HeldBut(swept, {})
      BY <1>3, <3>1, <3>3, <3>5 DEF HeldBut
    <3> QED
      BY <3>5, <3>6, <3>7 DEF Sound
  <2> QED
    BY <2>1, <2>2
<1>5. Deleted(d, t) =
        IF old.kind = "manual" THEN swept ELSE Recalculate(swept, old.cur, old.ts)
  BY DEF Deleted, gone, bare
<1> HIDE DEF swept
<1> QED
  BY <1>4, <1>5, RecalculateSound

\* A fee may raise or drop the injection of its day in the main pocket.
LEMMA ReconciledSound ==
    ASSUME NEW d, NEW t \in TxIds, Sound(d)
    PROVE  Sound(Reconciled(d, t))
<1> DEFINE row == d.tx[t]
           own == Recalculate(d, row.pocket, row.ts)
           main == Recalculate(own, MainCurrency, row.ts)
           slot == <<MainCurrency, InjectionTs(row.ts)>>
           anchored == SnapsBefore(main, MainCurrency, InjectionTs(row.ts)) # {}
           balance == BalanceAt(main, MainCurrency, row.ts, TRUE)
           raised == [main EXCEPT !.inj = With(main.inj, slot, -balance)]
<1>1. Reconciled(d, t) =
        IF row.kind = "manual" THEN d
        ELSE IF MainCurrency \in {NoCurrency, row.cur} THEN own
        ELSE IF anchored THEN main
        ELSE IF balance >= 0 THEN AbandonInjection(main, slot)
        ELSE raised
  BY DEF Reconciled
<1>2. Sound(own)
  BY RecalculateSound
<1> HIDE DEF own
<1>3. Sound(main)
  BY <1>2, RecalculateSound
<1>0. slot[1] = MainCurrency
  OBVIOUS
<1> HIDE DEF main, slot
<1>4. Sound(AbandonInjection(main, slot))
  BY <1>0, <1>3, AbandonSound
<1>5. Sound(raised)
  <2> DEFINE table == With(main.inj, slot, -balance)
  <2>1. DOMAIN main.inj \subseteq DOMAIN table /\ DOMAIN table \subseteq DOMAIN main.inj \cup {slot}
    BY DEF With
  <2> HIDE DEF table
  <2>2. /\ Shape(raised) /\ raised.tx = main.tx /\ raised.inj = table
        /\ raised.link = main.link /\ raised.dangling = main.dangling
    BY <1>3 DEF Sound, Shape, table
  <2> HIDE DEF raised
  <2>3. Joined(raised)
    <3>1. raised.link \subseteq (DOMAIN raised.inj) \X TxIds
      BY <1>3, <2>1, <2>2 DEF Sound, Joined
    <3>2. ASSUME NEW a \in DOMAIN raised.inj, NEW u \in TxIds, <<a, u>> \in raised.link
          PROVE  Spends(raised, u, a)
      BY <1>3, <2>2, <3>2 DEF Sound, Joined, Spends
    <3>3. \A l \in raised.dangling :
            l[2] \in TxIds /\ Spends(raised, l[2], l[1]) /\ l[1][1] = MainCurrency
      BY <1>3, <2>2 DEF Sound, Joined, Spends
    <3> QED
      BY <3>1, <3>2, <3>3 DEF Joined
  <2>4. HeldBut(raised, {})
    BY <1>0, <1>3, <2>1, <2>2 DEF Sound, HeldBut
  <2> QED
    BY <2>2, <2>3, <2>4 DEF Sound
<1> HIDE DEF anchored, balance, raised
<1> QED
  BY <1>1, <1>2, <1>3, <1>4, <1>5

LEMMA FeeStoredSound ==
    ASSUME NEW d, NEW t \in TxIds, NEW f, Sound(d)
    PROVE  Sound(FeeStored(d, t, f))
<1> DEFINE e == [d EXCEPT !.fee[t] = f]
<1>1. SameSpends(d, e)
  BY DEF Sound, Shape, SameSpends
<1>2. Sound(e)
  BY <1>1, SameSpendsSound
<1> HIDE DEF e
<1>3. Sound(Reconciled(e, t))
  BY <1>2, ReconciledSound
<1> QED
  BY <1>3 DEF FeeStored, e

-----------------------------------------------------------------------------
(* The invariant of the specification.                                     *)

IInv == Sound(DB)

\* What DB says of the variables.
LEMMA Fields ==
    /\ DB.tx = tx /\ DB.snap = snap /\ DB.adj = adj
    /\ DB.inj = inj /\ DB.link = link /\ DB.dangling = dangling /\ DB.fee = fee
BY DEF DB

LEMMA CommitSound ==
    ASSUME NEW d, Sound(d), Commit(d)
    PROVE  IInv'
<1>1. DB' = [tx |-> tx', snap |-> snap', adj |-> adj', inj |-> inj',
             link |-> link', dangling |-> dangling', fee |-> fee']
  BY DEF DB
<1>2. tx' = d.tx /\ inj' = d.inj /\ link' = d.link /\ dangling' = d.dangling
  BY DEF Commit
<1>3. /\ Shape(DB') /\ DB'.tx = d.tx /\ DB'.inj = d.inj
      /\ DB'.link = d.link /\ DB'.dangling = d.dangling
  BY <1>1, <1>2 DEF Sound, Shape
<1>4. SameSpends(d, DB')
  BY <1>3 DEF SameSpends
<1>5. Sound(DB')
  BY <1>4, SameSpendsSound
<1> QED
  BY <1>5 DEF IInv

LEMMA InitSound == Init => IInv
<1> SUFFICES ASSUME Init
             PROVE  Sound(DB)
  BY DEF IInv
<1>1. DB.tx = [t \in TxIds |-> NoRow] /\ DB.inj = <<>> /\ DB.link = {} /\ DB.dangling = {}
  BY Fields DEF Init
<1>2. DOMAIN DB.inj = {}
  BY <1>1
<1>3. Shape(DB)
  BY <1>1 DEF Shape, DB
<1> QED
  BY <1>1, <1>2, <1>3 DEF Sound, Joined, HeldBut

LEMMA TxStep ==
    ASSUME IInv, NEW t \in TxIds, TxNext(t)
    PROVE  IInv'
<1>1. Sound(DB)
  BY DEF IInv
<1>2. ASSUME NEW row \in TxRows, NEW mode \in ModesOf(row), Create(t, row, mode)
      PROVE  IInv'
  <2>1. Sound(Created(DB, t, row, mode))
    BY <1>1, <1>2, Fields, CreatedSound DEF Create, Fresh
  <2> QED
    BY <1>2, <2>1, CommitSound DEF Create
<1>3. ASSUME NEW row \in TxRows, NEW mode \in ModesOf(row), Update(t, row, mode)
      PROVE  IInv'
  BY <1>1, <1>3, UpdatedSound, CommitSound DEF Update
<1>4. ASSUME Delete(t)
      PROVE  IInv'
  BY <1>1, <1>4, DeletedSound, CommitSound DEF Delete
<1> QED
  BY <1>2, <1>3, <1>4 DEF TxNext

LEMMA FeeStep ==
    ASSUME IInv, NEW t \in TxIds, FeeNext(t)
    PROVE  IInv'
<1>1. Sound(DB)
  BY DEF IInv
<1>2. ASSUME NEW row \in TxRows, NEW f, NEW mode, CreateFull(t, row, mode, f)
      PROVE  IInv'
  <2>1. Sound(Created(DB, t, row, mode))
    BY <1>1, <1>2, Fields, CreatedSound DEF CreateFull, Fresh
  <2> QED
    BY <1>2, <2>1, FeeStoredSound, CommitSound DEF CreateFull
<1>3. ASSUME NEW row \in TxRows, NEW f, NEW mode, UpdateFull(t, row, mode, f)
      PROVE  IInv'
  <2> DEFINE d == Updated(DB, t, row, mode)
             bare == [d EXCEPT !.fee[t] = NoRow]
             last == FeeReplaced(bare, t, f)
  <2>1. Sound(d)
    BY <1>1, UpdatedSound
  <2>2. Commit(Reconciled(last, t))
    BY <1>3 DEF UpdateFull
  <2> HIDE DEF d
  <2>3. SameSpends(d, bare)
    BY <2>1 DEF Sound, Shape, SameSpends
  <2> HIDE DEF bare
  <2>4. Sound(bare)
    BY <2>1, <2>3, SameSpendsSound
  <2>5. Sound(last)
    BY <2>4, FeeStoredSound DEF FeeReplaced
  <2> HIDE DEF last
  <2> QED
    BY <2>2, <2>5, ReconciledSound, CommitSound
<1>4. ASSUME NEW f, CreateFee(t, f)
      PROVE  IInv'
  BY <1>1, <1>4, FeeStoredSound, CommitSound DEF CreateFee
<1>5. ASSUME NEW u \in TxIds, NEW f, UpdateFee(t, u, f)
      PROVE  IInv'
  <2> DEFINE e == [DB EXCEPT !.fee[t] = NoRow]
  <2>1. SameSpends(DB, e)
    BY <1>1 DEF Sound, Shape, SameSpends
  <2>2. Sound(e)
    BY <1>1, <2>1, SameSpendsSound
  <2>3. Commit(FeeStored(e, u, f))
    BY <1>5 DEF UpdateFee
  <2> HIDE DEF e
  <2> QED
    BY <2>2, <2>3, FeeStoredSound, CommitSound
<1>6. ASSUME DeleteFee(t)
      PROVE  IInv'
  BY <1>1, <1>6, FeeStoredSound, CommitSound DEF DeleteFee
<1> QED
  BY <1>2, <1>3, <1>4, <1>5, <1>6 DEF FeeNext

LEMMA SnapStep ==
    ASSUME IInv, NEW s \in SnapIds, SnapNext(s)
    PROVE  IInv'
<1>1. Sound(DB)
  BY DEF IInv
<1>2. ASSUME NEW d, SameSpends(DB, d), Commit(d)
      PROVE  IInv'
  BY <1>1, <1>2, SameSpendsSound, CommitSound
<1>3. ASSUME NEW row, CreateSnapshot(s, row)
      PROVE  IInv'
  <2> DEFINE d == [DB EXCEPT !.snap[s] = row]
             e == SetAdjustment(d, row.cur, s, row.ts,
                                Reconciling(d, row.cur, s, row.ts, row.amount))
  <2>1. SameSpends(DB, d)
    BY <1>1 DEF Sound, Shape, SameSpends
  <2>2. Commit(e)
    BY <1>3 DEF CreateSnapshot
  <2> HIDE DEF d
  <2>3. SameSpends(d, e)
    BY <2>1, SetAdjustmentKeeps DEF SameSpends
  <2> HIDE DEF e
  <2>4. SameSpends(DB, e)
    BY <2>1, <2>3 DEF SameSpends
  <2> QED
    BY <1>2, <2>2, <2>4
<1>4. ASSUME NEW row, UpdateSnapshot(s, row)
      PROVE  IInv'
  <2> DEFINE old == snap[s]
             bare == [DB EXCEPT !.adj = Without(adj, {<<s, old.cur>>})]
             rebuilt == SetAdjustment(bare, row.cur, s, row.ts,
                                      Reconciling(bare, row.cur, s, row.ts, row.amount))
             d == IF old.ts # row.ts \/ old.amount # row.amount THEN rebuilt ELSE DB
             e == [d EXCEPT !.snap[s] = row]
  <2>1. SameSpends(DB, bare)
    BY <1>1 DEF Sound, Shape, SameSpends
  <2>2. Commit(e)
    BY <1>4 DEF UpdateSnapshot
  <2> HIDE DEF bare
  <2>3. SameSpends(bare, rebuilt)
    BY <2>1, SetAdjustmentKeeps DEF SameSpends
  <2> HIDE DEF rebuilt
  <2>4. SameSpends(DB, d)
    BY <1>1, <2>1, <2>3 DEF SameSpends, Sound
  <2> HIDE DEF d
  <2>5. SameSpends(DB, e)
    BY <2>4 DEF SameSpends, Shape
  <2> HIDE DEF e
  <2> QED
    BY <1>2, <2>2, <2>5
<1>5. ASSUME DeleteSnapshot(s)
      PROVE  IInv'
  <2> DEFINE table == Without(adj, {<<s, snap[s].cur>>})
             e == [DB EXCEPT !.adj = table, !.snap[s] = NoRow]
  <2>1. Commit(e)
    BY <1>5 DEF DeleteSnapshot
  <2> HIDE DEF table
  <2>2. SameSpends(DB, e)
    BY <1>1 DEF Sound, Shape, SameSpends
  <2> HIDE DEF e
  <2> QED
    BY <1>2, <2>1, <2>2
<1> QED
  BY <1>3, <1>4, <1>5 DEF SnapNext

LEMMA GeneratedStep ==
    ASSUME IInv, GeneratedNext
    PROVE  IInv'
<1>1. Sound(DB)
  BY DEF IInv
<1>2. ASSUME NEW slot, DeleteInjection(slot)
      PROVE  IInv'
  <2>1. HeldBut(DB, {slot})
    BY <1>1 DEF Sound, HeldBut
  <2>2. Sound(DropInjection(DB, slot))
    BY <1>1, <2>1, DropSound DEF Sound
  <2> QED
    BY <1>2, <2>2, CommitSound DEF DeleteInjection
<1>3. ASSUME NEW key, DeleteAdjustment(key)
      PROVE  IInv'
  <2> DEFINE table == Without(adj, {key})
             e == [DB EXCEPT !.adj = table]
  <2>1. Commit(e)
    BY <1>3 DEF DeleteAdjustment
  <2> HIDE DEF table
  <2>2. SameSpends(DB, e)
    BY <1>1 DEF Sound, Shape, SameSpends
  <2> HIDE DEF e
  <2> QED
    BY <1>1, <2>1, <2>2, SameSpendsSound, CommitSound
<1> QED
  BY <1>2, <1>3 DEF GeneratedNext

LEMMA NextSound == IInv /\ [Next]_vars => IInv'
<1> SUFFICES ASSUME IInv, [Next]_vars
             PROVE  IInv'
  OBVIOUS
<1>1. CASE UNCHANGED vars
  BY <1>1 DEF vars, IInv, DB, Sound, Shape, Joined, Spends, HeldBut
<1> QED
  BY <1>1, TxStep, FeeStep, SnapStep, GeneratedStep DEF Next

LEMMA SpecSound == Spec => []IInv
BY InitSound, NextSound, PTL DEF Spec

\* Every link leads to a spend of the slot it was made for, whatever the client
\* does and in any order: create, edit, move, delete, fees and snapshots.  Its
\* injection exists, unless a change of fees deleted it: that happens in the main
\* currency's pocket only.
THEOREM LinksAlwaysFund == Spec => []LinksFund
<1>1. IInv => LinksFund
  <2> SUFFICES ASSUME IInv
               PROVE  LinksFund
    OBVIOUS
  <2>1. Joined(DB)
    BY DEF IInv, Sound
  <2>2. ASSUME NEW l \in link
        PROVE  l[1] \in DOMAIN inj /\ Spends(DB, l[2], l[1])
    <3>1. l[1] \in DOMAIN inj /\ l[2] \in TxIds /\ l = <<l[1], l[2]>>
      BY <2>1, Fields DEF Joined
    <3> QED
      BY <2>1, <3>1, Fields DEF Joined
  <2>3. ASSUME NEW l \in dangling
        PROVE  l[1][1] = MainCurrency /\ Spends(DB, l[2], l[1])
    BY <2>1, Fields DEF Joined
  <2> QED
    BY <2>2, <2>3, Fields DEF LinksFund, Spends
<1> QED
  BY <1>1, SpecSound, PTL

\* Outside the main currency's pocket, and everywhere when the entity has none,
\* there is never inferred cash that no spend explains.  There a fee can leave
\* some: its link is looked for in an empty interval.
THEOREM InjectionsStayAttached == Spec => []InjectionsAttached
<1>1. IInv => InjectionsAttached
  BY Fields DEF IInv, Sound, HeldBut, InjectionsAttached
<1> QED
  BY <1>1, SpecSound, PTL

\* Both halves of the attachment model at once.
THEOREM AttachmentModelHolds == Spec => []AttachmentModel
BY LinksAlwaysFund, InjectionsStayAttached, PTL DEF AttachmentModel

-----------------------------------------------------------------------------
(* Sums.  Induction is by the size of a finite set, with the set of cases  *)
(* that hold in the place of a formula.                                    *)

\* A set of numbers with 0 that is closed under successor has them all.

LEMMA CountUp ==
  ASSUME NEW Q, 0 \in Q, \A n \in Nat : n \in Q => n + 1 \in Q
  PROVE  Nat \subseteq Q
<1> SUFFICES ASSUME Nat \ Q # {}
             PROVE  FALSE
  OBVIOUS
<1>1. PICK m \in Nat \ Q : \A k \in Nat \ Q : <<k, m>> \notin OpToRel(<, Nat)
  BY NatLessThanWellFounded, WFMin, Nat \ Q \subseteq Nat
<1>2. m # 0 /\ m - 1 \in Nat /\ m - 1 < m
  OBVIOUS
<1>3. m - 1 \notin Q
  BY <1>2
<1>4. <<m - 1, m>> \in OpToRel(<, Nat)
  BY <1>2 DEF OpToRel
<1> QED
  BY <1>1, <1>2, <1>3, <1>4

\* A set of n + 1 elements has one, and n without it.
LEMMA OneLess ==
  ASSUME NEW S, IsFiniteSet(S), NEW n \in Nat, Cardinality(S) = n + 1
  PROVE  S # {} /\ \A x \in S : IsFiniteSet(S \ {x}) /\ Cardinality(S \ {x}) = n
<1>1. S # {}
  <2>1. Cardinality(S) # 0
    OBVIOUS
  <2> QED
    BY <2>1, FS_EmptySet
<1>2. ASSUME NEW x \in S
      PROVE  IsFiniteSet(S \ {x}) /\ Cardinality(S \ {x}) = n
  <2>1. IsFiniteSet(S \ {x}) /\ Cardinality(S \ {x}) = Cardinality(S) - 1
    BY FS_RemoveElement
  <2> QED
    BY <2>1
<1> QED
  BY <1>1, <1>2

LEMMA GrowSet ==
  ASSUME NEW S, IsFiniteSet(S), NEW Q, {} \in Q,
         \A T \in SUBSET S : \A x \in S \ T : T \in Q => T \cup {x} \in Q
  PROVE  S \in Q
<1> DEFINE P == {n \in Nat : \A T \in SUBSET S : Cardinality(T) = n => T \in Q}
<1>1. 0 \in P
  BY FS_Subset, FS_EmptySet
<1>2. ASSUME NEW n \in Nat, n \in P
      PROVE  n + 1 \in P
  <2> SUFFICES ASSUME NEW T \in SUBSET S, Cardinality(T) = n + 1
               PROVE  T \in Q
    OBVIOUS
  <2>1. IsFiniteSet(T)
    BY FS_Subset
  <2>2. T # {} /\ \A x \in T : Cardinality(T \ {x}) = n
    BY <2>1, OneLess
  <2>3. PICK x \in T : TRUE
    BY <2>2
  <2>4. T \ {x} \in SUBSET S /\ Cardinality(T \ {x}) = n /\ x \in S \ (T \ {x})
    BY <2>2
  <2>5. T \ {x} \in Q
    BY <1>2, <2>4
  <2>6. (T \ {x}) \cup {x} = T
    BY <2>3
  <2>7. (T \ {x}) \cup {x} \in Q
    BY <2>4, <2>5
  <2> QED
    BY <2>6, <2>7
<1> HIDE DEF P
<1>3. Nat \subseteq P
  BY <1>1, <1>2, CountUp
<1>4. Cardinality(S) \in P
  BY <1>3, FS_CardinalityType
<1> QED
  BY <1>4 DEF P

-----------------------------------------------------------------------------
(* Sums over finite sets.                                                  *)

Some(s) == CHOOSE x \in s : TRUE

Adds(g, f, S) == g = [s \in SUBSET S |-> IF s = {} THEN 0 ELSE f[Some(s)] + g[s \ {Some(s)}]]

LEMMA SumIsIteration ==
  ASSUME NEW f, NEW S
  PROVE  SumFunctionOnSet(f, S) = (CHOOSE g : Adds(g, f, S))[S]
BY DEF SumFunctionOnSet, FoldFunctionOnSet, MapThenFoldSet, Adds, Some

\* The iteration exists: up to each size of the subsets.
LEMMA IterationExists ==
  ASSUME NEW f, NEW S, IsFiniteSet(S)
  PROVE  \E g : Adds(g, f, S)
<1> DEFINE Upto(n) == {s \in SUBSET S : Cardinality(s) <= n}
           Built(n) == \E g : g = [s \in Upto(n) |->
                         IF s = {} THEN 0 ELSE f[Some(s)] + g[s \ {Some(s)}]]
           P == {n \in Nat : Built(n)}
<1>0. \A s \in SUBSET S : /\ IsFiniteSet(s) /\ Cardinality(s) \in Nat
                          /\ Cardinality(s) <= Cardinality(S)
  BY FS_Subset, FS_CardinalityType
<1>1. 0 \in P
  <2> DEFINE g == [s \in Upto(0) |-> 0]
  <2>1. \A s \in Upto(0) : s = {}
    BY <1>0, FS_EmptySet
  <2>2. g = [s \in Upto(0) |-> IF s = {} THEN 0 ELSE f[Some(s)] + g[s \ {Some(s)}]]
    BY <2>1
  <2> QED
    BY <2>2
<1>2. ASSUME NEW n \in Nat, n \in P
      PROVE  n + 1 \in P
  <2>1. PICK g : g = [s \in Upto(n) |-> IF s = {} THEN 0 ELSE f[Some(s)] + g[s \ {Some(s)}]]
    BY <1>2
  <2> DEFINE h == [s \in Upto(n + 1) |-> IF s = {} THEN 0 ELSE f[Some(s)] + g[s \ {Some(s)}]]
  <2>2. ASSUME NEW s \in Upto(n + 1), s # {}
        PROVE  s \ {Some(s)} \in Upto(n)
    <3>1. Some(s) \in s
      BY <2>2 DEF Some
    <3> QED
      BY <1>0, <3>1, FS_RemoveElement
  <2>3. ASSUME NEW s \in Upto(n)
        PROVE  s \in Upto(n + 1) /\ h[s] = g[s]
    <3>1. s \in Upto(n + 1)
      BY <1>0
    <3>2. g[s] = IF s = {} THEN 0 ELSE f[Some(s)] + g[s \ {Some(s)}]
      BY <2>1
    <3> QED
      BY <3>1, <3>2
  <2> HIDE DEF Upto
  <2>4. h = [s \in Upto(n + 1) |-> IF s = {} THEN 0 ELSE f[Some(s)] + h[s \ {Some(s)}]]
    BY <2>2, <2>3
  <2>5. Built(n + 1)
    BY <2>4
  <2> HIDE DEF Built
  <2> QED
    BY <2>5
<1> HIDE DEF P, Upto
<1>3. Nat \subseteq P
  BY <1>1, <1>2, CountUp
<1>4. Cardinality(S) \in P
  BY <1>0, <1>3
<1>5. Upto(Cardinality(S)) = SUBSET S
  BY <1>0 DEF Upto
<1> QED
  BY <1>4, <1>5 DEF P, Adds

LEMMA IterationUnique ==
  ASSUME NEW f, NEW S, NEW T, NEW g, NEW h, Adds(g, f, S), Adds(h, f, T),
         NEW R, IsFiniteSet(R), R \subseteq S, R \subseteq T
  PROVE  g[R] = h[R]
<1> DEFINE P == {n \in Nat : \A s \in SUBSET R : Cardinality(s) = n => g[s] = h[s]}
<1>0. ASSUME NEW s \in SUBSET R
      PROVE  /\ IsFiniteSet(s)
             /\ g[s] = IF s = {} THEN 0 ELSE f[Some(s)] + g[s \ {Some(s)}]
             /\ h[s] = IF s = {} THEN 0 ELSE f[Some(s)] + h[s \ {Some(s)}]
  <2>1. s \in SUBSET S /\ s \in SUBSET T
    OBVIOUS
  <2>2. g = [r \in SUBSET S |-> IF r = {} THEN 0 ELSE f[Some(r)] + g[r \ {Some(r)}]]
    BY DEF Adds
  <2>3. h = [r \in SUBSET T |-> IF r = {} THEN 0 ELSE f[Some(r)] + h[r \ {Some(r)}]]
    BY DEF Adds
  <2>4. g[s] = IF s = {} THEN 0 ELSE f[Some(s)] + g[s \ {Some(s)}]
    BY <2>1, <2>2
  <2>5. h[s] = IF s = {} THEN 0 ELSE f[Some(s)] + h[s \ {Some(s)}]
    BY <2>1, <2>3
  <2> QED
    BY <2>4, <2>5, FS_Subset
<1>1. 0 \in P
  <2>1. ASSUME NEW s \in SUBSET R, Cardinality(s) = 0
        PROVE  g[s] = h[s]
    <3>1. s = {}
      BY <1>0, <2>1, FS_EmptySet
    <3> QED
      BY <1>0, <3>1
  <2> QED
    BY <2>1
<1>2. ASSUME NEW n \in Nat, n \in P
      PROVE  n + 1 \in P
  <2>1. ASSUME NEW s \in SUBSET R, Cardinality(s) = n + 1
        PROVE  g[s] = h[s]
    <3>1. s # {} /\ \A x \in s : Cardinality(s \ {x}) = n
      BY <1>0, <2>1, OneLess
    <3>2. Some(s) \in s
      BY <3>1 DEF Some
    <3>3. s \ {Some(s)} \in SUBSET R /\ Cardinality(s \ {Some(s)}) = n
      BY <3>1, <3>2
    <3>4. g[s \ {Some(s)}] = h[s \ {Some(s)}]
      BY <1>2, <3>3
    <3> QED
      BY <1>0, <3>1, <3>4
  <2> QED
    BY <2>1
<1> HIDE DEF P
<1>3. Nat \subseteq P
  BY <1>1, <1>2, CountUp
<1>4. Cardinality(R) \in P
  BY <1>3, FS_CardinalityType
<1> QED
  BY <1>4 DEF P

LEMMA SumStep ==
  ASSUME NEW f, NEW S, IsFiniteSet(S)
  PROVE  SumFunctionOnSet(f, S) =
           IF S = {} THEN 0 ELSE f[Some(S)] + SumFunctionOnSet(f, S \ {Some(S)})
<1> DEFINE rest == S \ {Some(S)}
           g == CHOOSE i : Adds(i, f, S)
           h == CHOOSE i : Adds(i, f, rest)
<1>1. IsFiniteSet(rest)
  BY FS_RemoveElement
<1>2. Adds(g, f, S) /\ Adds(h, f, rest)
  BY <1>1, IterationExists
<1>3. SumFunctionOnSet(f, S) = g[S] /\ SumFunctionOnSet(f, rest) = h[rest]
  BY SumIsIteration
<1> HIDE DEF g, h
<1>4. g[rest] = h[rest]
  BY <1>1, <1>2, IterationUnique
<1>5. g[S] = IF S = {} THEN 0 ELSE f[Some(S)] + g[rest]
  BY <1>2 DEF Adds
<1> QED
  BY <1>3, <1>4, <1>5

LEMMA SumOfNone ==
  ASSUME NEW f
  PROVE  SumFunctionOnSet(f, {}) = 0
BY FS_EmptySet, SumStep

LEMMA SumIsInt ==
  ASSUME NEW f, NEW S, IsFiniteSet(S), \A x \in S : f[x] \in Int
  PROVE  SumFunctionOnSet(f, S) \in Int
<1> DEFINE P == {n \in Nat : \A s \in SUBSET S :
                               Cardinality(s) = n => SumFunctionOnSet(f, s) \in Int}
<1>1. 0 \in P
  <2>1. ASSUME NEW s \in SUBSET S, Cardinality(s) = 0
        PROVE  SumFunctionOnSet(f, s) \in Int
    <3>1. s = {}
      BY <2>1, FS_Subset, FS_EmptySet
    <3> QED
      BY <3>1, SumOfNone
  <2> QED
    BY <2>1
<1>2. ASSUME NEW n \in Nat, n \in P
      PROVE  n + 1 \in P
  <2>1. ASSUME NEW s \in SUBSET S, Cardinality(s) = n + 1
        PROVE  SumFunctionOnSet(f, s) \in Int
    <3>0. IsFiniteSet(s)
      BY FS_Subset
    <3>1. IsFiniteSet(s) /\ s # {} /\ \A x \in s : Cardinality(s \ {x}) = n
      BY <2>1, <3>0, OneLess
    <3>2. Some(s) \in s
      BY <3>1 DEF Some
    <3>3. s \ {Some(s)} \in SUBSET S /\ Cardinality(s \ {Some(s)}) = n
      BY <3>1, <3>2
    <3>4. SumFunctionOnSet(f, s \ {Some(s)}) \in Int
      BY <1>2, <3>3
    <3>5. f[Some(s)] \in Int
      BY <3>2
    <3>6. SumFunctionOnSet(f, s) = f[Some(s)] + SumFunctionOnSet(f, s \ {Some(s)})
      BY <3>1, SumStep
    <3> QED
      BY <3>4, <3>5, <3>6
  <2> QED
    BY <2>1
<1> HIDE DEF P
<1>3. Nat \subseteq P
  BY <1>1, <1>2, CountUp
<1>4. Cardinality(S) \in P
  BY <1>3, FS_CardinalityType
<1> QED
  BY <1>4 DEF P

\* Any element may be taken out of a sum.
LEMMA SumTakes ==
  ASSUME NEW f, NEW S, IsFiniteSet(S), \A x \in S : f[x] \in Int, NEW x \in S
  PROVE  SumFunctionOnSet(f, S) = f[x] + SumFunctionOnSet(f, S \ {x})
<1> DEFINE P == {n \in Nat : \A s \in SUBSET S : \A y \in s : Cardinality(s) = n =>
                   SumFunctionOnSet(f, s) = f[y] + SumFunctionOnSet(f, s \ {y})}
<1>0. ASSUME NEW s \in SUBSET S
      PROVE  IsFiniteSet(s) /\ SumFunctionOnSet(f, s) \in Int
  BY FS_Subset, SumIsInt
<1>1. 0 \in P
  BY <1>0, FS_EmptySet
<1>2. ASSUME NEW n \in Nat, n \in P
      PROVE  n + 1 \in P
  <2>1. ASSUME NEW s \in SUBSET S, NEW y \in s, Cardinality(s) = n + 1
        PROVE  SumFunctionOnSet(f, s) = f[y] + SumFunctionOnSet(f, s \ {y})
    <3> DEFINE c == Some(s)
               both == s \ {c, y}
    <3>1. c \in s
      BY DEF Some
    <3>2. SumFunctionOnSet(f, s) = f[c] + SumFunctionOnSet(f, s \ {c})
      BY <1>0, SumStep
    <3> HIDE DEF c
    <3>3. CASE c = y
      BY <3>2, <3>3
    <3>4. CASE c # y
      <4>0. Cardinality(s \ {c}) = n /\ Cardinality(s \ {y}) = n
        BY <1>0, <2>1, <3>1, OneLess
      <4>1. /\ s \ {c} \in SUBSET S /\ s \ {y} \in SUBSET S /\ both \in SUBSET S
            /\ Cardinality(s \ {c}) = n /\ Cardinality(s \ {y}) = n
            /\ y \in s \ {c} /\ c \in s \ {y}
            /\ (s \ {c}) \ {y} = both /\ (s \ {y}) \ {c} = both
        BY <3>1, <3>4, <4>0
      <4> HIDE DEF both
      <4>2. SumFunctionOnSet(f, s \ {c}) = f[y] + SumFunctionOnSet(f, both)
        BY <1>2, <4>1
      <4>3. SumFunctionOnSet(f, s \ {y}) = f[c] + SumFunctionOnSet(f, both)
        BY <1>2, <4>1
      <4>4. f[c] \in Int /\ f[y] \in Int /\ SumFunctionOnSet(f, both) \in Int
        BY <1>0, <3>1, <4>1
      <4> QED
        BY <3>2, <4>2, <4>3, <4>4
    <3> QED
      BY <3>3, <3>4
  <2> QED
    BY <2>1
<1> HIDE DEF P
<1>3. Nat \subseteq P
  BY <1>1, <1>2, CountUp
<1>4. Cardinality(S) \in P
  BY <1>3, FS_CardinalityType
<1> QED
  BY <1>4 DEF P

\* A sum depends on the values in the set only.
LEMMA SumOfSame ==
  ASSUME NEW f, NEW h, NEW S, IsFiniteSet(S), \A x \in S : f[x] \in Int /\ h[x] = f[x]
  PROVE  SumFunctionOnSet(h, S) = SumFunctionOnSet(f, S)
<1> DEFINE Q == {T \in SUBSET S : SumFunctionOnSet(h, T) = SumFunctionOnSet(f, T)}
<1>1. {} \in Q
  BY SumOfNone
<1>2. ASSUME NEW T \in SUBSET S, NEW x \in S \ T, T \in Q
      PROVE  T \cup {x} \in Q
  <2>1. IsFiniteSet(T \cup {x}) /\ (T \cup {x}) \ {x} = T
    BY FS_Subset
  <2>2. SumFunctionOnSet(f, T \cup {x}) = f[x] + SumFunctionOnSet(f, (T \cup {x}) \ {x})
    BY <2>1, SumTakes
  <2>3. SumFunctionOnSet(h, T \cup {x}) = h[x] + SumFunctionOnSet(h, (T \cup {x}) \ {x})
    BY <2>1, SumTakes
  <2> QED
    BY <1>2, <2>1, <2>2, <2>3
<1> HIDE DEF Q
<1>3. S \in Q
  BY <1>1, <1>2, GrowSet
<1> QED
  BY <1>3 DEF Q

-----------------------------------------------------------------------------
(* Types: every balance is a number.                                       *)

AdjTyped(a) ==
    /\ IsFiniteSet(DOMAIN a)
    /\ DOMAIN a \subseteq SnapIds \X Pockets
    /\ \A k \in DOMAIN a : a[k] \in [ts : Int, amount : Int]

InjTyped(i) ==
    /\ IsFiniteSet(DOMAIN i)
    /\ DOMAIN i \subseteq Slots
    /\ \A k \in DOMAIN i : i[k] \in Nat \ {0}

\* The tables a balance is measured on.
Measured(d) ==
    /\ Shape(d)
    /\ d.snap \in [SnapIds -> SnapRows \cup {NoRow}]
    /\ d.fee \in [TxIds -> FeeRows \cup {NoRow}]
    /\ AdjTyped(d.adj)
    /\ InjTyped(d.inj)

\* No edit moves a snapshot to another pocket.
PocketsFixed == "resnapshot" \notin Ops \/ \A p, q \in Pockets : p = q

\* An adjustment belongs to a snapshot, is in the pocket that snapshot is
\* about, and stands on the day before it.
Anchored(a, rows) ==
    \A k \in DOMAIN a : /\ rows[k[1]] # NoRow
                        /\ rows[k[1]].cur = k[2]
                        /\ a[k].ts = AdjustmentTs(rows[k[1]].ts)

Typed(d) ==
    /\ Measured(d)
    /\ d.link \subseteq Slots \X TxIds /\ d.dangling \subseteq Slots \X TxIds
    /\ PocketsFixed => Anchored(d.adj, d.snap)

\* A finite set has an element of the greatest value.
LEMMA GreatestExists ==
    ASSUME NEW v, NEW S, IsFiniteSet(S), S # {}, \A x \in S : v[x] \in Int
    PROVE  \E m \in S : \A x \in S : v[x] <= v[m]
<1> DEFINE Q == {T \in SUBSET S : T # {} => \E m \in T : \A x \in T : v[x] <= v[m]}
<1>1. {} \in Q
  OBVIOUS
<1>2. ASSUME NEW T \in SUBSET S, NEW y \in S \ T, T \in Q
      PROVE  T \cup {y} \in Q
  <2>1. CASE T = {}
    <3>1. T \cup {y} = {y} /\ v[y] <= v[y]
      BY <2>1
    <3> QED
      BY <3>1
  <2>2. CASE T # {}
    <3>1. PICK m \in T : \A x \in T : v[x] <= v[m]
      BY <1>2, <2>2
    <3>2. CASE v[y] <= v[m]
      <4>1. \A x \in T \cup {y} : v[x] <= v[m]
        BY <3>1, <3>2
      <4> QED
        BY <4>1
    <3>3. CASE v[m] <= v[y]
      <4>1. \A x \in T \cup {y} : v[x] <= v[y]
        BY <3>1, <3>3
      <4> QED
        BY <4>1
    <3> QED
      BY <3>2, <3>3
  <2> QED
    BY <2>1, <2>2
<1> HIDE DEF Q
<1>3. S \in Q
  BY <1>1, <1>2, GrowSet
<1> QED
  BY <1>3 DEF Q

LEMMA MaxOfValues ==
    ASSUME NEW v, NEW S, IsFiniteSet(S), \A x \in S : v[x] \in Int
    PROVE  Max({0} \cup {v[x] : x \in S}) \in Int
<1> DEFINE V == {0} \cup {v[x] : x \in S}
<1>1. V \subseteq Int
  OBVIOUS
<1>2. \E m \in V : \A y \in V : m >= y
  <2>1. CASE S = {}
    <3>1. \A y \in V : 0 >= y
      BY <2>1
    <3> QED
      BY <3>1
  <2>2. CASE S # {}
    <3>1. PICK m \in S : \A x \in S : v[x] <= v[m]
      BY <2>2, GreatestExists
    <3>2. CASE v[m] >= 0
      <4>1. \A y \in V : v[m] >= y
        BY <3>1, <3>2
      <4> QED
        BY <4>1
    <3>3. CASE 0 >= v[m]
      <4>1. \A y \in V : 0 >= y
        BY <3>1, <3>3
      <4> QED
        BY <4>1
    <3> QED
      BY <3>2, <3>3
  <2> QED
    BY <2>1, <2>2
<1> HIDE DEF V
<1>3. Max(V) \in V
  BY <1>2 DEF Max
<1> QED
  BY <1>1, <1>3 DEF V

LEMMA LiveRows ==
    ASSUME NEW d, Shape(d), NEW t \in Live(d)
    PROVE  /\ t \in TxIds /\ d.tx[t] \in TxRows
           /\ d.tx[t].ts \in Int /\ d.tx[t].cash \in Nat \ {0}
           /\ d.tx[t].pocket \in Pockets /\ Signed(d.tx[t]) \in Int
<1>1. t \in TxIds /\ d.tx[t] \in TxRows
  BY DEF Live, Shape
<1>2. d.tx[t].ts \in Int /\ d.tx[t].cash \in Nat \ {0} /\ d.tx[t].pocket \in Pockets
  BY <1>1, LedgerAssumption DEF TxRows
<1> QED
  BY <1>1, <1>2 DEF Signed

LEMMA LiveIsFinite ==
    ASSUME NEW d
    PROVE  IsFiniteSet(Live(d)) /\ \A S : S \subseteq Live(d) => IsFiniteSet(S)
<1>1. IsFiniteSet(TxIds) /\ Live(d) \subseteq TxIds
  BY LedgerAssumption DEF Live
<1> QED
  BY <1>1, FS_Subset

Moved(d) == [t \in Live(d) |-> Signed(d.tx[t])]
Adjusted(d) == [k \in DOMAIN d.adj |-> d.adj[k].amount]
MovedBefore(d, p, ts) == {t \in Live(d) : d.tx[t].pocket = p /\ d.tx[t].ts < ts}
AdjustedBefore(d, p, ts) == {k \in DOMAIN d.adj : k[2] = p /\ d.adj[k].ts < ts}
InjectedBefore(d, p, ts) == {k \in DOMAIN d.inj : k[1] = p /\ k[2] < ts}
Charged(d, p) == [t \in {u \in Live(d) : d.fee[u] # NoRow} |-> Charge(d.fee[t], p)]
ChargedBy(d, ts) == {t \in {u \in Live(d) : d.fee[u] # NoRow} : d.tx[t].ts <= ts}

LEMMA FlowParts ==
    ASSUME NEW d, NEW p, NEW ts
    PROVE  FlowBefore(d, p, ts) = SumFunctionOnSet(Moved(d), MovedBefore(d, p, ts))
                                  + SumFunctionOnSet(Adjusted(d), AdjustedBefore(d, p, ts))
                                  + SumFunctionOnSet(d.inj, InjectedBefore(d, p, ts))
BY DEF FlowBefore, Moved, Adjusted, MovedBefore, AdjustedBefore, InjectedBefore

LEMMA FlowPartsAreInt ==
    ASSUME NEW d, Measured(d), NEW p, NEW ts
    PROVE  /\ SumFunctionOnSet(Moved(d), MovedBefore(d, p, ts)) \in Int
           /\ SumFunctionOnSet(Adjusted(d), AdjustedBefore(d, p, ts)) \in Int
           /\ SumFunctionOnSet(d.inj, InjectedBefore(d, p, ts)) \in Int
           /\ IsFiniteSet(MovedBefore(d, p, ts)) /\ IsFiniteSet(AdjustedBefore(d, p, ts))
           /\ IsFiniteSet(InjectedBefore(d, p, ts))
           /\ FlowBefore(d, p, ts) \in Int
<1>1. Shape(d) /\ AdjTyped(d.adj) /\ InjTyped(d.inj)
  BY DEF Measured
<1>2. /\ IsFiniteSet(MovedBefore(d, p, ts))
      /\ \A t \in MovedBefore(d, p, ts) : Moved(d)[t] \in Int
  BY <1>1, LiveRows, LiveIsFinite DEF MovedBefore, Moved
<1>3. /\ IsFiniteSet(AdjustedBefore(d, p, ts))
      /\ \A k \in AdjustedBefore(d, p, ts) : Adjusted(d)[k] \in Int
  BY <1>1, FS_Subset DEF AdjustedBefore, Adjusted, AdjTyped
<1>4. /\ IsFiniteSet(InjectedBefore(d, p, ts))
      /\ \A k \in InjectedBefore(d, p, ts) : d.inj[k] \in Int
  BY <1>1, FS_Subset DEF InjectedBefore, InjTyped
<1>5. /\ SumFunctionOnSet(Moved(d), MovedBefore(d, p, ts)) \in Int
      /\ SumFunctionOnSet(Adjusted(d), AdjustedBefore(d, p, ts)) \in Int
      /\ SumFunctionOnSet(d.inj, InjectedBefore(d, p, ts)) \in Int
  BY <1>2, <1>3, <1>4, SumIsInt
<1> QED
  BY <1>2, <1>3, <1>4, <1>5, FlowParts

LEMMA ChargeIsInt ==
    ASSUME NEW row \in FeeRows, NEW p
    PROVE  Charge(row, p) \in Int
<1>1. row.cur \in Pockets /\ row.amount \in Amounts
  BY DEF FeeRows
<1>2. row.amount \in Int
  <2>1. Amounts \subseteq Int
    BY LedgerAssumption
  <2> QED
    BY <1>1, <2>1
<1>3. Rate[row.cur] \in Int
  BY <1>1, LedgerAssumption
<1> QED
  BY <1>2, <1>3 DEF Charge

LEMMA FeeOutIsInt ==
    ASSUME NEW d, Measured(d), NEW p, NEW ts
    PROVE  /\ FeeOut(d, p, ts) \in Int
           /\ FeeOut(d, p, ts) = IF MainCurrency \notin {NoCurrency, p} THEN 0
                                 ELSE SumFunctionOnSet(Charged(d, p), ChargedBy(d, ts))
           /\ IsFiniteSet(ChargedBy(d, ts))
           /\ \A t \in ChargedBy(d, ts) : Charged(d, p)[t] \in Int
<1>1. FeeOut(d, p, ts) = IF MainCurrency \notin {NoCurrency, p} THEN 0
                         ELSE SumFunctionOnSet(Charged(d, p), ChargedBy(d, ts))
  BY DEF FeeOut, Charged, ChargedBy
<1>2. IsFiniteSet(ChargedBy(d, ts))
  BY LiveIsFinite DEF ChargedBy
<1>3. \A t \in ChargedBy(d, ts) : Charged(d, p)[t] \in Int
  <2>1. \A t \in Live(d) : d.fee[t] # NoRow => d.fee[t] \in FeeRows
    BY DEF Measured, Live
  <2> QED
    BY <2>1, ChargeIsInt DEF ChargedBy, Charged
<1>4. SumFunctionOnSet(Charged(d, p), ChargedBy(d, ts)) \in Int
  BY <1>2, <1>3, SumIsInt
<1> QED
  BY <1>1, <1>2, <1>3, <1>4

\* A pocket's snapshots are finitely many, with a first and a last one.
LEMMA SnapshotRows ==
    ASSUME NEW d, Measured(d), NEW p
    PROVE  /\ Snapshots(d, p) \subseteq SnapIds
           /\ \A s \in Snapshots(d, p) : d.snap[s] \in SnapRows /\ d.snap[s].cur = p
                                         /\ d.snap[s].ts \in SnapInstants
                                         /\ d.snap[s].ts \in Int /\ d.snap[s].amount \in Int
<1>1. \A s \in Snapshots(d, p) : d.snap[s] \in SnapRows
  BY DEF Snapshots, Measured
<1> QED
  BY <1>1, LedgerAssumption DEF Snapshots, SnapRows

LEMMA LatestExists ==
    ASSUME NEW d, Measured(d), NEW p, NEW S, S \subseteq Snapshots(d, p), S # {}
    PROVE  /\ Latest(d, S) \in S /\ \A r \in S : d.snap[r].ts <= d.snap[Latest(d, S)].ts
           /\ Earliest(d, S) \in S /\ \A r \in S : d.snap[Earliest(d, S)].ts <= d.snap[r].ts
<1>1. IsFiniteSet(S) /\ \A r \in S : d.snap[r].ts \in Int
  BY LedgerAssumption, SnapshotRows, FS_Subset
<1> DEFINE up == [r \in S |-> d.snap[r].ts]
           down == [r \in S |-> -d.snap[r].ts]
<1>2. \E s \in S : \A r \in S : d.snap[r].ts <= d.snap[s].ts
  <2>1. \A r \in S : up[r] \in Int
    BY <1>1
  <2>2. PICK s \in S : \A r \in S : up[r] <= up[s]
    BY <1>1, <2>1, GreatestExists
  <2> QED
    BY <2>2
<1>3. \E s \in S : \A r \in S : d.snap[s].ts <= d.snap[r].ts
  <2>1. \A r \in S : down[r] \in Int
    BY <1>1
  <2>2. PICK s \in S : \A r \in S : down[r] <= down[s]
    BY <1>1, <2>1, GreatestExists
  <2>3. \A r \in S : d.snap[s].ts <= d.snap[r].ts
    BY <1>1, <2>2
  <2> QED
    BY <2>3
<1> QED
  BY <1>2, <1>3 DEF Latest, Earliest

LEMMA BalanceIsInt ==
    ASSUME NEW d, Measured(d), NEW p, NEW ts, NEW inclusive
    PROVE  BalanceAt(d, p, ts, inclusive) \in Int
<1> DEFINE S == SnapsBefore(d, p, ts)
           s == d.snap[Latest(d, S)]
<1>1. \A u : FlowBefore(d, p, u) \in Int /\ FeeOut(d, p, u) \in Int
  BY FlowPartsAreInt, FeeOutIsInt
<1>2. CASE S = {}
  <2>1. BalanceAt(d, p, ts, inclusive)
          = FlowBefore(d, p, IF inclusive THEN ts + 1 ELSE ts) - FeeOut(d, p, ts)
    BY <1>2 DEF BalanceAt
  <2> QED
    BY <1>1, <2>1
<1>3. CASE S # {}
  <2>1. s.amount \in Int
    BY <1>3, LatestExists, SnapshotRows DEF SnapsBefore
  <2>2. BalanceAt(d, p, ts, inclusive)
          = s.amount + FlowBefore(d, p, ts) - FlowBefore(d, p, s.ts)
             - (FeeOut(d, p, ts) - FeeOut(d, p, s.ts))
    BY <1>3 DEF BalanceAt
  <2> HIDE DEF s
  <2> QED
    BY <1>1, <2>1, <2>2
<1> QED
  BY <1>2, <1>3
-----------------------------------------------------------------------------
(* Every statement keeps the types of the tables.                          *)

LEMMA WithAdjTyped ==
    ASSUME NEW a, AdjTyped(a), NEW s \in SnapIds, NEW p \in Pockets,
           NEW at \in Int, NEW amount \in Int
    PROVE  AdjTyped(With(a, <<s, p>>, [ts |-> at, amount |-> amount]))
<1> DEFINE key == <<s, p>>
           value == [ts |-> at, amount |-> amount]
           e == With(a, key, value)
<1>1. DOMAIN e = DOMAIN a \cup {key} /\ \A k \in DOMAIN e : e[k] = IF k = key THEN value ELSE a[k]
  BY DEF With
<1>2. value \in [ts : Int, amount : Int] /\ key \in SnapIds \X Pockets
  OBVIOUS
<1> HIDE DEF e, value, key
<1>3. IsFiniteSet(DOMAIN e)
  BY <1>1, FS_AddElement DEF AdjTyped
<1>4. DOMAIN e \subseteq SnapIds \X Pockets
  BY <1>1, <1>2 DEF AdjTyped
<1>5. \A k \in DOMAIN e : e[k] \in [ts : Int, amount : Int]
  BY <1>1, <1>2 DEF AdjTyped
<1>6. AdjTyped(e)
  BY <1>3, <1>4, <1>5 DEF AdjTyped
<1> QED
  BY <1>6 DEF e, value, key

LEMMA WithInjTyped ==
    ASSUME NEW i, InjTyped(i), NEW slot \in Slots, NEW amount \in Int, amount > 0
    PROVE  InjTyped(With(i, slot, amount))
<1> DEFINE e == With(i, slot, amount)
<1>1. DOMAIN e = DOMAIN i \cup {slot} /\ \A k \in DOMAIN e : e[k] = IF k = slot THEN amount ELSE i[k]
  BY DEF With
<1>2. amount \in Nat \ {0}
  OBVIOUS
<1> HIDE DEF e
<1>3. IsFiniteSet(DOMAIN e)
  BY <1>1, FS_AddElement DEF InjTyped
<1>4. DOMAIN e \subseteq Slots
  BY <1>1 DEF InjTyped
<1>5. \A k \in DOMAIN e : e[k] \in Nat \ {0}
  BY <1>1, <1>2 DEF InjTyped
<1>6. InjTyped(e)
  BY <1>3, <1>4, <1>5 DEF InjTyped
<1> QED
  BY <1>6 DEF e

LEMMA WithoutTyped ==
    ASSUME NEW f, NEW keys
    PROVE  /\ AdjTyped(f) => AdjTyped(Without(f, keys))
           /\ InjTyped(f) => InjTyped(Without(f, keys))
<1> DEFINE e == Without(f, keys)
<1>1. DOMAIN e \subseteq DOMAIN f /\ \A k \in DOMAIN e : e[k] = f[k]
  BY DEF Without
<1> HIDE DEF e
<1>2. IsFiniteSet(DOMAIN f) => IsFiniteSet(DOMAIN e)
  BY <1>1, FS_Subset
<1>3. AdjTyped(f) => AdjTyped(e)
  BY <1>1, <1>2 DEF AdjTyped
<1>4. InjTyped(f) => InjTyped(e)
  BY <1>1, <1>2 DEF InjTyped
<1> QED
  BY <1>3, <1>4 DEF e

\* The tables a query leaves rows out of are tables.
LEMMA NarrowedMeasured ==
    ASSUME NEW d, Measured(d)
    PROVE  /\ \A t \in TxIds : Measured(NoTx(d, t))
           /\ \A s : Measured(NoAdjustment(d, s))
           /\ \A slot : Measured(NoInjection(d, slot))
<1>1. ASSUME NEW t \in TxIds
      PROVE  Measured(NoTx(d, t))
  <2> DEFINE e == NoTx(d, t)
  <2>1. /\ Shape(e) /\ e.snap = d.snap /\ e.fee = d.fee /\ e.adj = d.adj /\ e.inj = d.inj
    BY DEF NoTx, Measured, Shape
  <2> QED
    BY <2>1 DEF Measured
<1>2. ASSUME NEW s
      PROVE  Measured(NoAdjustment(d, s))
  <2> DEFINE table == Without(d.adj, {s} \X Pockets)
             e == NoAdjustment(d, s)
  <2>1. AdjTyped(table)
    BY WithoutTyped DEF Measured
  <2>2. e = [d EXCEPT !.adj = table]
    BY DEF NoAdjustment
  <2> HIDE DEF table, e
  <2>3. /\ Shape(e) /\ e.snap = d.snap /\ e.fee = d.fee /\ e.adj = table /\ e.inj = d.inj
    BY <2>2 DEF Measured, Shape
  <2>4. Measured(e)
    BY <2>1, <2>3 DEF Measured
  <2> QED
    BY <2>4 DEF e
<1>3. ASSUME NEW slot
      PROVE  Measured(NoInjection(d, slot))
  <2> DEFINE table == Without(d.inj, {slot})
             e == NoInjection(d, slot)
  <2>1. InjTyped(table)
    BY WithoutTyped DEF Measured
  <2>2. e = [d EXCEPT !.inj = table]
    BY DEF NoInjection
  <2> HIDE DEF table, e
  <2>3. /\ Shape(e) /\ e.snap = d.snap /\ e.fee = d.fee /\ e.adj = d.adj /\ e.inj = table
    BY <2>2 DEF Measured, Shape
  <2>4. Measured(e)
    BY <2>1, <2>3 DEF Measured
  <2> QED
    BY <2>4 DEF e
<1> QED
  BY <1>1, <1>2, <1>3

LEMMA ClockIsInt ==
    ASSUME NEW ts \in Int
    PROVE  InjectionTs(ts) \in Int /\ AdjustmentTs(ts) \in Int
<1>1. \A u \in Int : DayStart(u) \in Int
  BY LedgerAssumption DEF DayStart
<1>2. ts + TzShift \in Int /\ TzShift \in Int
  BY LedgerAssumption
<1> QED
  BY <1>1, <1>2 DEF InjectionTs, AdjustmentTs

LEMMA SetAdjustmentTyped ==
    ASSUME NEW d, Typed(d), NEW p \in Pockets, NEW s \in SnapIds, NEW ts \in Int,
           NEW amount \in Int,
           PocketsFixed => d.snap[s] # NoRow /\ d.snap[s].cur = p /\ d.snap[s].ts = ts
    PROVE  /\ Typed(SetAdjustment(d, p, s, ts, amount))
           /\ SetAdjustment(d, p, s, ts, amount).snap = d.snap
           /\ SetAdjustment(d, p, s, ts, amount).fee = d.fee
<1> DEFINE key == <<s, p>>
           at == IF key \in DOMAIN d.adj THEN d.adj[key].ts ELSE AdjustmentTs(ts)
           table == With(d.adj, key, [ts |-> at, amount |-> amount])
           e == SetAdjustment(d, p, s, ts, amount)
<1>1. e = [d EXCEPT !.adj = table]
  BY DEF SetAdjustment
<1>2. at \in Int
  BY ClockIsInt DEF Typed, Measured, AdjTyped
<1> HIDE DEF at
<1>3. AdjTyped(table)
  BY <1>2, WithAdjTyped DEF Typed, Measured
<1>6. PocketsFixed => Anchored(table, d.snap)
  <2> SUFFICES ASSUME PocketsFixed, NEW k \in DOMAIN table
               PROVE  /\ d.snap[k[1]] # NoRow
                      /\ d.snap[k[1]].cur = k[2]
                      /\ table[k].ts = AdjustmentTs(d.snap[k[1]].ts)
    BY DEF Anchored
  <2>1. table[k] = IF k = key THEN [ts |-> at, amount |-> amount] ELSE d.adj[k]
    BY DEF With
  <2>2. CASE k = key
    BY <2>1, <2>2 DEF Typed, Anchored, at
  <2>3. CASE k # key
    BY <2>1, <2>3 DEF Typed, Anchored, With
  <2> QED
    BY <2>2, <2>3
<1> HIDE DEF table, e
<1>4. /\ Shape(e) /\ e.snap = d.snap /\ e.fee = d.fee /\ e.adj = table /\ e.inj = d.inj
      /\ e.link = d.link /\ e.dangling = d.dangling
  BY <1>1 DEF Typed, Measured, Shape
<1>5. Typed(e)
  BY <1>3, <1>4, <1>6 DEF Typed, Measured
<1> QED
  BY <1>4, <1>5 DEF e

LEMMA RecalculateTyped ==
    ASSUME NEW d, Typed(d), NEW p, NEW ts
    PROVE  /\ Typed(Recalculate(d, p, ts))
           /\ Recalculate(d, p, ts).snap = d.snap
           /\ Recalculate(d, p, ts).fee = d.fee
<1> DEFINE S == SnapsAfter(d, p, ts)
           s == Earliest(d, S)
           row == d.snap[s]
           balance == BalanceAt(NoAdjustment(d, s), p, row.ts, TRUE)
           amount == Reconciling(d, p, s, row.ts, row.amount)
<1>1. CASE SnapsAfter(d, p, ts) = {}
  BY <1>1 DEF Recalculate
<1>2. CASE SnapsAfter(d, p, ts) # {}
  <2>0. Measured(d) /\ S \subseteq Snapshots(d, p)
    BY DEF Typed, SnapsAfter
  <2>1. /\ s \in Snapshots(d, p) /\ s \in SnapIds /\ row \in SnapRows /\ row.cur = p
        /\ row # NoRow
        /\ row.ts \in Int /\ row.amount \in Int
    <3> HIDE DEF S
    <3>1. s \in S
      BY <1>2, <2>0, LatestExists DEF S
    <3> QED
      BY <2>0, <3>1, SnapshotRows
  <2>2. p \in Pockets
    BY <2>1 DEF SnapRows
  <2>3. Recalculate(d, p, ts) = SetAdjustment(d, p, s, row.ts, amount)
    BY <1>2 DEF Recalculate
  <2>4. balance \in Int /\ amount = row.amount - balance
    BY <2>0, NarrowedMeasured, BalanceIsInt DEF Reconciling
  <2>6. d.snap[s] # NoRow /\ d.snap[s].cur = p /\ d.snap[s].ts = row.ts
    BY <2>1
  <2> HIDE DEF row, s, balance
  <2>5. amount \in Int
    BY <2>1, <2>4
  <2> HIDE DEF amount
  <2> QED
    BY <2>1, <2>2, <2>3, <2>5, <2>6, SetAdjustmentTyped
<1> QED
  BY <1>1, <1>2

LEMMA SlotOfRow ==
    ASSUME NEW row \in TxRows
    PROVE  Slot(row) \in Slots /\ row.ts \in Int /\ row.cash \in Int /\ row.pocket \in Pockets
           /\ <<row.pocket, InjectionTs(row.ts)>> \in Slots
<1>1. row.ts \in Instants /\ row.cash \in Amounts /\ row.pocket \in Pockets
  BY DEF TxRows
<1>2. row.ts \in Int /\ row.cash \in Int
  <2>1. Instants \subseteq Int /\ Amounts \subseteq Int
    BY LedgerAssumption
  <2> QED
    BY <1>1, <2>1
<1> QED
  BY <1>1, <1>2 DEF Slot, Slots

\* Funding writes a positive amount into the slot of the row.
LEMMA EnsureCashTyped ==
    ASSUME NEW d, Typed(d), NEW seen, Measured(seen), NEW row \in TxRows, NEW mode
    PROVE  Typed(EnsureCash(d, seen, row, mode))
<1> DEFINE anchored == SnapsBefore(d, row.pocket, InjectionTs(row.ts)) # {}
           balance == BalanceAt(seen, row.pocket, row.ts, TRUE)
           needed == row.cash - balance
           held == IF Slot(row) \in DOMAIN d.inj THEN d.inj[Slot(row)] ELSE 0
           table == With(d.inj, Slot(row), held + needed)
           skip == mode = "debit" \/ (anchored /\ mode # "inject") \/ needed <= 0
           e == [d EXCEPT !.inj = table]
<1>1. EnsureCash(d, seen, row, mode) = IF skip THEN d ELSE e
  BY DEF EnsureCash
<1>2. needed \in Int /\ Slot(row) \in Slots
  <2>1. balance \in Int
    BY BalanceIsInt
  <2>2. row.cash \in Int /\ Slot(row) \in Slots
    BY SlotOfRow
  <2> HIDE DEF balance
  <2> QED
    BY <2>1, <2>2
<1>3. held \in Nat
  BY DEF Typed, Measured, InjTyped
<1> HIDE DEF needed, held, anchored
<1>4. ~skip => held + needed \in Int /\ held + needed > 0
  BY <1>2, <1>3
<1> HIDE DEF skip
<1>5. ASSUME ~skip
      PROVE  Typed(e)
  <2>1. InjTyped(table)
    BY <1>2, <1>4, <1>5, WithInjTyped DEF Typed, Measured
  <2> HIDE DEF table
  <2>2. /\ Shape(e) /\ e.snap = d.snap /\ e.fee = d.fee /\ e.adj = d.adj /\ e.inj = table
        /\ e.link = d.link /\ e.dangling = d.dangling
    BY DEF Typed, Measured, Shape
  <2> HIDE DEF e
  <2> QED
    BY <2>1, <2>2 DEF Typed, Measured
<1> HIDE DEF e
<1> QED
  BY <1>1, <1>5

LEMMA RequiredIsInt ==
    ASSUME NEW d, Measured(d), NEW slot \in Slots
    PROVE  RequiredInjection(d, slot) \in Int
<1> DEFINE p == slot[1]
           day == slot[2] + 1
           opening == BalanceAt(NoInjection(d, slot), p, day, FALSE)
           rows == {t \in Live(d) : /\ d.tx[t].pocket = p
                                    /\ d.tx[t].kind \in {"in", "out"}
                                    /\ DayStart(d.tx[t].ts) = day}
           upTo(t) == {u \in rows : \/ d.tx[u].ts < d.tx[t].ts
                                    \/ (d.tx[u].ts = d.tx[t].ts /\ u <= t)}
           flow == [t \in rows |-> Signed(d.tx[t])]
           running(t) == opening + SumFunctionOnSet(flow, upTo(t))
           outs == {u \in rows : d.tx[u].kind = "out"}
           depth == [t \in outs |-> -running(t)]
<1>1. RequiredInjection(d, slot) = Max({0} \cup {-running(t) : t \in outs})
  BY DEF RequiredInjection
<1>2. opening \in Int
  BY NarrowedMeasured, BalanceIsInt
<1> HIDE DEF opening, p, day
<1>3. ASSUME NEW t
      PROVE  running(t) \in Int
  <2>1. IsFiniteSet(upTo(t)) /\ \A u \in upTo(t) : flow[u] \in Int
    BY LiveRows, LiveIsFinite DEF Measured
  <2> HIDE DEF upTo, flow
  <2>2. SumFunctionOnSet(flow, upTo(t)) \in Int
    BY <2>1, SumIsInt
  <2> QED
    BY <1>2, <2>2
<1>4. IsFiniteSet(outs)
  <2>1. outs \subseteq Live(d)
    OBVIOUS
  <2> HIDE DEF outs
  <2> QED
    BY <2>1, LiveIsFinite
<1> HIDE DEF running, outs
<1>5. \A t \in outs : depth[t] \in Int
  BY <1>3
<1>6. {-running(t) : t \in outs} = {depth[t] : t \in outs}
  OBVIOUS
<1> HIDE DEF depth
<1> QED
  BY <1>1, <1>4, <1>5, <1>6, MaxOfValues

LEMMA DropTyped ==
    ASSUME NEW d, Typed(d), NEW slot
    PROVE  Typed(DropInjection(d, slot))
<1> DEFINE table == Without(d.inj, {slot})
           e == DropInjection(d, slot)
<1>1. InjTyped(table)
  BY WithoutTyped DEF Typed, Measured
<1>2. e = [d EXCEPT !.inj = table, !.link = {l \in d.link : l[1] # slot}]
  BY DEF DropInjection
<1> HIDE DEF table, e
<1>3. /\ Shape(e) /\ e.snap = d.snap /\ e.fee = d.fee /\ e.adj = d.adj /\ e.inj = table
      /\ e.link \subseteq d.link /\ e.dangling \subseteq d.dangling
  BY <1>2 DEF Typed, Measured, Shape
<1>4. Typed(e)
  BY <1>1, <1>3 DEF Typed, Measured
<1> QED
  BY <1>4 DEF e

LEMMA AbandonTyped ==
    ASSUME NEW d, Typed(d), NEW slot
    PROVE  Typed(AbandonInjection(d, slot))
<1> DEFINE c == DropInjection(d, slot)
           left == d.dangling \cup {l \in d.link : l[1] = slot}
           e == AbandonInjection(d, slot)
<1>1. e = [c EXCEPT !.dangling = left]
  BY DEF AbandonInjection
<1>2. Typed(c)
  BY DropTyped
<1>3. left \subseteq Slots \X TxIds
  BY DEF Typed
<1> HIDE DEF c, left, e
<1>4. /\ Shape(e) /\ e.snap = c.snap /\ e.fee = c.fee /\ e.adj = c.adj /\ e.inj = c.inj
      /\ e.link = c.link /\ e.dangling = left
  BY <1>1, <1>2 DEF Typed, Measured, Shape
<1>5. Typed(e)
  BY <1>2, <1>3, <1>4 DEF Typed, Measured
<1> QED
  BY <1>5 DEF e

LEMMA RefreshTyped ==
    ASSUME NEW d, Typed(d), NEW slot \in Slots, NEW t \in TxIds
    PROVE  Typed(RefreshInjection(d, slot, t))
<1> DEFINE required == RequiredInjection(NoTx(d, t), slot)
           bare == (\A l \in d.link : l[1] # slot) \/ required <= 0
           table == With(d.inj, slot, required)
           e == [d EXCEPT !.inj = table]
<1>1. RefreshInjection(d, slot, t) = IF bare THEN DropInjection(d, slot) ELSE e
  BY DEF RefreshInjection
<1>2. required \in Int
  BY RequiredIsInt, NarrowedMeasured DEF Typed
<1> HIDE DEF required
<1>3. ASSUME ~bare
      PROVE  Typed(e)
  <2>1. InjTyped(table)
    BY <1>2, <1>3, WithInjTyped DEF Typed, Measured
  <2> HIDE DEF table
  <2>2. /\ Shape(e) /\ e.snap = d.snap /\ e.fee = d.fee /\ e.adj = d.adj /\ e.inj = table
        /\ e.link = d.link /\ e.dangling = d.dangling
    BY DEF Typed, Measured, Shape
  <2> HIDE DEF e
  <2> QED
    BY <2>1, <2>2 DEF Typed, Measured
<1> HIDE DEF e, bare
<1> QED
  BY <1>1, <1>3, DropTyped

\* Rewriting a transaction, a snapshot, a fee or the links.
LEMMA RewriteTyped ==
    ASSUME NEW d, Typed(d), NEW t \in TxIds
    PROVE  /\ \A row \in TxRows \cup {NoRow} :
                 /\ Typed([d EXCEPT !.tx[t] = row])
                 /\ [d EXCEPT !.tx[t] = row].tx = [d.tx EXCEPT ![t] = row]
           /\ \A row \in FeeRows \cup {NoRow} : Typed([d EXCEPT !.fee[t] = row])
           /\ Typed(Unlinked(d, t)) /\ Unlinked(d, t).tx = d.tx
           /\ d.tx[t] \in TxRows => Typed(LinkInjection(d, t))
<1>1. ASSUME NEW row \in TxRows \cup {NoRow}
      PROVE  /\ Typed([d EXCEPT !.tx[t] = row])
             /\ [d EXCEPT !.tx[t] = row].tx = [d.tx EXCEPT ![t] = row]
  <2> DEFINE e == [d EXCEPT !.tx[t] = row]
  <2>1. /\ DOMAIN e = DOMAIN d /\ e.tx = [d.tx EXCEPT ![t] = row]
        /\ e.snap = d.snap /\ e.fee = d.fee /\ e.adj = d.adj /\ e.inj = d.inj
        /\ e.link = d.link /\ e.dangling = d.dangling
    BY DEF Typed, Measured, Shape
  <2> HIDE DEF e
  <2>2. Typed(e)
    BY <2>1 DEF Typed, Measured, Shape
  <2> QED
    BY <2>1, <2>2 DEF e
<1>2. ASSUME NEW row \in FeeRows \cup {NoRow}
      PROVE  Typed([d EXCEPT !.fee[t] = row])
  <2> DEFINE e == [d EXCEPT !.fee[t] = row]
  <2>1. /\ DOMAIN e = DOMAIN d /\ e.tx = d.tx /\ e.fee = [d.fee EXCEPT ![t] = row]
        /\ e.snap = d.snap /\ e.adj = d.adj /\ e.inj = d.inj /\ e.link = d.link
        /\ e.dangling = d.dangling
    BY DEF Typed, Measured, Shape
  <2> HIDE DEF e
  <2> QED
    BY <2>1 DEF Typed, Measured, Shape
<1>3. Typed(Unlinked(d, t)) /\ Unlinked(d, t).tx = d.tx
  <2> DEFINE e == Unlinked(d, t)
  <2>1. /\ Shape(e) /\ e.tx = d.tx /\ e.snap = d.snap /\ e.fee = d.fee /\ e.adj = d.adj
        /\ e.inj = d.inj /\ e.link \subseteq d.link /\ e.dangling \subseteq d.dangling
    BY DEF Unlinked, Typed, Measured, Shape
  <2> HIDE DEF e
  <2> QED
    BY <2>1 DEF Typed, Measured, e
<1>4. ASSUME d.tx[t] \in TxRows
      PROVE  Typed(LinkInjection(d, t))
  <2> DEFINE slot == Slot(d.tx[t])
             e == [d EXCEPT !.link = d.link \cup {<<slot, t>>}]
  <2>1. slot \in Slots
    BY <1>4, SlotOfRow
  <2>2. LinkInjection(d, t) = IF slot \in DOMAIN d.inj THEN e ELSE d
    BY DEF LinkInjection
  <2> HIDE DEF slot
  <2>3. /\ Shape(e) /\ e.tx = d.tx /\ e.snap = d.snap /\ e.fee = d.fee /\ e.adj = d.adj
        /\ e.inj = d.inj /\ e.link = d.link \cup {<<slot, t>>} /\ e.dangling = d.dangling
    BY DEF Typed, Measured, Shape
  <2> HIDE DEF e
  <2>4. Typed(e)
    BY <2>1, <2>3 DEF Typed, Measured
  <2> QED
    BY <2>2, <2>4
<1> QED
  BY <1>1, <1>2, <1>3, <1>4
\* The statements on transactions, injections and links leave the snapshots
\* and the fees alone.
LEMMA StatementsKeepRows ==
    ASSUME NEW d, Shape(d), NEW t, NEW row, NEW seen, NEW mode, NEW slot
    PROVE  \A e \in {EnsureCash(d, seen, row, mode), LinkInjection(d, t), Unlinked(d, t),
                     NoTx(d, t), [d EXCEPT !.tx[t] = row], DropInjection(d, slot),
                     RefreshInjection(d, slot, t)} :
             e.snap = d.snap /\ e.fee = d.fee
<1> DEFINE Same(e) == e.snap = d.snap /\ e.fee = d.fee
           needed == row.cash - BalanceAt(seen, row.pocket, row.ts, TRUE)
           held == IF Slot(row) \in DOMAIN d.inj THEN d.inj[Slot(row)] ELSE 0
           raised == [d EXCEPT !.inj = With(d.inj, Slot(row), held + needed)]
           required == [d EXCEPT !.inj = With(d.inj, slot, RequiredInjection(NoTx(d, t), slot))]
           linked == [d EXCEPT !.link = d.link \cup {<<Slot(d.tx[t]), t>>}]
           rewritten == [d EXCEPT !.tx[t] = row]
<1>1. EnsureCash(d, seen, row, mode) \in {d, raised}
  BY DEF EnsureCash
<1>2. RefreshInjection(d, slot, t) \in {DropInjection(d, slot), required}
  BY DEF RefreshInjection
<1>3. LinkInjection(d, t) \in {d, linked}
  BY DEF LinkInjection
<1>4. Same(raised) /\ Same(required) /\ Same(linked) /\ Same(rewritten)
  BY DEF Shape
<1>5. Same(Unlinked(d, t)) /\ Same(NoTx(d, t)) /\ Same(DropInjection(d, slot))
  BY DEF Unlinked, NoTx, DropInjection, Shape
<1> HIDE DEF raised, required, linked
<1>6. Same(EnsureCash(d, seen, row, mode)) /\ Same(RefreshInjection(d, slot, t)) /\ Same(LinkInjection(d, t))
  BY <1>1, <1>2, <1>3, <1>4, <1>5
<1> HIDE DEF Same, rewritten
<1>7. \A e \in {EnsureCash(d, seen, row, mode), LinkInjection(d, t), Unlinked(d, t),
                NoTx(d, t), rewritten, DropInjection(d, slot), RefreshInjection(d, slot, t)} : Same(e)
  BY <1>4, <1>5, <1>6
<1> QED
  BY <1>7 DEF Same, rewritten

-----------------------------------------------------------------------------
(* The handlers keep the types.                                            *)

LEMMA DetachedTyped ==
    ASSUME NEW d, Typed(d), NEW t \in TxIds, NEW old
    PROVE  /\ Typed(Detached(d, t, old))
           /\ Detached(d, t, old).tx = d.tx /\ Detached(d, t, old).fee = d.fee
<1> DEFINE slots == LinksOf(d, t)
           chosen == CHOOSE slot \in slots : TRUE
           bare == Unlinked(d, t)
           fresh == RefreshInjection(bare, chosen, t)
<1>1. Detached(d, t, old) = IF ~IsSpend(old) THEN d ELSE IF slots = {} THEN bare ELSE fresh
  BY DEF Detached
<1>2. Typed(bare) /\ bare.tx = d.tx /\ bare.fee = d.fee
  BY RewriteTyped, StatementsKeepRows DEF Typed, Measured
<1>3. ASSUME slots # {}
      PROVE  Typed(fresh) /\ fresh.tx = d.tx /\ fresh.fee = d.fee
  <2>1. chosen \in DOMAIN d.inj
    BY <1>3 DEF LinksOf
  <2>2. chosen \in Slots
    BY <2>1 DEF Typed, Measured, InjTyped
  <2> HIDE DEF chosen, bare
  <2>3. Typed(fresh)
    BY <1>2, <2>2, RefreshTyped
  <2>4. fresh.tx = bare.tx
    <3>1. DOMAIN bare = {"tx", "snap", "adj", "inj", "link", "dangling", "fee"}
      BY <1>2 DEF Typed, Measured, Shape
    <3> QED
      BY <3>1 DEF RefreshInjection, DropInjection
  <2>5. fresh.fee = bare.fee
    BY <1>2, StatementsKeepRows DEF Typed, Measured
  <2> QED
    BY <1>2, <2>3, <2>4, <2>5
<1> HIDE DEF slots, bare, fresh
<1> QED
  BY <1>1, <1>2, <1>3

\* Funding and linking a spend.
LEMMA FundedTyped ==
    ASSUME NEW d, Typed(d), NEW seen, Measured(seen), NEW row \in TxRows, NEW mode
    PROVE  /\ Typed(EnsureCash(d, seen, row, mode))
           /\ EnsureCash(d, seen, row, mode).tx = d.tx
           /\ EnsureCash(d, seen, row, mode).fee = d.fee
<1>1. Shape(d)
  BY DEF Typed, Measured
<1> QED
  BY <1>1, EnsureCashTyped, EnsureCashKeeps, StatementsKeepRows

LEMMA CreatedTyped ==
    ASSUME NEW d, Typed(d), NEW t \in TxIds, NEW row \in TxRows, NEW mode
    PROVE  Typed(Created(d, t, row, mode))
<1> DEFINE funded == IF IsSpend(row) THEN EnsureCash(d, d, row, mode) ELSE d
           stored == [funded EXCEPT !.tx[t] = row]
           linked == IF IsSpend(row) THEN LinkInjection(stored, t) ELSE stored
<1>1. Typed(funded) /\ funded.tx = d.tx
  BY FundedTyped DEF Typed
<1>2. d.tx \in [TxIds -> TxRows \cup {NoRow}]
  BY DEF Typed, Measured, Shape
<1>3. Created(d, t, row, mode) =
        IF row.kind = "manual" THEN linked ELSE Recalculate(linked, row.pocket, row.ts)
  BY DEF Created
<1> HIDE DEF funded
<1>4. Typed(stored) /\ stored.tx[t] = row
  BY <1>1, <1>2, RewriteTyped
<1> HIDE DEF stored
<1>5. Typed(linked)
  BY <1>4, RewriteTyped
<1> HIDE DEF linked
<1> QED
  BY <1>3, <1>5, RecalculateTyped

LEMMA UpdatedTyped ==
    ASSUME NEW d, Typed(d), NEW t \in TxIds, NEW row \in TxRows, NEW mode
    PROVE  Typed(Updated(d, t, row, mode))
<1> DEFINE old == d.tx[t]
           written == [d EXCEPT !.tx[t] = row]
           stored == Detached(written, t, old)
           funded == EnsureCash(stored, NoTx(stored, t), row, mode)
           attached == Reattached(stored, t, row, mode)
           here == Recalculate(attached, row.pocket, row.ts)
<1>1. d.tx \in [TxIds -> TxRows \cup {NoRow}]
  BY DEF Typed, Measured, Shape
<1>2. Typed(written) /\ written.tx[t] = row
  <2>1. Typed(written) /\ written.tx = [d.tx EXCEPT ![t] = row]
    BY RewriteTyped
  <2> HIDE DEF written
  <2> QED
    BY <1>1, <2>1
<1>3. Updated(d, t, row, mode) = RecalculateBoth(attached, old, row)
  BY DEF Updated
<1> HIDE DEF written
<1>4. Typed(stored) /\ stored.tx[t] = row
  BY <1>2, DetachedTyped
<1> HIDE DEF stored, old
<1>5. Typed(attached)
  <2>1. Measured(NoTx(stored, t))
    BY <1>4, NarrowedMeasured DEF Typed
  <2>2. Typed(funded) /\ funded.tx = stored.tx
    BY <1>4, <2>1, FundedTyped
  <2>3. attached = IF IsSpend(row) THEN LinkInjection(funded, t) ELSE stored
    BY DEF Reattached
  <2> HIDE DEF funded, attached
  <2>4. Typed(LinkInjection(funded, t))
    BY <1>4, <2>2, RewriteTyped
  <2> QED
    BY <1>4, <2>3, <2>4
<1> HIDE DEF attached
<1>6. Typed(here)
  BY <1>5, RecalculateTyped
<1>7. RecalculateBoth(attached, old, row) \in {attached, here, Recalculate(here, old.pocket, old.ts)}
  BY DEF RecalculateBoth
<1> HIDE DEF here
<1>8. Typed(Recalculate(here, old.pocket, old.ts))
  BY <1>6, RecalculateTyped
<1> QED
  BY <1>3, <1>5, <1>6, <1>7, <1>8

LEMMA DeletedTyped ==
    ASSUME NEW d, Typed(d), NEW t \in TxIds
    PROVE  /\ Typed(Deleted(d, t))
           /\ Deleted(d, t).tx = [d.tx EXCEPT ![t] = NoRow] /\ Deleted(d, t).fee = d.fee
<1> DEFINE old == d.tx[t]
           bare == Unlinked(d, t)
           gone == NoTx(bare, t)
           orphans == {slot \in LinksOf(d, t) : \A l \in gone.link : l[1] # slot}
           rest == Without(gone.inj, orphans)
           less == [gone EXCEPT !.inj = rest]
           swept == IF IsSpend(old) THEN less ELSE gone
<1>1. Typed(bare) /\ bare.tx = d.tx /\ bare.fee = d.fee
  BY RewriteTyped, StatementsKeepRows DEF Typed, Measured
<1>2. Deleted(d, t) = IF old.kind = "manual" THEN swept ELSE Recalculate(swept, old.cur, old.ts)
  BY DEF Deleted
<1> HIDE DEF bare, old
<1>3. Typed(gone) /\ gone.tx = [d.tx EXCEPT ![t] = NoRow] /\ gone.fee = d.fee
  <2>1. Typed(gone) /\ gone.tx = [bare.tx EXCEPT ![t] = NoRow]
    BY <1>1, RewriteTyped DEF NoTx
  <2>2. gone.fee = bare.fee
    BY <1>1, StatementsKeepRows DEF Typed, Measured
  <2> QED
    BY <1>1, <2>1, <2>2
<1> HIDE DEF gone, orphans
<1>4. InjTyped(rest)
  BY <1>3, WithoutTyped DEF Typed, Measured
<1> HIDE DEF rest
<1>5. Typed(less) /\ less.tx = gone.tx /\ less.fee = gone.fee
  <2>1. /\ Shape(less) /\ less.tx = gone.tx /\ less.snap = gone.snap /\ less.fee = gone.fee /\ less.adj = gone.adj
        /\ less.inj = rest /\ less.link = gone.link /\ less.dangling = gone.dangling
    BY <1>3 DEF Typed, Measured, Shape
  <2> HIDE DEF less
  <2> QED
    BY <1>3, <1>4, <2>1 DEF Typed, Measured
<1> HIDE DEF less
<1>6. Typed(swept) /\ swept.tx = gone.tx /\ swept.fee = gone.fee
  BY <1>3, <1>5
<1> HIDE DEF swept
<1>7. Recalculate(swept, old.cur, old.ts).tx = swept.tx
  BY <1>6, RecalculateKeeps DEF SameSpends, Typed, Measured
<1> QED
  BY <1>2, <1>3, <1>6, <1>7, RecalculateTyped

LEMMA ReconciledTyped ==
    ASSUME NEW d, Typed(d), NEW t \in TxIds, d.tx[t] \in TxRows
    PROVE  Typed(Reconciled(d, t))
<1> DEFINE row == d.tx[t]
           own == Recalculate(d, row.pocket, row.ts)
           main == Recalculate(own, MainCurrency, row.ts)
           slot == <<MainCurrency, InjectionTs(row.ts)>>
           anchored == SnapsBefore(main, MainCurrency, InjectionTs(row.ts)) # {}
           balance == BalanceAt(main, MainCurrency, row.ts, TRUE)
           raised == [main EXCEPT !.inj = With(main.inj, slot, -balance)]
<1>1. Reconciled(d, t) =
        IF row.kind = "manual" THEN d
        ELSE IF MainCurrency \in {NoCurrency, row.cur} THEN own
        ELSE IF anchored THEN main
        ELSE IF balance >= 0 THEN AbandonInjection(main, slot)
        ELSE raised
  BY DEF Reconciled
<1>2. row.ts \in Instants
  BY DEF TxRows
<1>3. Typed(own)
  BY RecalculateTyped
<1> HIDE DEF row, own
<1>4. Typed(main)
  BY <1>3, RecalculateTyped
<1>5. balance \in Int
  BY <1>4, BalanceIsInt DEF Typed
<1>6. MainCurrency # NoCurrency => slot \in Slots
  BY <1>2, LedgerAssumption DEF Slots
<1> HIDE DEF main, slot, anchored, balance
<1>7. Typed(AbandonInjection(main, slot))
  BY <1>4, AbandonTyped
<1>8. ASSUME MainCurrency # NoCurrency, ~(balance >= 0)
      PROVE  Typed(raised)
  <2> DEFINE table == With(main.inj, slot, -balance)
  <2>1. -balance \in Int /\ -balance > 0
    BY <1>5, <1>8
  <2>2. InjTyped(table)
    BY <1>4, <1>6, <1>8, <2>1, WithInjTyped DEF Typed, Measured
  <2> HIDE DEF table
  <2>3. /\ Shape(raised) /\ raised.snap = main.snap /\ raised.fee = main.fee
        /\ raised.adj = main.adj /\ raised.inj = table /\ raised.link = main.link
        /\ raised.dangling = main.dangling
    BY <1>4 DEF Typed, Measured, Shape, table
  <2> HIDE DEF raised
  <2> QED
    BY <1>4, <2>2, <2>3 DEF Typed, Measured
<1> HIDE DEF raised
<1> QED
  BY <1>1, <1>3, <1>4, <1>7, <1>8

\* What reconciling a fee reads of the transactions it leaves as they are.
LEMMA ReconciledKeeps ==
    ASSUME NEW d, Typed(d), NEW t
    PROVE  Reconciled(d, t).tx = d.tx /\ Reconciled(d, t).fee = d.fee
<1> DEFINE row == d.tx[t]
           own == Recalculate(d, row.pocket, row.ts)
           main == Recalculate(own, MainCurrency, row.ts)
           slot == <<MainCurrency, InjectionTs(row.ts)>>
           anchored == SnapsBefore(main, MainCurrency, InjectionTs(row.ts)) # {}
           balance == BalanceAt(main, MainCurrency, row.ts, TRUE)
           raised == [main EXCEPT !.inj = With(main.inj, slot, -balance)]
<1>1. Reconciled(d, t) \in {d, own, main, AbandonInjection(main, slot), raised}
  BY DEF Reconciled
<1>2. Typed(own) /\ own.tx = d.tx /\ own.fee = d.fee
  BY RecalculateKeeps, RecalculateTyped DEF SameSpends, Typed, Measured
<1> HIDE DEF own
<1>3. Shape(main) /\ main.tx = d.tx /\ main.fee = d.fee
  BY <1>2, RecalculateKeeps, RecalculateTyped DEF SameSpends, Typed, Measured
<1> HIDE DEF main, slot, anchored, balance
<1>4. /\ AbandonInjection(main, slot).tx = d.tx /\ raised.tx = d.tx
      /\ AbandonInjection(main, slot).fee = d.fee /\ raised.fee = d.fee
  BY <1>3 DEF AbandonInjection, DropInjection, Shape
<1> HIDE DEF raised
<1> QED
  BY <1>1, <1>2, <1>3, <1>4

LEMMA FeeStoredTyped ==
    ASSUME NEW d, Typed(d), NEW t \in TxIds, d.tx[t] \in TxRows, NEW f \in FeeRows \cup {NoRow}
    PROVE  /\ Typed(FeeStored(d, t, f))
           /\ FeeStored(d, t, f).tx = d.tx
           /\ FeeStored(d, t, f).fee = [d.fee EXCEPT ![t] = f]
<1> DEFINE e == [d EXCEPT !.fee[t] = f]
<1>1. Typed(e) /\ e.tx = d.tx /\ e.fee = [d.fee EXCEPT ![t] = f]
  <2>1. e.tx = d.tx /\ e.fee = [d.fee EXCEPT ![t] = f]
    BY DEF Typed, Measured, Shape
  <2> QED
    BY <2>1, RewriteTyped
<1> HIDE DEF e
<1>2. Typed(Reconciled(e, t)) /\ Reconciled(e, t).tx = e.tx /\ Reconciled(e, t).fee = e.fee
  BY <1>1, ReconciledTyped, ReconciledKeeps DEF Typed, Measured
<1> QED
  BY <1>1, <1>2 DEF FeeStored, e

\* What a request leaves in the row of its transaction, and in the fees.
LEMMA StoredRow ==
    ASSUME NEW d, Typed(d), NEW t \in TxIds, NEW row \in TxRows, NEW mode
    PROVE  \A e \in {Created(d, t, row, mode), Updated(d, t, row, mode)} :
             e.tx = [d.tx EXCEPT ![t] = row] /\ e.fee = d.fee
<1> DEFINE Stored(e) == e.tx = [d.tx EXCEPT ![t] = row] /\ e.fee = d.fee
<1>0. ASSUME NEW e, Typed(e), NEW p, NEW ts
      PROVE  Recalculate(e, p, ts).tx = e.tx /\ Recalculate(e, p, ts).fee = e.fee
  BY <1>0, RecalculateKeeps, RecalculateTyped DEF SameSpends, Typed, Measured
<1>a. ASSUME NEW e, Typed(e), e.tx[t] \in TxRows
       PROVE  /\ Typed(LinkInjection(e, t))
              /\ LinkInjection(e, t).tx = e.tx /\ LinkInjection(e, t).fee = e.fee
  <2>1. Typed(LinkInjection(e, t))
    BY <1>a, RewriteTyped
  <2>2. LinkInjection(e, t) \in {e, [e EXCEPT !.link = e.link \cup {<<Slot(e.tx[t]), t>>}]}
    BY DEF LinkInjection
  <2> QED
    BY <1>a, <2>1, <2>2 DEF Typed, Measured, Shape
<1>b. d.tx \in [TxIds -> TxRows \cup {NoRow}]
  BY DEF Typed, Measured, Shape
<1>1. Stored(Created(d, t, row, mode))
  <2> DEFINE funded == IF IsSpend(row) THEN EnsureCash(d, d, row, mode) ELSE d
             stored == [funded EXCEPT !.tx[t] = row]
             linked == IF IsSpend(row) THEN LinkInjection(stored, t) ELSE stored
  <2>1. Created(d, t, row, mode) \in {linked, Recalculate(linked, row.pocket, row.ts)}
    BY DEF Created
  <2>2. Typed(funded) /\ funded.tx = d.tx /\ funded.fee = d.fee
    BY FundedTyped DEF Typed
  <2> HIDE DEF funded
  <2>3. Typed(stored) /\ stored.tx = [d.tx EXCEPT ![t] = row] /\ stored.fee = d.fee
    <3>1. stored.fee = funded.fee
      BY <2>2 DEF Typed, Measured, Shape
    <3> QED
      BY <2>2, <3>1, RewriteTyped
  <2> HIDE DEF stored
  <2>4. Typed(linked) /\ Stored(linked)
    BY <1>a, <1>b, <2>3
  <2> HIDE DEF linked
  <2> QED
    BY <1>0, <2>1, <2>4
<1>2. Stored(Updated(d, t, row, mode))
  <2> DEFINE old == d.tx[t]
             written == [d EXCEPT !.tx[t] = row]
             stored == Detached(written, t, old)
             funded == EnsureCash(stored, NoTx(stored, t), row, mode)
             attached == Reattached(stored, t, row, mode)
             here == Recalculate(attached, row.pocket, row.ts)
             there == Recalculate(here, old.pocket, old.ts)
  <2>1. Updated(d, t, row, mode) = RecalculateBoth(attached, old, row)
    BY DEF Updated
  <2>2. Typed(written) /\ Stored(written)
    <3>1. written.fee = d.fee
      BY DEF Typed, Measured, Shape
    <3> QED
      BY <3>1, RewriteTyped
  <2> HIDE DEF written
  <2>3. Typed(stored) /\ Stored(stored)
    BY <2>2, DetachedTyped
  <2> HIDE DEF stored, old
  <2>4. Typed(funded) /\ Stored(funded)
    BY <2>3, FundedTyped, NarrowedMeasured DEF Typed
  <2>5. attached = IF IsSpend(row) THEN LinkInjection(funded, t) ELSE stored
    BY DEF Reattached
  <2> HIDE DEF funded
  <2>6. Typed(attached) /\ Stored(attached)
    BY <1>a, <1>b, <2>3, <2>4, <2>5
  <2> HIDE DEF attached
  <2>7. Typed(here) /\ Stored(here)
    BY <1>0, <2>6, RecalculateTyped
  <2>8. RecalculateBoth(attached, old, row) \in {attached, here, there}
    BY DEF RecalculateBoth
  <2> HIDE DEF here
  <2>9. Stored(there)
    BY <1>0, <2>7
  <2> HIDE DEF there
  <2> QED
    BY <2>1, <2>6, <2>7, <2>8, <2>9
<1> QED
  BY <1>1, <1>2

-----------------------------------------------------------------------------
(* Types, as an invariant.                                                 *)

\* A fee belongs to a stored transaction: transaction_id REFERENCES
\* transactions, and delete is refused while a fee is there.
Owned(d) == \A t \in TxIds : d.fee[t] # NoRow => d.tx[t] # NoRow

Well(d) == Typed(d) /\ Owned(d)

\* The tables are the variables.
LEMMA CommitWell ==
    ASSUME NEW d, Well(d), Commit(d)
    PROVE  Well(DB)'
<1>1. DB' = [tx |-> tx', snap |-> snap', adj |-> adj', inj |-> inj',
             link |-> link', dangling |-> dangling', fee |-> fee']
  BY DEF DB
<1>2. /\ tx' = d.tx /\ inj' = d.inj /\ link' = d.link /\ dangling' = d.dangling
      /\ snap' = d.snap /\ adj' = d.adj /\ fee' = d.fee
  BY DEF Commit
<1>3. /\ DOMAIN DB' = {"tx", "snap", "adj", "inj", "link", "dangling", "fee"}
      /\ DB'.tx = d.tx /\ DB'.inj = d.inj /\ DB'.link = d.link /\ DB'.dangling = d.dangling
      /\ DB'.snap = d.snap /\ DB'.adj = d.adj /\ DB'.fee = d.fee
  BY <1>1, <1>2
<1>4. Well(DB')
  BY <1>3 DEF Well, Owned, Typed, Measured, Shape
<1> QED
  BY <1>4

LEMMA InitWell == Init => Well(DB)
<1> SUFFICES ASSUME Init
             PROVE  Well(DB)
  OBVIOUS
<1>1. /\ DB.tx = [t \in TxIds |-> NoRow] /\ DB.inj = <<>> /\ DB.link = {} /\ DB.dangling = {}
      /\ DB.snap = [s \in SnapIds |-> NoRow] /\ DB.adj = <<>>
      /\ DB.fee = [t \in TxIds |-> NoRow]
  BY Fields DEF Init
<1>2. DOMAIN DB.inj = {} /\ DOMAIN DB.adj = {}
  BY <1>1
<1>3. Shape(DB)
  BY <1>1 DEF Shape, DB
<1>4. IsFiniteSet({})
  BY FS_EmptySet
<1>5. AdjTyped(DB.adj) /\ InjTyped(DB.inj) /\ Anchored(DB.adj, DB.snap)
  BY <1>2, <1>4 DEF AdjTyped, InjTyped, Anchored
<1> QED
  BY <1>1, <1>3, <1>5 DEF Well, Owned, Typed, Measured

LEMMA TxWell ==
    ASSUME Well(DB), NEW t \in TxIds, TxNext(t)
    PROVE  Well(DB)'
<1>0. Typed(DB) /\ DB.tx \in [TxIds -> TxRows \cup {NoRow}]
  BY DEF Well, Typed, Measured, Shape
<1>1. ASSUME NEW row \in TxRows, NEW mode,
             NEW e \in {Created(DB, t, row, mode), Updated(DB, t, row, mode)}
      PROVE  Well(e)
  <2>1. e.tx = [DB.tx EXCEPT ![t] = row] /\ e.fee = DB.fee
    BY <1>0, StoredRow
  <2>2. Owned(e)
    BY <1>0, <2>1 DEF Well, Owned
  <2> QED
    BY <1>0, <2>2, CreatedTyped, UpdatedTyped DEF Well
<1>2. ASSUME NEW row \in TxRows, NEW mode, Create(t, row, mode) \/ Update(t, row, mode)
      PROVE  Well(DB)'
  BY <1>1, <1>2, CommitWell DEF Create, Update
<1>3. ASSUME Delete(t)
      PROVE  Well(DB)'
  <2> DEFINE e == Deleted(DB, t)
  <2>1. Typed(e) /\ e.tx = [DB.tx EXCEPT ![t] = NoRow] /\ e.fee = DB.fee
    BY <1>0, DeletedTyped
  <2>2. DB.fee[t] = NoRow
    BY <1>3, Fields DEF Delete
  <2>3. Commit(e)
    BY <1>3 DEF Delete
  <2> HIDE DEF e
  <2>4. Well(e)
    BY <1>0, <2>1, <2>2 DEF Well, Owned
  <2> QED
    BY <2>3, <2>4, CommitWell
<1> QED
  BY <1>2, <1>3 DEF TxNext

\* Storing a fee of a stored transaction.
LEMMA FeeStoredWell ==
    ASSUME NEW d, Well(d), NEW t \in TxIds, d.tx[t] \in TxRows, NEW f \in FeeRows \cup {NoRow}
    PROVE  Well(FeeStored(d, t, f)) /\ FeeStored(d, t, f).tx = d.tx
<1>1. d.fee \in [TxIds -> FeeRows \cup {NoRow}]
  BY DEF Well, Typed, Measured
<1>2. Typed(FeeStored(d, t, f)) /\ FeeStored(d, t, f).tx = d.tx
      /\ FeeStored(d, t, f).fee = [d.fee EXCEPT ![t] = f]
  BY FeeStoredTyped DEF Well
<1>3. Owned(FeeStored(d, t, f))
  BY <1>1, <1>2 DEF Well, Owned
<1> QED
  BY <1>2, <1>3 DEF Well

\* Deleting the fee of a transaction before another statement stores one.
LEMMA FeeClearedWell ==
    ASSUME NEW d, Well(d), NEW t \in TxIds
    PROVE  Well([d EXCEPT !.fee[t] = NoRow]) /\ [d EXCEPT !.fee[t] = NoRow].tx = d.tx
<1> DEFINE e == [d EXCEPT !.fee[t] = NoRow]
<1>1. d.fee \in [TxIds -> FeeRows \cup {NoRow}]
  BY DEF Well, Typed, Measured
<1>2. e.tx = d.tx /\ e.fee = [d.fee EXCEPT ![t] = NoRow]
  BY DEF Well, Typed, Measured, Shape
<1>3. Typed(e)
  BY RewriteTyped DEF Well
<1> HIDE DEF e
<1>4. Owned(e)
  BY <1>1, <1>2 DEF Well, Owned
<1> QED
  BY <1>2, <1>3, <1>4 DEF Well, e

LEMMA FeeWell ==
    ASSUME Well(DB), NEW t \in TxIds, FeeNext(t)
    PROVE  Well(DB)'
<1>0. /\ Typed(DB)
      /\ DB.tx \in [TxIds -> TxRows \cup {NoRow}]
      /\ \A u \in TxIds : fee[u] # NoRow \/ ~Fresh(u) => DB.tx[u] \in TxRows
  BY Fields DEF Well, Owned, Typed, Measured, Shape, Fresh
<1>1. ASSUME NEW row \in TxRows, NEW mode,
             NEW e \in {Created(DB, t, row, mode), Updated(DB, t, row, mode)}
      PROVE  Well(e) /\ e.tx[t] = row
  <2>1. e.tx = [DB.tx EXCEPT ![t] = row] /\ e.fee = DB.fee
    BY <1>0, StoredRow
  <2>2. Owned(e) /\ e.tx[t] = row
    BY <1>0, <2>1 DEF Well, Owned
  <2> QED
    BY <1>0, <2>2, CreatedTyped, UpdatedTyped DEF Well
<1>2. ASSUME NEW row \in TxRows, NEW f \in FeeRows \cup {NoRow}, NEW mode,
             CreateFull(t, row, mode, f)
      PROVE  Well(DB)'
  BY <1>1, <1>2, FeeStoredWell, CommitWell DEF CreateFull
<1>3. ASSUME NEW row \in TxRows, NEW f \in FeeRows \cup {NoRow}, NEW mode,
             UpdateFull(t, row, mode, f)
      PROVE  Well(DB)'
  <2> DEFINE d == Updated(DB, t, row, mode)
             bare == [d EXCEPT !.fee[t] = NoRow]
             last == FeeReplaced(bare, t, f)
  <2>1. Well(d) /\ d.tx[t] = row
    BY <1>1
  <2>2. Commit(Reconciled(last, t))
    BY <1>3 DEF UpdateFull
  <2> HIDE DEF d
  <2>3. Well(bare) /\ bare.tx = d.tx
    BY <2>1, FeeClearedWell
  <2> HIDE DEF bare
  <2>4. Well(last) /\ last.tx = bare.tx
    BY <2>1, <2>3, FeeStoredWell DEF FeeReplaced
  <2> HIDE DEF last
  <2>5. Typed(Reconciled(last, t))
    BY <2>1, <2>3, <2>4, ReconciledTyped DEF Well
  <2>6. Reconciled(last, t).tx = last.tx /\ Reconciled(last, t).fee = last.fee
    BY <2>4, ReconciledKeeps DEF Well
  <2>7. Well(Reconciled(last, t))
    BY <2>4, <2>5, <2>6 DEF Well, Owned
  <2> QED
    BY <2>2, <2>7, CommitWell
<1>4. ASSUME NEW f \in FeeRows, CreateFee(t, f)
      PROVE  Well(DB)'
  BY <1>0, <1>4, FeeStoredWell, CommitWell DEF CreateFee
<1>5. ASSUME NEW u \in TxIds, NEW f \in FeeRows, UpdateFee(t, u, f)
      PROVE  Well(DB)'
  <2> DEFINE e == [DB EXCEPT !.fee[t] = NoRow]
  <2>1. Well(e) /\ e.tx = DB.tx
    BY FeeClearedWell
  <2>2. Commit(FeeStored(e, u, f)) /\ ~Fresh(u)
    BY <1>5 DEF UpdateFee
  <2> HIDE DEF e
  <2> QED
    BY <1>0, <2>1, <2>2, FeeStoredWell, CommitWell
<1>6. ASSUME DeleteFee(t)
      PROVE  Well(DB)'
  BY <1>0, <1>6, FeeStoredWell, CommitWell DEF DeleteFee
<1> QED
  BY <1>2, <1>3, <1>4, <1>5, <1>6 DEF FeeNext

\* An edit of a snapshot rebuilds its adjustment, or leaves it as it is.
LEMMA SnapWell ==
    ASSUME Well(DB), NEW s \in SnapIds, SnapNext(s)
    PROVE  Well(DB)'
<1>0. /\ Typed(DB) /\ Owned(DB)
      /\ DB.snap \in [SnapIds -> SnapRows \cup {NoRow}]
      /\ PocketsFixed => Anchored(DB.adj, DB.snap)
      /\ DOMAIN DB.adj \subseteq SnapIds \X Pockets
  BY DEF Well, Typed, Measured, AdjTyped
<1>a. ASSUME NEW row \in SnapRows
       PROVE  row.cur \in Pockets /\ row.ts \in Int /\ row.amount \in Int /\ row # NoRow
  <2>1. SnapInstants \subseteq Int /\ Targets \subseteq Int
    BY LedgerAssumption
  <2> QED
    BY <2>1 DEF SnapRows
<1>b. ASSUME NEW d, Typed(d), NEW p \in Pockets, NEW row \in SnapRows
        PROVE  Reconciling(d, p, s, row.ts, row.amount) \in Int
  <2> DEFINE balance == BalanceAt(NoAdjustment(d, s), p, row.ts, TRUE)
  <2>1. balance \in Int
    BY <1>a, <1>b, NarrowedMeasured, BalanceIsInt DEF Typed
  <2>2. Reconciling(d, p, s, row.ts, row.amount) = row.amount - balance
    BY DEF Reconciling
  <2> HIDE DEF balance
  <2> QED
    BY <1>a, <2>1, <2>2
<1>1. ASSUME NEW row \in SnapRows, CreateSnapshot(s, row)
      PROVE  Well(DB)'
  <2> DEFINE d == [DB EXCEPT !.snap[s] = row]
             amount == Reconciling(d, row.cur, s, row.ts, row.amount)
             e == SetAdjustment(d, row.cur, s, row.ts, amount)
  <2>1. DB.snap[s] = NoRow /\ Commit(e)
    BY <1>1, Fields DEF CreateSnapshot
  <2>2. /\ Shape(d) /\ d.tx = DB.tx /\ d.snap = [DB.snap EXCEPT ![s] = row]
        /\ d.fee = DB.fee /\ d.adj = DB.adj /\ d.inj = DB.inj /\ d.link = DB.link
        /\ d.dangling = DB.dangling
    BY <1>0 DEF Typed, Measured, Shape
  <2> HIDE DEF d
  <2>3. PocketsFixed => Anchored(d.adj, d.snap)
    BY <1>0, <2>1, <2>2 DEF Anchored
  <2>4. Typed(d)
    BY <1>0, <2>2, <2>3 DEF Typed, Measured
  <2>5. d.snap[s] = row
    BY <1>0, <2>2
  <2>6. amount \in Int
    BY <1>a, <1>b, <2>4
  <2> HIDE DEF amount
  <2>7. Typed(e) /\ e.fee = d.fee
    BY <1>a, <2>4, <2>5, <2>6, SetAdjustmentTyped
  <2>8. e.tx = d.tx
    BY <2>2, SetAdjustmentKeeps DEF SameSpends
  <2> HIDE DEF e
  <2>9. Well(e)
    BY <1>0, <2>2, <2>7, <2>8 DEF Well, Owned
  <2> QED
    BY <2>1, <2>9, CommitWell
<1>2. ASSUME NEW row \in SnapRows, UpdateSnapshot(s, row)
      PROVE  Well(DB)'
  <2> DEFINE old == snap[s]
             table == Without(adj, {<<s, old.cur>>})
             bare == [DB EXCEPT !.adj = table]
             amount == Reconciling(bare, row.cur, s, row.ts, row.amount)
             rebuilt == SetAdjustment(bare, row.cur, s, row.ts, amount)
             changed == old.ts # row.ts \/ old.amount # row.amount
             d == IF changed THEN rebuilt ELSE DB
             e == [d EXCEPT !.snap[s] = row]
  <2>1. /\ old \in SnapRows /\ old = DB.snap[s] /\ DB.adj = adj /\ Commit(e)
        /\ "resnapshot" \in Ops
    BY <1>0, <1>2, Fields DEF UpdateSnapshot
  <2>2. /\ DOMAIN table = DOMAIN DB.adj \ {<<s, old.cur>>}
        /\ \A k \in DOMAIN table : table[k] = DB.adj[k]
    BY <2>1 DEF Without
  <2>3. AdjTyped(table)
    BY <1>0, <2>1, WithoutTyped DEF Typed, Measured
  <2> HIDE DEF table, old
  <2>4. /\ Shape(bare) /\ bare.tx = DB.tx /\ bare.snap = DB.snap /\ bare.fee = DB.fee
        /\ bare.adj = table /\ bare.inj = DB.inj /\ bare.link = DB.link
        /\ bare.dangling = DB.dangling
    BY <1>0 DEF Typed, Measured, Shape
  <2> HIDE DEF bare
  <2>5. Measured(bare)
    BY <1>0, <2>3, <2>4 DEF Typed, Measured
  <2>6. amount \in Int
    <3> DEFINE balance == BalanceAt(NoAdjustment(bare, s), row.cur, row.ts, TRUE)
    <3>1. balance \in Int
      BY <1>a, <2>5, NarrowedMeasured, BalanceIsInt
    <3>2. amount = row.amount - balance
      BY DEF Reconciling
    <3> HIDE DEF balance, amount
    <3> QED
      BY <1>a, <3>1, <3>2
  <2> DEFINE moved == [bare EXCEPT !.snap[s] = row]
             f == SetAdjustment(moved, row.cur, s, row.ts, amount)
  <2>7. /\ Shape(moved) /\ moved.tx = DB.tx /\ moved.snap = [DB.snap EXCEPT ![s] = row]
        /\ moved.fee = DB.fee /\ moved.adj = table /\ moved.inj = DB.inj /\ moved.link = DB.link
        /\ moved.dangling = DB.dangling
    BY <1>0, <2>4 DEF Typed, Measured, Shape
  <2> HIDE DEF moved
  <2>8. PocketsFixed => Anchored(table, moved.snap)
    <3> SUFFICES ASSUME PocketsFixed, NEW k \in DOMAIN table
                 PROVE  /\ moved.snap[k[1]] # NoRow
                        /\ moved.snap[k[1]].cur = k[2]
                        /\ table[k].ts = AdjustmentTs(moved.snap[k[1]].ts)
      BY DEF Anchored
    <3>1. k \in DOMAIN DB.adj /\ k # <<s, old.cur>> /\ table[k] = DB.adj[k]
      BY <2>2
    <3>2. k \in SnapIds \X Pockets /\ DB.snap[k[1]].cur = k[2]
      BY <1>0, <3>1 DEF Anchored
    <3>3. k[1] # s
      BY <2>1, <3>1, <3>2
    <3>4. moved.snap[k[1]] = DB.snap[k[1]]
      BY <1>0, <2>7, <3>2, <3>3
    <3> QED
      BY <1>0, <3>1, <3>4 DEF Anchored
  <2>9. Typed(moved) /\ moved.snap[s] = row
    BY <1>0, <2>3, <2>7, <2>8 DEF Typed, Measured
  <2> HIDE DEF amount
  <2>10. Typed(f)
    BY <1>a, <2>6, <2>9, SetAdjustmentTyped
  <2>11. ASSUME changed
         PROVE  Well(e)
    <3> DEFINE at == IF <<s, row.cur>> \in DOMAIN table THEN table[<<s, row.cur>>].ts
                     ELSE AdjustmentTs(row.ts)
               held == With(table, <<s, row.cur>>, [ts |-> at, amount |-> amount])
    <3>1. rebuilt = [bare EXCEPT !.adj = held] /\ f = [moved EXCEPT !.adj = held]
      BY <2>4, <2>7 DEF SetAdjustment
    <3> HIDE DEF at, held, rebuilt, f
    <3>2. /\ Shape(e) /\ e.tx = f.tx /\ e.snap = f.snap /\ e.fee = f.fee /\ e.adj = f.adj
          /\ e.inj = f.inj /\ e.link = f.link /\ e.dangling = f.dangling
          /\ f.tx = DB.tx /\ f.fee = DB.fee
      BY <2>4, <2>7, <2>11, <3>1 DEF Shape
    <3> HIDE DEF e
    <3> QED
      BY <1>0, <2>10, <3>2 DEF Well, Owned, Typed, Measured
  <2>12. ASSUME ~changed
         PROVE  Well(e)
    <3>1. /\ Shape(e) /\ e.tx = DB.tx /\ e.snap = [DB.snap EXCEPT ![s] = row]
          /\ e.fee = DB.fee /\ e.adj = DB.adj /\ e.inj = DB.inj /\ e.link = DB.link
          /\ e.dangling = DB.dangling
      BY <1>0, <2>12 DEF Typed, Measured, Shape
    <3> HIDE DEF e, d
    <3>2. ASSUME PocketsFixed
          PROVE  e.snap = DB.snap
      <4>1. old.cur \in Pockets
        BY <2>1 DEF SnapRows
      <4>2. row.cur = old.cur
        BY <1>a, <2>1, <3>2, <4>1 DEF PocketsFixed
      <4>3. row = old
        BY <2>1, <2>12, <4>2 DEF SnapRows
      <4> QED
        BY <1>0, <2>1, <3>1, <4>3
    <3>3. PocketsFixed => Anchored(e.adj, e.snap)
      BY <1>0, <3>1, <3>2
    <3> QED
      BY <1>0, <3>1, <3>3 DEF Well, Owned, Typed, Measured
  <2> HIDE DEF changed, e
  <2> QED
    BY <2>1, <2>11, <2>12, CommitWell
<1>3. ASSUME DeleteSnapshot(s)
      PROVE  Well(DB)'
  <2> DEFINE table == Without(adj, {<<s, snap[s].cur>>})
             e == [DB EXCEPT !.adj = table, !.snap[s] = NoRow]
  <2>1. Commit(e)
    BY <1>3 DEF DeleteSnapshot
  <2>2. /\ DOMAIN table = DOMAIN DB.adj \ {<<s, DB.snap[s].cur>>}
        /\ \A k \in DOMAIN table : table[k] = DB.adj[k]
    BY Fields DEF Without
  <2>3. AdjTyped(table)
    BY <1>0, Fields, WithoutTyped DEF Typed, Measured
  <2> HIDE DEF table
  <2>4. /\ Shape(e) /\ e.tx = DB.tx /\ e.snap = [DB.snap EXCEPT ![s] = NoRow]
        /\ e.fee = DB.fee /\ e.adj = table /\ e.inj = DB.inj /\ e.link = DB.link
        /\ e.dangling = DB.dangling
    BY <1>0 DEF Typed, Measured, Shape
  <2> HIDE DEF e
  <2>5. PocketsFixed => Anchored(table, e.snap)
    <3> SUFFICES ASSUME PocketsFixed, NEW k \in DOMAIN table
                 PROVE  /\ e.snap[k[1]] # NoRow
                        /\ e.snap[k[1]].cur = k[2]
                        /\ table[k].ts = AdjustmentTs(e.snap[k[1]].ts)
      BY DEF Anchored
    <3>1. k \in DOMAIN DB.adj /\ k # <<s, DB.snap[s].cur>> /\ table[k] = DB.adj[k]
      BY <2>2
    <3>2. k \in SnapIds \X Pockets /\ DB.snap[k[1]].cur = k[2]
      BY <1>0, <3>1 DEF Anchored
    <3>3. k[1] # s
      BY <3>1, <3>2
    <3>4. e.snap[k[1]] = DB.snap[k[1]]
      BY <1>0, <2>4, <3>2, <3>3
    <3> QED
      BY <1>0, <3>1, <3>4 DEF Anchored
  <2>6. Well(e)
    BY <1>0, <2>3, <2>4, <2>5 DEF Well, Owned, Typed, Measured
  <2> QED
    BY <2>1, <2>6, CommitWell
<1> QED
  BY <1>1, <1>2, <1>3 DEF SnapNext

LEMMA GeneratedWell ==
    ASSUME Well(DB), GeneratedNext
    PROVE  Well(DB)'
<1>1. ASSUME NEW slot, DeleteInjection(slot)
      PROVE  Well(DB)'
  <2> DEFINE e == DropInjection(DB, slot)
  <2>1. Typed(e) /\ e.fee = DB.fee
    BY DropTyped, StatementsKeepRows DEF Well, Typed, Measured
  <2>2. e.tx = DB.tx
    BY DEF DropInjection, Well, Typed, Measured, Shape
  <2>3. Commit(e)
    BY <1>1 DEF DeleteInjection
  <2> HIDE DEF e
  <2> QED
    BY <2>1, <2>2, <2>3, CommitWell DEF Well, Owned
<1>2. ASSUME NEW key, DeleteAdjustment(key)
      PROVE  Well(DB)'
  <2> DEFINE table == Without(adj, {key})
             e == [DB EXCEPT !.adj = table]
  <2>1. Commit(e)
    BY <1>2 DEF DeleteAdjustment
  <2>2. DOMAIN table \subseteq DOMAIN DB.adj /\ \A k \in DOMAIN table : table[k] = DB.adj[k]
    BY Fields DEF Without
  <2>3. AdjTyped(table)
    BY Fields, WithoutTyped DEF Well, Typed, Measured
  <2> HIDE DEF table
  <2>4. /\ Shape(e) /\ e.tx = DB.tx /\ e.snap = DB.snap /\ e.fee = DB.fee
        /\ e.adj = table /\ e.inj = DB.inj /\ e.link = DB.link /\ e.dangling = DB.dangling
    BY DEF Well, Typed, Measured, Shape
  <2> HIDE DEF e
  <2>5. PocketsFixed => Anchored(table, e.snap)
    BY <2>2, <2>4 DEF Well, Typed, Anchored
  <2>6. Well(e)
    BY <2>3, <2>4, <2>5 DEF Well, Owned, Typed, Measured
  <2> QED
    BY <2>1, <2>6, CommitWell
<1> QED
  BY <1>1, <1>2 DEF GeneratedNext

LEMMA NextWell == Well(DB) /\ [Next]_vars => Well(DB)'
<1> SUFFICES ASSUME Well(DB), [Next]_vars
             PROVE  Well(DB)'
  OBVIOUS
<1>1. CASE UNCHANGED vars
  <2>1. DB' = DB
    BY <1>1 DEF vars, DB
  <2> QED
    BY <2>1
<1> QED
  BY <1>1, TxWell, FeeWell, SnapWell, GeneratedWell DEF Next

LEMMA SpecWell == Spec => []Well(DB)
BY InitWell, NextWell, PTL DEF Spec

\* Amounts stay numbers and injections positive through every chain of
\* statements: no balance the handlers measure is ever undefined, and none
\* of the refreshes stores a zero or negative injection.
THEOREM LedgerTypes == Spec => []TypeOK
<1>1. Well(DB) => TypeOK
  BY Fields DEF Well, Typed, Measured, Shape, AdjTyped, InjTyped, TypeOK
<1> QED
  BY <1>1, SpecWell, PTL

\* When no edit moves a snapshot to another pocket, every adjustment belongs
\* to a stored snapshot of its pocket, whatever is created, edited, refreshed
\* and deleted around it.  An edit of the currency alone leaves the adjustment
\* behind, so the hypothesis is needed.
THEOREM AdjustmentsStayAnchored ==
    ASSUME "resnapshot" \notin Ops \/ \A p, q \in Pockets : p = q
    PROVE  Spec => []AdjustmentsAnchored
<1>1. Well(DB) => AdjustmentsAnchored
  BY Fields DEF Well, Typed, PocketsFixed, Anchored, AdjustmentsAnchored
<1> QED
  BY <1>1, SpecWell, PTL

-----------------------------------------------------------------------------
(* Spends under the smart default are funded.                              *)

\* A transaction never happens on the day of an adjustment it comes before:
\* up to the instant of a snapshot, transactions are before its adjustment.
DaysApart ==
    \A ts \in Instants, at \in SnapInstants : ts <= at => ts < AdjustmentTs(at)

\* The balance of a pocket, walked from its origin.
Walked(d, p, ts) == FlowBefore(d, p, ts + 1) - FeeOut(d, p, ts)

LEMMA WalkedIsBalance ==
    ASSUME NEW d, NEW p, NEW ts, SnapsBefore(d, p, ts) = {}
    PROVE  BalanceAt(d, p, ts, TRUE) = Walked(d, p, ts)
BY DEF BalanceAt, Walked

\* It depends on the transactions, the injections, the fees, and the
\* adjustments of the pocket so far.
LEMMA SameWalk ==
    ASSUME NEW d, Measured(d), NEW e, NEW p, NEW ts,
           e.tx = d.tx, e.inj = d.inj, e.fee = d.fee,
           AdjustedBefore(e, p, ts + 1) = AdjustedBefore(d, p, ts + 1),
           \A k \in AdjustedBefore(d, p, ts + 1) : e.adj[k].amount = d.adj[k].amount
    PROVE  Walked(e, p, ts) = Walked(d, p, ts)
<1> DEFINE u == ts + 1
           S == AdjustedBefore(d, p, u)
<1>1. /\ Moved(e) = Moved(d) /\ MovedBefore(e, p, u) = MovedBefore(d, p, u)
      /\ InjectedBefore(e, p, u) = InjectedBefore(d, p, u)
  BY DEF Moved, MovedBefore, InjectedBefore, Live
<1>2. FeeOut(e, p, ts) = FeeOut(d, p, ts)
  BY DEF FeeOut, Live
<1>3. IsFiniteSet(S) /\ \A k \in S : Adjusted(d)[k] \in Int
  <2>1. IsFiniteSet(S)
    BY FlowPartsAreInt
  <2>2. \A k \in S : Adjusted(d)[k] \in Int
    BY DEF Measured, AdjTyped, AdjustedBefore, Adjusted
  <2> QED
    BY <2>1, <2>2
<1>4. \A k \in S : Adjusted(e)[k] = Adjusted(d)[k]
  <2>1. S \subseteq DOMAIN d.adj /\ S \subseteq DOMAIN e.adj
    BY DEF AdjustedBefore
  <2> QED
    BY <2>1 DEF Adjusted
<1> HIDE DEF S, u
<1>5. SumFunctionOnSet(Adjusted(e), S) = SumFunctionOnSet(Adjusted(d), S)
  BY <1>3, <1>4, SumOfSame
<1>6. FlowBefore(e, p, u) = FlowBefore(d, p, u)
  BY <1>1, <1>5, FlowParts DEF S, u
<1> QED
  BY <1>2, <1>6 DEF Walked, u

\* Refreshing a snapshot is not felt at a spend that no snapshot precedes.
LEMMA RecalculateQuiet ==
    ASSUME PocketsFixed, DaysApart, NEW d, Typed(d), NEW p, NEW ts \in Instants,
           SnapsBefore(d, p, ts) = {}, NEW q, NEW u
    PROVE  /\ SnapsBefore(Recalculate(d, q, u), p, ts) = {}
           /\ Walked(Recalculate(d, q, u), p, ts) = Walked(d, p, ts)
<1> DEFINE e == Recalculate(d, q, u)
           S == SnapsAfter(d, q, u)
           s == Earliest(d, S)
           row == d.snap[s]
           amount == Reconciling(d, q, s, row.ts, row.amount)
<1>0. ts \in Int
  BY LedgerAssumption
<1>1. SnapsBefore(e, p, ts) = {}
  <2>1. e.snap = d.snap
    BY RecalculateTyped
  <2> QED
    BY <2>1 DEF SnapsBefore, Snapshots
<1>2. CASE S = {}
  <2>1. e = d
    BY <1>2 DEF Recalculate
  <2> QED
    BY <1>1, <2>1
<1>3. CASE S # {}
  <2> DEFINE key == <<s, q>>
             at == IF key \in DOMAIN d.adj THEN d.adj[key].ts ELSE AdjustmentTs(row.ts)
             value == [ts |-> at, amount |-> amount]
  <2>1. e.adj = With(d.adj, key, value) /\ e.tx = d.tx /\ e.inj = d.inj /\ e.fee = d.fee
    <3>1. e = [d EXCEPT !.adj = With(d.adj, key, value)]
      BY <1>3 DEF Recalculate, SetAdjustment
    <3> HIDE DEF value
    <3> QED
      BY <3>1 DEF Typed, Measured, Shape
  <2>2. s \in Snapshots(d, q) /\ row.cur = q /\ row # NoRow /\ row.ts \in SnapInstants
        /\ row.ts \in Int
    <3>1. Measured(d) /\ S \subseteq Snapshots(d, q)
      BY DEF Typed, SnapsAfter
    <3> HIDE DEF S
    <3>2. s \in S
      BY <1>3, <3>1, LatestExists
    <3> QED
      BY <3>1, <3>2, SnapshotRows DEF Snapshots
  <2>3. at = AdjustmentTs(row.ts)
    BY DEF Typed, Anchored
  <2>4. q = p => ts + 1 <= at
    <3>1. ASSUME q = p
          PROVE  ts + 1 <= at
      <4>1. ~(row.ts < ts)
        BY <1>0, <2>2, <3>1 DEF SnapsBefore
      <4>2. ts < AdjustmentTs(row.ts)
        BY <1>0, <2>2, <4>1 DEF DaysApart
      <4>3. AdjustmentTs(row.ts) \in Int
        BY <2>2, ClockIsInt
      <4> QED
        BY <1>0, <2>3, <4>2, <4>3
    <3> QED
      BY <3>1
  <2>5. at \in Int
    BY <2>2, <2>3, ClockIsInt
  <2> HIDE DEF at, amount, row, s
  <2>6. q = p => key \notin AdjustedBefore(d, p, ts + 1)
    <3>1. key \in DOMAIN d.adj => d.adj[key].ts = at
      BY DEF at
    <3> QED
      BY <1>0, <2>4, <2>5, <3>1 DEF AdjustedBefore
  <2>7. \A k \in DOMAIN e.adj : e.adj[k] = IF k = key THEN value ELSE d.adj[k]
    BY <2>1 DEF With
  <2>8. DOMAIN e.adj = DOMAIN d.adj \cup {key} /\ value.ts = at
    BY <2>1 DEF With
  <2>9. q # p => key \notin AdjustedBefore(d, p, ts + 1) /\ key \notin AdjustedBefore(e, p, ts + 1)
    BY DEF AdjustedBefore
  <2>10. q = p => key \notin AdjustedBefore(e, p, ts + 1)
    <3>1. e.adj[key].ts = at
      BY <2>7, <2>8
    <3> QED
      BY <1>0, <2>4, <2>5, <3>1 DEF AdjustedBefore
  <2> HIDE DEF e, key, value
  <2>11. AdjustedBefore(e, p, ts + 1) = AdjustedBefore(d, p, ts + 1)
    <3>1. ASSUME NEW k, k # key
          PROVE  k \in AdjustedBefore(e, p, ts + 1) <=> k \in AdjustedBefore(d, p, ts + 1)
      BY <2>7, <2>8, <3>1 DEF AdjustedBefore
    <3> QED
      BY <2>6, <2>9, <2>10, <3>1
  <2>12. \A k \in AdjustedBefore(d, p, ts + 1) : e.adj[k].amount = d.adj[k].amount
    <3>1. \A k \in AdjustedBefore(d, p, ts + 1) : k # key /\ k \in DOMAIN e.adj
      BY <2>6, <2>8, <2>9 DEF AdjustedBefore
    <3> QED
      BY <2>7, <3>1
  <2>13. Walked(e, p, ts) = Walked(d, p, ts)
    BY <2>1, <2>11, <2>12, SameWalk DEF Typed
  <2> QED
    BY <1>1, <2>13 DEF e
<1> QED
  BY <1>2, <1>3

\* The slot of an instant is before it.
LEMMA SlotBefore ==
    ASSUME NEW ts \in Int
    PROVE  InjectionTs(ts) < ts
<1>1. TicksPerDay \in Nat /\ TicksPerDay > 0
  BY LedgerAssumption
<1>2. (ts \div TicksPerDay) * TicksPerDay <= ts /\ (ts \div TicksPerDay) * TicksPerDay \in Int
  BY <1>1
<1> QED
  BY <1>2 DEF InjectionTs, DayStart

\* The injection of a slot counts in full at the instants of its day.
LEMMA InjectedWalk ==
    ASSUME NEW d, Measured(d), NEW e, Measured(e), NEW p, NEW ts \in Int, NEW k, NEW v \in Int,
           k[1] = p, k[2] < ts, e.inj = With(d.inj, k, v),
           NEW held \in Int, k \in DOMAIN d.inj => held = d.inj[k],
           k \notin DOMAIN d.inj => held = 0
    PROVE  SumFunctionOnSet(e.inj, InjectedBefore(e, p, ts))
             = SumFunctionOnSet(d.inj, InjectedBefore(d, p, ts)) + v - held
<1> DEFINE S == InjectedBefore(d, p, ts)
           T == InjectedBefore(e, p, ts)
           R == S \ {k}
           f == d.inj
           g == e.inj
<1>1. /\ IsFiniteSet(S) /\ IsFiniteSet(T)
      /\ SumFunctionOnSet(f, S) \in Int /\ SumFunctionOnSet(g, T) \in Int
  BY FlowPartsAreInt
<1>2. (\A x \in S : f[x] \in Int) /\ (\A x \in T : g[x] \in Int)
  BY DEF Measured, InjTyped, InjectedBefore
<1>3. /\ DOMAIN g = DOMAIN f \cup {k} /\ g[k] = v
      /\ \A x \in DOMAIN f : x # k => g[x] = f[x]
  BY DEF With
<1>4. k \in T /\ T \ {k} = R /\ (k \in DOMAIN f => k \in S) /\ (k \notin DOMAIN f => R = S)
  BY <1>3 DEF InjectedBefore
<1>5. \A x \in R : g[x] = f[x]
  BY <1>3 DEF InjectedBefore
<1>6. IsFiniteSet(R) /\ \A x \in R : f[x] \in Int /\ g[x] = f[x]
  BY <1>1, <1>2, <1>5, FS_RemoveElement
<1> HIDE DEF S, T, f, g
<1>7. SumFunctionOnSet(g, T) = v + SumFunctionOnSet(g, R)
  BY <1>1, <1>2, <1>3, <1>4, SumTakes
<1> HIDE DEF R
<1>8. SumFunctionOnSet(g, R) = SumFunctionOnSet(f, R) /\ SumFunctionOnSet(f, R) \in Int
  BY <1>6, SumOfSame, SumIsInt
<1>9. SumFunctionOnSet(f, S) = held + SumFunctionOnSet(f, R) /\ held \in Int
  <2>1. CASE k \in DOMAIN f
    <3>1. SumFunctionOnSet(f, S) = f[k] + SumFunctionOnSet(f, S \ {k})
      BY <1>1, <1>2, <1>4, <2>1, SumTakes
    <3> QED
      BY <1>2, <1>4, <2>1, <3>1 DEF R, f
  <2>2. CASE k \notin DOMAIN f
    BY <1>4, <1>8, <2>2 DEF f
  <2> QED
    BY <2>1, <2>2
<1>10. SumFunctionOnSet(g, T) = SumFunctionOnSet(f, S) + v - held
  BY <1>7, <1>8, <1>9
<1> QED
  BY <1>10 DEF S, T, f, g

\* Storing a spend takes its cash out of its pocket.
LEMMA SpentWalk ==
    ASSUME NEW d, Measured(d), NEW e, Measured(e), NEW t \in TxIds, NEW row \in TxRows,
           IsSpend(row), d.tx[t] = NoRow, e.tx = [d.tx EXCEPT ![t] = row], NEW ts \in Int, row.ts < ts
    PROVE  SumFunctionOnSet(Moved(e), MovedBefore(e, row.pocket, ts))
             = SumFunctionOnSet(Moved(d), MovedBefore(d, row.pocket, ts)) - row.cash
<1> DEFINE p == row.pocket
           S == MovedBefore(d, p, ts)
           T == MovedBefore(e, p, ts)
           f == Moved(d)
           g == Moved(e)
<1>0. d.tx \in [TxIds -> TxRows \cup {NoRow}] /\ row # NoRow /\ row.cash \in Int
  BY SlotOfRow DEF Measured, Shape
<1>1. /\ IsFiniteSet(S) /\ IsFiniteSet(T)
      /\ SumFunctionOnSet(f, S) \in Int /\ SumFunctionOnSet(g, T) \in Int
  BY FlowPartsAreInt
<1>2. (\A x \in S : f[x] \in Int) /\ (\A x \in T : g[x] \in Int)
  <2>1. Shape(d) /\ Shape(e)
    BY DEF Measured
  <2> QED
    BY <2>1, LiveRows DEF MovedBefore, Moved
<1>3. Live(e) = Live(d) \cup {t} /\ t \notin Live(d)
  BY <1>0 DEF Live
<1>4. e.tx[t] = row /\ \A x \in TxIds : x # t => e.tx[x] = d.tx[x]
  BY <1>0
<1>5. t \in T /\ T \ {t} = S
  BY <1>3, <1>4 DEF MovedBefore, Live
<1>6. g[t] = -row.cash
  BY <1>3, <1>4 DEF Moved, Signed, IsSpend
<1>7. \A x \in S : g[x] = f[x]
  BY <1>3, <1>4 DEF Moved, MovedBefore, Live
<1> HIDE DEF S, T, f, g
<1>8. SumFunctionOnSet(g, T) = g[t] + SumFunctionOnSet(g, S)
  BY <1>1, <1>2, <1>5, SumTakes
<1>9. SumFunctionOnSet(g, S) = SumFunctionOnSet(f, S)
  BY <1>1, <1>2, <1>7, SumOfSame
<1>10. SumFunctionOnSet(g, T) = SumFunctionOnSet(f, S) - row.cash
  BY <1>0, <1>1, <1>6, <1>8, <1>9
<1> QED
  BY <1>10 DEF S, T, f, g

LEMMA WalkedParts ==
    ASSUME NEW d, Measured(d), NEW p, NEW ts
    PROVE  /\ Walked(d, p, ts) \in Int
           /\ Walked(d, p, ts) = SumFunctionOnSet(Moved(d), MovedBefore(d, p, ts + 1))
                                 + SumFunctionOnSet(Adjusted(d), AdjustedBefore(d, p, ts + 1))
                                 + SumFunctionOnSet(d.inj, InjectedBefore(d, p, ts + 1))
                                 - FeeOut(d, p, ts)
<1> DEFINE u == ts + 1
<1>1. Walked(d, p, ts) = FlowBefore(d, p, u) - FeeOut(d, p, ts)
  BY DEF Walked
<1> HIDE DEF u
<1>2. FeeOut(d, p, ts) \in Int /\ FlowBefore(d, p, u) \in Int
      /\ SumFunctionOnSet(Moved(d), MovedBefore(d, p, u)) \in Int
      /\ SumFunctionOnSet(Adjusted(d), AdjustedBefore(d, p, u)) \in Int
      /\ SumFunctionOnSet(d.inj, InjectedBefore(d, p, u)) \in Int
  BY FeeOutIsInt, FlowPartsAreInt
<1>3. FlowBefore(d, p, u) = SumFunctionOnSet(Moved(d), MovedBefore(d, p, u))
                            + SumFunctionOnSet(Adjusted(d), AdjustedBefore(d, p, u))
                            + SumFunctionOnSet(d.inj, InjectedBefore(d, p, u))
  BY FlowParts
<1>4. Walked(d, p, ts) = SumFunctionOnSet(Moved(d), MovedBefore(d, p, u))
                         + SumFunctionOnSet(Adjusted(d), AdjustedBefore(d, p, u))
                         + SumFunctionOnSet(d.inj, InjectedBefore(d, p, u)) - FeeOut(d, p, ts)
  BY <1>1, <1>2, <1>3
<1>5. Walked(d, p, ts) \in Int
  BY <1>1, <1>2
<1> QED
  BY <1>4, <1>5 DEF u

\* Storing a spend without a fee takes its cash out of the walk.
LEMMA SpentBalance ==
    ASSUME NEW d, Measured(d), NEW e, Measured(e), NEW t \in TxIds, NEW row \in TxRows,
           IsSpend(row), d.tx[t] = NoRow, d.fee[t] = NoRow,
           e.tx = [d.tx EXCEPT ![t] = row], e.fee = d.fee, e.adj = d.adj, e.inj = d.inj
    PROVE  Walked(e, row.pocket, row.ts) = Walked(d, row.pocket, row.ts) - row.cash
<1> DEFINE p == row.pocket
           ts == row.ts
           u == ts + 1
           moved(x) == SumFunctionOnSet(Moved(x), MovedBefore(x, p, u))
           adjusted(x) == SumFunctionOnSet(Adjusted(x), AdjustedBefore(x, p, u))
           injected(x) == SumFunctionOnSet(x.inj, InjectedBefore(x, p, u))
<1>1. row.cash \in Int /\ u \in Int /\ ts < u
  <2>1. row.cash \in Int /\ ts \in Int
    BY SlotOfRow
  <2> QED
    BY <2>1
<1>2. moved(d) \in Int /\ adjusted(d) \in Int /\ injected(d) \in Int
  BY FlowPartsAreInt
<1>3. moved(e) = moved(d) - row.cash
  BY <1>1, SpentWalk
<1>4. adjusted(e) = adjusted(d) /\ injected(e) = injected(d)
  BY DEF Adjusted, AdjustedBefore, InjectedBefore
<1>5. \A x \in TxIds : x # t => e.tx[x] = d.tx[x]
  BY DEF Measured, Shape
<1>6. FeeOut(e, p, ts) = FeeOut(d, p, ts)
  <2> DEFINE Charging(x) == {c \in Live(x) : x.fee[c] # NoRow}
  <2>1. Charging(e) = Charging(d) /\ t \notin Charging(d) /\ Charging(d) \subseteq TxIds
    BY <1>5 DEF Live
  <2>2. Charged(e, p) = Charged(d, p)
    BY <2>1 DEF Charged
  <2>3. ChargedBy(e, ts) = ChargedBy(d, ts)
    BY <1>5, <2>1 DEF ChargedBy
  <2> HIDE DEF p, ts
  <2>4. ASSUME NEW x
        PROVE  FeeOut(x, p, ts) = IF MainCurrency \notin {NoCurrency, p} THEN 0
                                  ELSE SumFunctionOnSet(Charged(x, p), ChargedBy(x, ts))
    BY DEF FeeOut, Charged, ChargedBy
  <2> QED
    BY <2>2, <2>3, <2>4
<1>7. FeeOut(d, p, ts) \in Int
  BY FeeOutIsInt
<1>8. Walked(d, p, ts) = moved(d) + adjusted(d) + injected(d) - FeeOut(d, p, ts)
  BY WalkedParts
<1>9. Walked(e, p, ts) = moved(e) + adjusted(e) + injected(e) - FeeOut(e, p, ts)
  BY WalkedParts
<1> HIDE DEF moved, adjusted, injected, p, ts
<1>10. Walked(e, p, ts) = Walked(d, p, ts) - row.cash
  BY <1>1, <1>2, <1>3, <1>4, <1>6, <1>7, <1>8, <1>9
<1> QED
  BY <1>10 DEF p, ts

\* What is injected into the slot of an instant counts at that instant.
LEMMA InjectedBalance ==
    ASSUME NEW d, Measured(d), NEW e, Measured(e), NEW p, NEW ts \in Int,
           NEW held \in Int, NEW k, k = <<p, InjectionTs(ts)>>,
           k \in DOMAIN d.inj => held = d.inj[k], k \notin DOMAIN d.inj => held = 0,
           NEW v \in Int, e.inj = With(d.inj, k, v),
           e.tx = d.tx, e.fee = d.fee, e.adj = d.adj
    PROVE  Walked(e, p, ts) = Walked(d, p, ts) + v - held
<1> DEFINE u == ts + 1
           moved(x) == SumFunctionOnSet(Moved(x), MovedBefore(x, p, u))
           adjusted(x) == SumFunctionOnSet(Adjusted(x), AdjustedBefore(x, p, u))
           injected(x) == SumFunctionOnSet(x.inj, InjectedBefore(x, p, u))
<1>1. moved(d) \in Int /\ adjusted(d) \in Int /\ injected(d) \in Int
  BY FlowPartsAreInt
<1>2. moved(e) = moved(d) /\ adjusted(e) = adjusted(d)
  BY DEF Moved, MovedBefore, Live, Adjusted, AdjustedBefore
<1>3. FeeOut(e, p, ts) = FeeOut(d, p, ts)
  BY DEF FeeOut, Live
<1>4. FeeOut(d, p, ts) \in Int
  BY FeeOutIsInt
<1>5. k[1] = p /\ k[2] < u /\ u \in Int
  <2>1. InjectionTs(ts) < ts /\ InjectionTs(ts) \in Int
    BY SlotBefore, ClockIsInt
  <2> HIDE DEF u
  <2>2. InjectionTs(ts) < u /\ u \in Int
    BY <2>1 DEF u
  <2> QED
    BY <2>2
<1> HIDE DEF u
<1>6. injected(e) = injected(d) + v - held
  BY <1>5, InjectedWalk
<1>7. Walked(d, p, ts) = moved(d) + adjusted(d) + injected(d) - FeeOut(d, p, ts)
  BY WalkedParts DEF u
<1>8. Walked(e, p, ts) = moved(e) + adjusted(e) + injected(e) - FeeOut(e, p, ts)
  BY WalkedParts DEF u
<1> HIDE DEF moved, adjusted, injected
<1> QED
  BY <1>1, <1>2, <1>3, <1>4, <1>6, <1>7, <1>8

\* Under the smart default, with no snapshot before the spend, what it lacks
\* goes to the injection of its slot.
LEMMA EnsuredTables ==
    ASSUME NEW d, Measured(d), NEW seen, NEW row \in TxRows,
           SnapsBefore(d, row.pocket, row.ts) = {}, SnapsBefore(seen, row.pocket, row.ts) = {},
           NEW needed, needed = row.cash - Walked(seen, row.pocket, row.ts),
           NEW held, held = (IF Slot(row) \in DOMAIN d.inj THEN d.inj[Slot(row)] ELSE 0),
           NEW e, e = EnsureCash(d, seen, row, "auto")
    PROVE  /\ e.tx = d.tx /\ e.snap = d.snap /\ e.adj = d.adj /\ e.fee = d.fee /\ Shape(e)
           /\ needed <= 0 => e.inj = d.inj
           /\ ~(needed <= 0) => e.inj = With(d.inj, Slot(row), held + needed)
<1> DEFINE p == row.pocket
           ts == row.ts
           table == With(d.inj, Slot(row), held + needed)
<1>1. SnapsBefore(d, p, InjectionTs(ts)) = {}
  <2>1. ts \in Int /\ InjectionTs(ts) < ts /\ InjectionTs(ts) \in Int
    BY SlotOfRow, SlotBefore, ClockIsInt
  <2>2. \A s \in Snapshots(d, p) : d.snap[s].ts \in Int
    BY SnapshotRows
  <2> HIDE DEF p, ts
  <2>3. \A s \in Snapshots(d, p) : d.snap[s].ts < InjectionTs(ts) => d.snap[s].ts < ts
    BY <2>1, <2>2
  <2>4. SnapsBefore(d, p, InjectionTs(ts)) \subseteq SnapsBefore(d, p, ts)
    BY <2>3 DEF SnapsBefore
  <2> QED
    BY <2>4 DEF p, ts
<1>2. BalanceAt(seen, p, ts, TRUE) = Walked(seen, p, ts)
  BY WalkedIsBalance
<1>3. needed = row.cash - BalanceAt(seen, p, ts, TRUE)
  BY <1>2
<1>4. e = IF needed <= 0 THEN d ELSE [d EXCEPT !.inj = table]
  BY <1>1, <1>3 DEF EnsureCash
<1>5. Shape(d)
  BY DEF Measured
<1> HIDE DEF table
<1>6. CASE needed <= 0
  BY <1>4, <1>5, <1>6
<1>7. CASE ~(needed <= 0)
  <2>1. e = [d EXCEPT !.inj = table]
    BY <1>4, <1>7
  <2> QED
    BY <1>5, <1>7, <2>1 DEF Shape, table
<1> QED
  BY <1>6, <1>7

\* The spend is stored and its injection raised: the pocket is not overdrawn.
LEMMA FundedBalance ==
    ASSUME NEW d, Measured(d), NEW e, Measured(e), NEW t \in TxIds, NEW row \in TxRows,
           IsSpend(row), d.tx[t] = NoRow, d.fee[t] = NoRow,
           e.tx = [d.tx EXCEPT ![t] = row], e.fee = d.fee, e.adj = d.adj,
           NEW needed \in Int, needed = row.cash - Walked(d, row.pocket, row.ts),
           NEW held \in Int, Slot(row) \in DOMAIN d.inj => held = d.inj[Slot(row)],
           Slot(row) \notin DOMAIN d.inj => held = 0,
           needed <= 0 => e.inj = d.inj,
           ~(needed <= 0) => e.inj = With(d.inj, Slot(row), held + needed)
    PROVE  Walked(e, row.pocket, row.ts) >= 0
<1> DEFINE p == row.pocket
           ts == row.ts
           x == [d EXCEPT !.tx[t] = row]
           v == held + needed
<1>1. ts \in Int /\ row.cash \in Int /\ Slot(row) = <<p, InjectionTs(ts)>>
  BY SlotOfRow DEF Slot
<1>2. Walked(d, p, ts) \in Int
  BY WalkedParts
<1>3. CASE needed <= 0
  <2>1. e.inj = d.inj
    BY <1>3
  <2>2. Walked(e, p, ts) = Walked(d, p, ts) - row.cash
    BY <2>1, SpentBalance
  <2> QED
    BY <1>1, <1>2, <1>3, <2>2
<1>4. CASE ~(needed <= 0)
  <2>1. e.inj = With(d.inj, Slot(row), v)
    BY <1>4
  <2>2. /\ x.tx = e.tx /\ x.fee = d.fee /\ x.adj = d.adj /\ x.inj = d.inj
        /\ x.snap = d.snap /\ DOMAIN x = DOMAIN d
    BY DEF Measured, Shape
  <2> HIDE DEF x
  <2>3. Measured(x)
    BY <2>2 DEF Measured, Shape
  <2>4. Walked(x, p, ts) = Walked(d, p, ts) - row.cash
    BY <2>2, <2>3, SpentBalance
  <2>5. v \in Int
    OBVIOUS
  <2> HIDE DEF v, p, ts
  <2>6. Walked(e, p, ts) = Walked(x, p, ts) + v - held
    BY <1>1, <2>1, <2>2, <2>3, <2>5, InjectedBalance
  <2>7. needed = row.cash - Walked(d, p, ts)
    BY DEF p, ts
  <2>8. Walked(e, p, ts) = 0
    BY <1>1, <1>2, <2>4, <2>5, <2>6, <2>7 DEF v
  <2> QED
    BY <2>8 DEF p, ts
<1> QED
  BY <1>3, <1>4

\* Linking changes the links only; leaving a row out changes the rows only.
LEMMA LinkedTables ==
    ASSUME NEW d, Shape(d), NEW t, NEW e, e = LinkInjection(d, t)
    PROVE  /\ e.tx = d.tx /\ e.snap = d.snap /\ e.adj = d.adj /\ e.inj = d.inj /\ e.fee = d.fee
           /\ Shape(e)
<1>1. e \in {d, [d EXCEPT !.link = d.link \cup {<<Slot(d.tx[t]), t>>}]}
  BY DEF LinkInjection
<1> QED
  BY <1>1 DEF Shape

LEMMA CreatedFunded ==
    ASSUME PocketsFixed, DaysApart, NEW d, Typed(d), NEW t \in TxIds, NEW row \in TxRows,
           IsSpend(row), d.tx[t] = NoRow, d.fee[t] = NoRow, SnapsBefore(d, row.pocket, row.ts) = {},
           NEW e, e = Created(d, t, row, "auto")
    PROVE  SnapsBefore(e, row.pocket, row.ts) = {} /\ Walked(e, row.pocket, row.ts) >= 0
<1> DEFINE p == row.pocket
           ts == row.ts
           needed == row.cash - Walked(d, p, ts)
           held == IF Slot(row) \in DOMAIN d.inj THEN d.inj[Slot(row)] ELSE 0
           funded == EnsureCash(d, d, row, "auto")
           stored == [funded EXCEPT !.tx[t] = row]
           linked == LinkInjection(stored, t)
<1>1. e = Recalculate(linked, p, ts)
  BY DEF Created, IsSpend
<1>2. Measured(d) /\ d.tx \in [TxIds -> TxRows \cup {NoRow}]
  BY DEF Typed, Measured, Shape
<1>3. needed \in Int /\ held \in Int
  <2>1. Walked(d, p, ts) \in Int /\ row.cash \in Int
    BY <1>2, WalkedParts, SlotOfRow
  <2>2. held \in Int
    BY DEF Typed, Measured, InjTyped
  <2> HIDE DEF p, ts, held
  <2> QED
    BY <2>1, <2>2
<1>4. (Slot(row) \in DOMAIN d.inj => held = d.inj[Slot(row)]) /\ (Slot(row) \notin DOMAIN d.inj => held = 0)
  OBVIOUS
<1>5. Typed(funded)
  BY <1>2, EnsureCashTyped
<1>6. /\ funded.tx = d.tx /\ funded.snap = d.snap /\ funded.adj = d.adj /\ funded.fee = d.fee
      /\ Shape(funded)
      /\ needed <= 0 => funded.inj = d.inj
      /\ ~(needed <= 0) => funded.inj = With(d.inj, Slot(row), held + needed)
  <2> HIDE DEF needed, held, funded
  <2> QED
    BY <1>2, EnsuredTables DEF needed, held, funded
<1> HIDE DEF needed, held, funded
<1>7. /\ Typed(stored) /\ stored.tx = [d.tx EXCEPT ![t] = row] /\ stored.tx[t] = row
      /\ stored.snap = d.snap /\ stored.adj = d.adj /\ stored.fee = d.fee /\ stored.inj = funded.inj
  <2>1. Typed(stored) /\ stored.tx = [funded.tx EXCEPT ![t] = row]
    BY <1>5, RewriteTyped
  <2>2. /\ stored.snap = funded.snap /\ stored.adj = funded.adj /\ stored.fee = funded.fee
        /\ stored.inj = funded.inj
    BY <1>6 DEF Shape
  <2> HIDE DEF stored
  <2> QED
    BY <1>2, <1>6, <2>1, <2>2
<1> HIDE DEF stored
<1>8. Typed(linked)
  BY <1>7, RewriteTyped
<1>9. /\ linked.tx = stored.tx /\ linked.snap = stored.snap /\ linked.adj = stored.adj
      /\ linked.inj = stored.inj /\ linked.fee = stored.fee
  <2>1. Shape(stored)
    BY <1>7 DEF Typed, Measured
  <2> QED
    BY <2>1, LinkedTables
<1> HIDE DEF linked
<1>10. SnapsBefore(linked, p, ts) = {}
  BY <1>7, <1>9 DEF SnapsBefore, Snapshots
<1>11. Measured(linked)
  BY <1>8 DEF Typed
<1>12. Walked(linked, p, ts) >= 0
  <2>1. /\ linked.tx = [d.tx EXCEPT ![t] = row] /\ linked.fee = d.fee /\ linked.adj = d.adj
        /\ needed <= 0 => linked.inj = d.inj
        /\ ~(needed <= 0) => linked.inj = With(d.inj, Slot(row), held + needed)
    BY <1>6, <1>7, <1>9
  <2>2. needed = row.cash - Walked(d, row.pocket, row.ts)
    BY DEF needed
  <2> QED
    BY <1>2, <1>3, <1>4, <1>11, <2>1, <2>2, FundedBalance
<1>13. ts \in Instants
  BY DEF TxRows
<1> QED
  BY <1>1, <1>8, <1>10, <1>12, <1>13, RecalculateQuiet

LEMMA DetachedKeepsSnapshots ==
    ASSUME NEW d, Shape(d), NEW t, NEW old
    PROVE  Detached(d, t, old).snap = d.snap
<1> DEFINE chosen == CHOOSE slot \in LinksOf(d, t) : TRUE
           bare == Unlinked(d, t)
<1>1. Detached(d, t, old) \in {d, bare, RefreshInjection(bare, chosen, t)}
  BY DEF Detached
<1>2. bare.snap = d.snap /\ Shape(bare)
  BY DEF Unlinked, Shape
<1> HIDE DEF bare, chosen
<1>3. RefreshInjection(bare, chosen, t).snap = bare.snap
  BY <1>2, StatementsKeepRows
<1> QED
  BY <1>1, <1>2, <1>3

LEMMA UpdatedFunded ==
    ASSUME PocketsFixed, DaysApart, NEW d, Typed(d), NEW t \in TxIds, NEW row \in TxRows,
           IsSpend(row), d.fee[t] = NoRow, SnapsBefore(d, row.pocket, row.ts) = {},
           NEW e, e = Updated(d, t, row, "auto")
    PROVE  SnapsBefore(e, row.pocket, row.ts) = {} /\ Walked(e, row.pocket, row.ts) >= 0
<1> DEFINE p == row.pocket
           ts == row.ts
           old == d.tx[t]
           written == [d EXCEPT !.tx[t] = row]
           stored == Detached(written, t, old)
           seen == NoTx(stored, t)
           needed == row.cash - Walked(seen, p, ts)
           held == IF Slot(row) \in DOMAIN stored.inj THEN stored.inj[Slot(row)] ELSE 0
           funded == EnsureCash(stored, seen, row, "auto")
           linked == LinkInjection(funded, t)
           here == Recalculate(linked, p, ts)
<1>1. e \in {here, Recalculate(here, old.pocket, old.ts)}
  <2>1. Updated(d, t, row, "auto") = RecalculateBoth(linked, old, row)
    BY DEF Updated, Reattached
  <2> HIDE DEF linked, old
  <2>2. row.kind # "manual"
    BY DEF IsSpend
  <2> QED
    BY <2>1, <2>2 DEF RecalculateBoth
<1>2. d.tx \in [TxIds -> TxRows \cup {NoRow}]
  BY DEF Typed, Measured, Shape
<1>3. Typed(written) /\ written.tx[t] = row /\ written.fee = d.fee /\ written.snap = d.snap
  <2>1. Typed(written) /\ written.tx = [d.tx EXCEPT ![t] = row]
    BY RewriteTyped
  <2>2. written.fee = d.fee /\ written.snap = d.snap
    BY DEF Typed, Measured, Shape
  <2> HIDE DEF written
  <2> QED
    BY <1>2, <2>1, <2>2
<1> HIDE DEF written, old
<1>4. Typed(stored) /\ stored.tx[t] = row /\ stored.fee = d.fee /\ stored.snap = d.snap
  <2>1. Typed(stored) /\ stored.tx = written.tx /\ stored.fee = written.fee
    BY <1>3, DetachedTyped
  <2>2. stored.snap = written.snap
    BY <1>3, DetachedKeepsSnapshots DEF Typed, Measured
  <2> HIDE DEF stored
  <2> QED
    BY <1>3, <2>1, <2>2
<1> HIDE DEF stored
<1>5. Measured(stored) /\ Shape(stored) /\ stored.tx \in [TxIds -> TxRows \cup {NoRow}]
  BY <1>4 DEF Typed, Measured, Shape
<1>6. /\ Measured(seen) /\ seen.tx = [stored.tx EXCEPT ![t] = NoRow]
      /\ seen.fee = stored.fee /\ seen.adj = stored.adj /\ seen.inj = stored.inj
      /\ seen.snap = stored.snap
  <2>1. Measured(seen)
    BY <1>5, NarrowedMeasured
  <2> QED
    BY <1>5, <2>1 DEF NoTx, Shape
<1> HIDE DEF seen
<1>7. seen.tx[t] = NoRow /\ seen.fee[t] = NoRow /\ stored.tx = [seen.tx EXCEPT ![t] = row]
  BY <1>4, <1>5, <1>6
<1>8. needed \in Int /\ held \in Int
  <2>1. Walked(seen, p, ts) \in Int /\ row.cash \in Int
    BY <1>6, WalkedParts, SlotOfRow
  <2>2. held \in Int
    BY <1>5 DEF Measured, InjTyped
  <2> HIDE DEF p, ts, held
  <2> QED
    BY <2>1, <2>2
<1>9. /\ Slot(row) \in DOMAIN seen.inj => held = seen.inj[Slot(row)]
      /\ Slot(row) \notin DOMAIN seen.inj => held = 0
  BY <1>6
<1>10. SnapsBefore(stored, p, ts) = {} /\ SnapsBefore(seen, p, ts) = {}
  BY <1>4, <1>6 DEF SnapsBefore, Snapshots
<1>11. Typed(funded)
  BY <1>4, <1>6, EnsureCashTyped
<1>12. /\ funded.tx = stored.tx /\ funded.snap = stored.snap /\ funded.adj = stored.adj
       /\ funded.fee = stored.fee /\ Shape(funded)
       /\ needed <= 0 => funded.inj = stored.inj
       /\ ~(needed <= 0) => funded.inj = With(stored.inj, Slot(row), held + needed)
  <2> HIDE DEF needed, held, funded
  <2> QED
    BY <1>5, <1>10, EnsuredTables DEF needed, held, funded
<1> HIDE DEF needed, held, funded
<1>13. Typed(linked)
  BY <1>4, <1>11, <1>12, RewriteTyped
<1>14. /\ linked.tx = funded.tx /\ linked.snap = funded.snap /\ linked.adj = funded.adj
       /\ linked.inj = funded.inj /\ linked.fee = funded.fee
  BY <1>12, LinkedTables
<1> HIDE DEF linked
<1>15. SnapsBefore(linked, p, ts) = {}
  BY <1>10, <1>12, <1>14 DEF SnapsBefore, Snapshots
<1>16. Measured(linked)
  BY <1>13 DEF Typed
<1>17. Walked(linked, p, ts) >= 0
  <2>1. /\ linked.tx = [seen.tx EXCEPT ![t] = row] /\ linked.fee = seen.fee /\ linked.adj = seen.adj
        /\ needed <= 0 => linked.inj = seen.inj
        /\ ~(needed <= 0) => linked.inj = With(seen.inj, Slot(row), held + needed)
    BY <1>6, <1>7, <1>12, <1>14
  <2>2. needed = row.cash - Walked(seen, row.pocket, row.ts)
    BY DEF needed
  <2> QED
    BY <1>6, <1>7, <1>8, <1>9, <1>16, <2>1, <2>2, FundedBalance
<1>18. ts \in Instants
  BY DEF TxRows
<1>19. Typed(here)
  BY <1>13, RecalculateTyped
<1>20. SnapsBefore(here, p, ts) = {} /\ Walked(here, p, ts) = Walked(linked, p, ts)
  BY <1>13, <1>15, <1>18, RecalculateQuiet
<1> HIDE DEF here
<1>21. /\ SnapsBefore(Recalculate(here, old.pocket, old.ts), p, ts) = {}
       /\ Walked(Recalculate(here, old.pocket, old.ts), p, ts) = Walked(here, p, ts)
  BY <1>18, <1>19, <1>20, RecalculateQuiet
<1> QED
  BY <1>1, <1>17, <1>20, <1>21

\* The balance the user sees after the request is the walk through its tables.
LEMMA CommittedBalance ==
    ASSUME NEW d, Typed(d), Commit(d), NEW p, NEW ts, SnapsBefore(d, p, ts) = {}
    PROVE  BalanceAt(DB', p, ts, TRUE) = Walked(d, p, ts)
<1>1. DB' = [tx |-> tx', snap |-> snap', adj |-> adj', inj |-> inj',
             link |-> link', dangling |-> dangling', fee |-> fee']
  BY DEF DB
<1>2. /\ DB'.tx = d.tx /\ DB'.snap = d.snap /\ DB'.adj = d.adj
      /\ DB'.inj = d.inj /\ DB'.fee = d.fee
  BY <1>1 DEF Commit
<1>3. SnapsBefore(DB', p, ts) = {}
  BY <1>2 DEF SnapsBefore, Snapshots
<1>4. BalanceAt(DB', p, ts, TRUE) = Walked(DB', p, ts)
  BY <1>3, WalkedIsBalance
<1>5. /\ AdjustedBefore(DB', p, ts + 1) = AdjustedBefore(d, p, ts + 1)
      /\ \A k \in AdjustedBefore(d, p, ts + 1) : DB'.adj[k].amount = d.adj[k].amount
  BY <1>2 DEF AdjustedBefore
<1>6. Walked(DB', p, ts) = Walked(d, p, ts)
  BY <1>2, <1>5, SameWalk DEF Typed
<1> QED
  BY <1>4, <1>6

\* A step of the property, for a transaction without a fee.
LEMMA StepFunded ==
    ASSUME PocketsFixed, DaysApart, Well(DB), Well(DB)', NEW t \in TxIds,
           NEW row, row = tx'[t], row # NoRow, IsSpend(row),
           SnapsBefore(DB, row.pocket, row.ts) = {},
           Create(t, row, "auto") \/ (fee[t] = NoRow /\ Update(t, row, "auto"))
    PROVE  BalanceAt(DB', row.pocket, row.ts, TRUE) >= 0
<1>1. row \in TxRows
  <2>1. tx' \in [TxIds -> TxRows \cup {NoRow}]
    <3>1. DB'.tx = tx'
      BY DEF DB
    <3>2. DB'.tx \in [TxIds -> TxRows \cup {NoRow}]
      BY DEF Well, Typed, Measured, Shape
    <3> QED
      BY <3>1, <3>2
  <2> QED
    BY <2>1
<1>2. Typed(DB) /\ Owned(DB)
  BY DEF Well
<1>3. CASE Create(t, row, "auto")
  <2> DEFINE e == Created(DB, t, row, "auto")
  <2>1. DB.tx[t] = NoRow /\ Commit(e)
    BY <1>3, Fields DEF Create, Fresh
  <2>2. DB.fee[t] = NoRow
    BY <1>2, <2>1 DEF Owned
  <2>3. SnapsBefore(e, row.pocket, row.ts) = {} /\ Walked(e, row.pocket, row.ts) >= 0
    BY <1>1, <1>2, <2>1, <2>2, CreatedFunded
  <2>4. Typed(e)
    BY <1>1, <1>2, CreatedTyped
  <2> HIDE DEF e
  <2> QED
    BY <2>1, <2>3, <2>4, CommittedBalance
<1>4. CASE fee[t] = NoRow /\ Update(t, row, "auto")
  <2> DEFINE e == Updated(DB, t, row, "auto")
  <2>1. DB.fee[t] = NoRow /\ Commit(e)
    BY <1>4, Fields DEF Update
  <2>2. SnapsBefore(e, row.pocket, row.ts) = {} /\ Walked(e, row.pocket, row.ts) >= 0
    BY <1>1, <1>2, <2>1, UpdatedFunded
  <2>3. Typed(e)
    BY <1>1, <1>2, UpdatedTyped
  <2> HIDE DEF e
  <2> QED
    BY <2>1, <2>2, <2>3, CommittedBalance
<1> QED
  BY <1>3, <1>4

\* A spend recorded under the smart default, or edited while it has no fee, in
\* a pocket with no snapshot before it, leaves the pocket at zero or above,
\* whatever injections, fees and adjustments the other rows of its day have
\* (_ensure_cash_for_spend).  Fees of other transactions are allowed.
THEOREM FeelessSpendsAreFunded ==
    ASSUME "resnapshot" \notin Ops \/ \A p, q \in Pockets : p = q,
           \A ts \in Instants, at \in SnapInstants : ts <= at => ts < AdjustmentTs(at)
    PROVE  Spec => [][\A t \in TxIds : LET row == tx'[t] IN
                        /\ row # NoRow
                        /\ IsSpend(row)
                        /\ SnapsBefore(DB, row.pocket, row.ts) = {}
                        /\ Create(t, row, "auto") \/ (fee[t] = NoRow /\ Update(t, row, "auto"))
                        => BalanceAt(DB', row.pocket, row.ts, TRUE) >= 0]_vars
<1> DEFINE Funds(t) == LET row == tx'[t] IN
                         /\ row # NoRow
                         /\ IsSpend(row)
                         /\ SnapsBefore(DB, row.pocket, row.ts) = {}
                         /\ Create(t, row, "auto") \/ (fee[t] = NoRow /\ Update(t, row, "auto"))
                         => BalanceAt(DB', row.pocket, row.ts, TRUE) >= 0
<1>1. PocketsFixed /\ DaysApart
  BY DEF PocketsFixed, DaysApart
<1>2. ASSUME Well(DB), Well(DB)'
      PROVE  \A t \in TxIds : Funds(t)
  BY <1>1, <1>2, StepFunded
<1> HIDE DEF Funds
<1>3. Well(DB) /\ Well(DB)' /\ [Next]_vars => [\A t \in TxIds : Funds(t)]_vars
  BY <1>2
<1>4. Spec => [][\A t \in TxIds : Funds(t)]_vars
  BY <1>3, SpecWell, PTL DEF Spec
<1> QED
  BY <1>4 DEF Funds

\* Without the endpoints that store fees, no transaction has one.
NoFees == \A t \in TxIds : DB.fee[t] = NoRow

LEMMA FeesKept ==
    ASSUME NEW d, d.fee = DB.fee, Commit(d), NoFees
    PROVE  NoFees'
<1>1. DB'.fee = fee' /\ fee' = d.fee
  BY DEF DB, Commit
<1> QED
  BY <1>1 DEF NoFees

LEMMA StepWithoutFees ==
    ASSUME "full" \notin Ops, "fee" \notin Ops, Well(DB), NoFees, Next
    PROVE  NoFees'
<1>0. Typed(DB) /\ Shape(DB)
  BY DEF Well, Typed, Measured
<1>1. ASSUME NEW t \in TxIds, TxNext(t)
      PROVE  NoFees'
  <2>0. ASSUME NEW row \in TxRows, NEW mode,
               NEW e \in {Created(DB, t, row, mode), Updated(DB, t, row, mode)}, Commit(e)
        PROVE  NoFees'
    <3>1. e.tx = [DB.tx EXCEPT ![t] = row] /\ e.fee = DB.fee
      BY <1>0, StoredRow
    <3> QED
      BY <2>0, <3>1, FeesKept
  <2>1. ASSUME NEW row \in TxRows, NEW mode, Create(t, row, mode) \/ Update(t, row, mode)
        PROVE  NoFees'
    BY <2>0, <2>1 DEF Create, Update
  <2>2. ASSUME Delete(t)
        PROVE  NoFees'
    BY <1>0, <2>2, DeletedTyped, FeesKept DEF Delete
  <2> QED
    BY <1>1, <2>1, <2>2 DEF TxNext
<1>2. ASSUME NEW t \in TxIds, FeeNext(t)
      PROVE  NoFees'
  BY <1>2 DEF FeeNext, CreateFull, UpdateFull, CreateFee, UpdateFee, DeleteFee
<1>3. ASSUME NEW s \in SnapIds, SnapNext(s)
      PROVE  NoFees'
  <2>0. ASSUME NEW d, Shape(d), NEW p, NEW r, NEW ts, NEW amount
        PROVE  SetAdjustment(d, p, r, ts, amount).fee = d.fee
    BY <2>0 DEF SetAdjustment, Shape
  <2>1. ASSUME NEW row, CreateSnapshot(s, row)
        PROVE  NoFees'
    <3> DEFINE d == [DB EXCEPT !.snap[s] = row]
               e == SetAdjustment(d, row.cur, s, row.ts,
                                  Reconciling(d, row.cur, s, row.ts, row.amount))
    <3>1. Commit(e)
      BY <2>1 DEF CreateSnapshot
    <3>2. Shape(d) /\ d.fee = DB.fee
      BY <1>0 DEF Shape
    <3> HIDE DEF d
    <3>3. e.fee = DB.fee
      BY <2>0, <3>2
    <3> HIDE DEF e
    <3> QED
      BY <3>1, <3>3, FeesKept
  <2>2. ASSUME NEW row, UpdateSnapshot(s, row)
        PROVE  NoFees'
    <3> DEFINE old == snap[s]
               bare == [DB EXCEPT !.adj = Without(adj, {<<s, old.cur>>})]
               rebuilt == SetAdjustment(bare, row.cur, s, row.ts,
                                        Reconciling(bare, row.cur, s, row.ts, row.amount))
               d == IF old.ts # row.ts \/ old.amount # row.amount THEN rebuilt ELSE DB
               e == [d EXCEPT !.snap[s] = row]
    <3>1. Commit(e)
      BY <2>2 DEF UpdateSnapshot
    <3>2. Shape(bare) /\ bare.fee = DB.fee
      BY <1>0 DEF Shape
    <3> HIDE DEF bare
    <3>3. rebuilt.fee = DB.fee /\ Shape(rebuilt)
      BY <2>0, <3>2, SetAdjustmentKeeps DEF SameSpends
    <3> HIDE DEF rebuilt
    <3>4. d.fee = DB.fee /\ Shape(d)
      BY <1>0, <3>3
    <3> HIDE DEF d
    <3>5. e.fee = DB.fee
      BY <3>4 DEF Shape
    <3> HIDE DEF e
    <3> QED
      BY <3>1, <3>5, FeesKept
  <2>3. ASSUME DeleteSnapshot(s)
        PROVE  NoFees'
    <3> DEFINE e == [DB EXCEPT !.adj = Without(adj, {<<s, snap[s].cur>>}), !.snap[s] = NoRow]
    <3>1. Commit(e)
      BY <2>3 DEF DeleteSnapshot
    <3>2. e.fee = DB.fee
      BY <1>0 DEF Shape
    <3> HIDE DEF e
    <3> QED
      BY <3>1, <3>2, FeesKept
  <2> QED
    BY <1>3, <2>1, <2>2, <2>3 DEF SnapNext
<1>4. ASSUME NEW slot, DeleteInjection(slot)
      PROVE  NoFees'
  BY <1>0, <1>4, StatementsKeepRows, FeesKept DEF DeleteInjection
<1>5. ASSUME NEW key, DeleteAdjustment(key)
      PROVE  NoFees'
  <2> DEFINE e == [DB EXCEPT !.adj = Without(adj, {key})]
  <2>1. Commit(e)
    BY <1>5 DEF DeleteAdjustment
  <2>2. e.fee = DB.fee
    BY <1>0 DEF Shape
  <2> HIDE DEF e
  <2> QED
    BY <2>1, <2>2, FeesKept
<1> QED
  BY <1>1, <1>2, <1>3, <1>4, <1>5 DEF Next, GeneratedNext

\* The same, as the run checks it: a spend recorded or edited under the smart
\* default, in a pocket with no snapshot before it, leaves the pocket at zero
\* or above.  A fee of the edited spend itself is on no side of what
\* _ensure_cash_for_spend measures, hence the hypothesis on the endpoints.  A
\* transaction between an adjustment and its snapshot would feel the refresh.
THEOREM SpendsAreFunded ==
    ASSUME "resnapshot" \notin Ops \/ \A p, q \in Pockets : p = q,
           \A ts \in Instants, at \in SnapInstants : ts <= at => ts < AdjustmentTs(at),
           "full" \notin Ops, "fee" \notin Ops
    PROVE  Spec => SpendsFunded
<1> DEFINE Funds(t) == LET row == tx'[t] IN
                         /\ row \notin {tx[t], NoRow}
                         /\ IsSpend(row)
                         /\ SnapsBefore(DB, row.pocket, row.ts) = {}
                         /\ Create(t, row, "auto") \/ Update(t, row, "auto")
                         => BalanceAt(DB', row.pocket, row.ts, TRUE) >= 0
<1>1. PocketsFixed /\ DaysApart
  BY DEF PocketsFixed, DaysApart
<1>2. Init => NoFees
  BY Fields DEF Init, NoFees
<1>3. Well(DB) /\ NoFees /\ [Next]_vars => NoFees'
  <2> SUFFICES ASSUME Well(DB), NoFees, [Next]_vars
               PROVE  NoFees'
    OBVIOUS
  <2>1. CASE UNCHANGED vars
    <3>1. DB' = DB
      BY <2>1 DEF vars, DB
    <3> QED
      BY <3>1 DEF NoFees
  <2> QED
    BY <2>1, StepWithoutFees
<1>4. Spec => []NoFees
  BY <1>2, <1>3, SpecWell, PTL DEF Spec
<1>5. ASSUME Well(DB), Well(DB)', NoFees
      PROVE  \A t \in TxIds : Funds(t)
  <2>1. \A t \in TxIds : fee[t] = NoRow
    BY <1>5, Fields DEF NoFees
  <2> QED
    BY <1>1, <1>5, <2>1, StepFunded
<1> HIDE DEF Funds
<1>6. Well(DB) /\ Well(DB)' /\ NoFees /\ [Next]_vars => [\A t \in TxIds : Funds(t)]_vars
  BY <1>5
<1>7. Spec => [][\A t \in TxIds : Funds(t)]_vars
  BY <1>4, <1>6, SpecWell, PTL DEF Spec
<1> QED
  BY <1>7 DEF Funds, SpendsFunded
-----------------------------------------------------------------------------
(* Snapshots land on their targets.                                        *)

OnePocket == \A p, q \in Pockets : p = q

\* Two sums that differ in one entry.
LEMMA EntryChange ==
    ASSUME NEW f, NEW g, NEW S, NEW T, NEW k, IsFiniteSet(S), IsFiniteSet(T),
           \A x \in S : f[x] \in Int, \A x \in T : g[x] \in Int,
           S \ {k} = T \ {k}, \A x \in S \ {k} : g[x] = f[x]
    PROVE  SumFunctionOnSet(g, T) = SumFunctionOnSet(f, S)
                                    + (IF k \in T THEN g[k] ELSE 0)
                                    - (IF k \in S THEN f[k] ELSE 0)
<1> DEFINE R == S \ {k}
           rest == SumFunctionOnSet(f, R)
<1>1. IsFiniteSet(R) /\ \A x \in R : f[x] \in Int /\ g[x] = f[x]
  BY FS_RemoveElement
<1>2. rest \in Int /\ SumFunctionOnSet(g, R) = rest
  BY <1>1, SumIsInt, SumOfSame
<1>3. /\ SumFunctionOnSet(f, S) = rest + (IF k \in S THEN f[k] ELSE 0)
      /\ k \in S => f[k] \in Int
  <2>1. CASE k \in S
    <3>1. SumFunctionOnSet(f, S) = f[k] + SumFunctionOnSet(f, R)
      BY <2>1, SumTakes
    <3> HIDE DEF R, rest
    <3>2. SumFunctionOnSet(f, R) = rest
      BY DEF rest
    <3> QED
      BY <1>2, <2>1, <3>1, <3>2
  <2>2. CASE k \notin S
    <3>1. R = S
      BY <2>2
    <3> HIDE DEF R
    <3> QED
      BY <1>2, <2>2, <3>1
  <2> QED
    BY <2>1, <2>2
<1>4. /\ SumFunctionOnSet(g, T) = rest + (IF k \in T THEN g[k] ELSE 0)
      /\ k \in T => g[k] \in Int
  <2>1. CASE k \in T
    <3>1. T \ {k} = R
      OBVIOUS
    <3>2. SumFunctionOnSet(g, T) = g[k] + SumFunctionOnSet(g, T \ {k})
      BY <2>1, SumTakes
    <3>3. SumFunctionOnSet(g, T \ {k}) = rest
      BY <1>2, <3>1
    <3>4. g[k] \in Int
      BY <2>1
    <3> HIDE DEF R, rest
    <3> QED
      BY <1>2, <2>1, <3>2, <3>3, <3>4
  <2>2. CASE k \notin T
    <3>1. R = T
      BY <2>2
    <3> HIDE DEF R, rest
    <3> QED
      BY <1>2, <2>2, <3>1
  <2> QED
    BY <2>1, <2>2
<1> HIDE DEF rest
<1> QED
  BY <1>2, <1>3, <1>4

\* What a walk to a snapshot at u counts: everything before u, or up to u.
Net(d, p, u, n) == FlowBefore(d, p, u + n) - FeeOut(d, p, u)

LEMMA NetParts ==
    ASSUME NEW d, Measured(d), NEW p, NEW u, NEW n
    PROVE  /\ Net(d, p, u, n) \in Int
           /\ Net(d, p, u, n) = SumFunctionOnSet(Moved(d), MovedBefore(d, p, u + n))
                                + SumFunctionOnSet(Adjusted(d), AdjustedBefore(d, p, u + n))
                                + SumFunctionOnSet(d.inj, InjectedBefore(d, p, u + n))
                                - FeeOut(d, p, u)
<1> DEFINE v == u + n
<1>1. Net(d, p, u, n) = FlowBefore(d, p, v) - FeeOut(d, p, u)
  BY DEF Net
<1> HIDE DEF v
<1>2. FeeOut(d, p, u) \in Int /\ FlowBefore(d, p, v) \in Int
      /\ SumFunctionOnSet(Moved(d), MovedBefore(d, p, v)) \in Int
      /\ SumFunctionOnSet(Adjusted(d), AdjustedBefore(d, p, v)) \in Int
      /\ SumFunctionOnSet(d.inj, InjectedBefore(d, p, v)) \in Int
  BY FeeOutIsInt, FlowPartsAreInt
<1>3. FlowBefore(d, p, v) = SumFunctionOnSet(Moved(d), MovedBefore(d, p, v))
                            + SumFunctionOnSet(Adjusted(d), AdjustedBefore(d, p, v))
                            + SumFunctionOnSet(d.inj, InjectedBefore(d, p, v))
  BY FlowParts
<1>4. Net(d, p, u, n) = SumFunctionOnSet(Moved(d), MovedBefore(d, p, v))
                        + SumFunctionOnSet(Adjusted(d), AdjustedBefore(d, p, v))
                        + SumFunctionOnSet(d.inj, InjectedBefore(d, p, v)) - FeeOut(d, p, u)
  BY <1>1, <1>2, <1>3
<1>5. Net(d, p, u, n) \in Int
  BY <1>1, <1>2
<1> QED
  BY <1>4, <1>5 DEF v

\* From d to e, everything pocket p moved before the snapshots after instant x
\* changes by c, and nothing else does.
Shifted(d, e, p, x, c) ==
    /\ c \in Int
    /\ e.snap = d.snap
    /\ \A q \in Pockets, u \in SnapInstants, n \in {0, 1} :
         Net(e, q, u, n) = Net(d, q, u, n) + (IF q = p /\ x < u THEN c ELSE 0)

Shifts(d, e, p, x) == \E c \in Int : Shifted(d, e, p, x, c)

\* No snapshot is taken at instant x.
Clear(x) == x \in Int /\ \A u \in SnapInstants : x # u

LEMMA ClearBefore ==
    ASSUME NEW x, Clear(x), NEW u \in SnapInstants, NEW n \in {0, 1}
    PROVE  /\ u \in Int /\ u + n \in Int
           /\ x < u + n <=> x < u
           /\ x <= u <=> x < u
<1>1. u \in Int /\ x \in Int /\ x # u
  BY LedgerAssumption DEF Clear
<1> QED
  BY <1>1

LEMMA ShiftsSame ==
    ASSUME NEW d, Measured(d), NEW e, e.tx = d.tx, e.adj = d.adj, e.inj = d.inj, e.fee = d.fee,
           NEW p, NEW u, NEW n
    PROVE  Net(e, p, u, n) = Net(d, p, u, n)
<1>1. /\ Moved(e) = Moved(d) /\ MovedBefore(e, p, u + n) = MovedBefore(d, p, u + n)
      /\ Adjusted(e) = Adjusted(d) /\ AdjustedBefore(e, p, u + n) = AdjustedBefore(d, p, u + n)
      /\ InjectedBefore(e, p, u + n) = InjectedBefore(d, p, u + n)
  BY DEF Moved, MovedBefore, Adjusted, AdjustedBefore, InjectedBefore, Live
<1>2. FlowBefore(e, p, u + n) = FlowBefore(d, p, u + n)
  BY <1>1, FlowParts
<1>3. FeeOut(e, p, u) = FeeOut(d, p, u)
  BY DEF FeeOut, Live
<1> QED
  BY <1>2, <1>3 DEF Net

LEMMA ShiftsMove ==
    ASSUME NEW d, NEW e, NEW p, NEW x, NEW y, Shifts(d, e, p, x),
           \A u \in SnapInstants : x < u <=> y < u
    PROVE  Shifts(d, e, p, y)
<1>1. PICK c \in Int : Shifted(d, e, p, x, c)
  BY DEF Shifts
<1>2. Shifted(d, e, p, y, c)
  BY <1>1 DEF Shifted
<1> QED
  BY <1>2 DEF Shifts

\* Two tables that differ in one row at most.
SameBut(f, g, k) ==
    DOMAIN g \ {k} = DOMAIN f \ {k} /\ \A j \in DOMAIN f \ {k} : g[j] = f[j]

\* An injection in the slot of x, raised, lowered or dropped.
LEMMA InjShift ==
    ASSUME NEW d, Measured(d), NEW e, Measured(e),
           e.tx = d.tx, e.snap = d.snap, e.adj = d.adj, e.fee = d.fee,
           NEW k \in Slots, Clear(k[2]), SameBut(d.inj, e.inj, k)
    PROVE  Shifts(d, e, k[1], k[2])
<1> DEFINE p == k[1]
           x == k[2]
           old == IF k \in DOMAIN d.inj THEN d.inj[k] ELSE 0
           new == IF k \in DOMAIN e.inj THEN e.inj[k] ELSE 0
<1>1. /\ \A j \in DOMAIN d.inj : d.inj[j] \in Int
      /\ \A j \in DOMAIN e.inj : e.inj[j] \in Int
  BY DEF Measured, InjTyped
<1>2. old \in Int /\ new \in Int
  BY <1>1
<1>3. ASSUME NEW q \in Pockets, NEW u \in SnapInstants, NEW n \in {0, 1}
      PROVE  Net(e, q, u, n) = Net(d, q, u, n) + (IF q = p /\ x < u THEN new - old ELSE 0)
  <2> DEFINE v == u + n
             hit == q = p /\ x < u
             S == InjectedBefore(d, q, v)
             T == InjectedBefore(e, q, v)
             moved(f) == SumFunctionOnSet(Moved(f), MovedBefore(f, q, v))
             adjusted(f) == SumFunctionOnSet(Adjusted(f), AdjustedBefore(f, q, v))
             injected(f) == SumFunctionOnSet(f.inj, InjectedBefore(f, q, v))
  <2>1. x < v <=> x < u
    BY ClearBefore
  <2>2. /\ k \in S <=> k \in DOMAIN d.inj /\ hit
        /\ k \in T <=> k \in DOMAIN e.inj /\ hit
    BY <2>1 DEF InjectedBefore
  <2>3. S \ {k} = T \ {k} /\ \A j \in S \ {k} : e.inj[j] = d.inj[j]
    BY DEF InjectedBefore, SameBut
  <2>4. /\ IsFiniteSet(S) /\ IsFiniteSet(T) /\ injected(d) \in Int
        /\ moved(d) \in Int /\ adjusted(d) \in Int
    BY FlowPartsAreInt
  <2>5. (\A j \in S : d.inj[j] \in Int) /\ (\A j \in T : e.inj[j] \in Int)
    BY <1>1 DEF InjectedBefore
  <2>6. moved(e) = moved(d) /\ adjusted(e) = adjusted(d)
    BY DEF Moved, MovedBefore, Live, Adjusted, AdjustedBefore
  <2>7. FeeOut(e, q, u) = FeeOut(d, q, u) /\ FeeOut(d, q, u) \in Int
    <3>1. FeeOut(e, q, u) = FeeOut(d, q, u)
      BY DEF FeeOut, Live
    <3>2. FeeOut(d, q, u) \in Int
      BY FeeOutIsInt
    <3> QED
      BY <3>1, <3>2
  <2>8. /\ Net(d, q, u, n) = moved(d) + adjusted(d) + injected(d) - FeeOut(d, q, u)
        /\ Net(e, q, u, n) = moved(e) + adjusted(e) + injected(e) - FeeOut(e, q, u)
    BY NetParts
  <2> HIDE DEF S, T, hit, v
  <2>9. SumFunctionOnSet(e.inj, T) = SumFunctionOnSet(d.inj, S)
          + (IF k \in T THEN e.inj[k] ELSE 0) - (IF k \in S THEN d.inj[k] ELSE 0)
    BY <2>3, <2>4, <2>5, EntryChange
  <2>10. injected(e) = injected(d) + (IF hit THEN new - old ELSE 0)
    <3>1. injected(d) = SumFunctionOnSet(d.inj, S) /\ injected(e) = SumFunctionOnSet(e.inj, T)
      BY DEF S, T
    <3> HIDE DEF injected
    <3>2. CASE hit
      <4>1. /\ (IF k \in T THEN e.inj[k] ELSE 0) = new
            /\ (IF k \in S THEN d.inj[k] ELSE 0) = old
        BY <2>2, <3>2
      <4> HIDE DEF new, old
      <4> QED
        BY <1>2, <2>4, <2>9, <3>1, <3>2, <4>1
    <3>3. CASE ~hit
      BY <2>2, <2>4, <2>9, <3>1, <3>3
    <3> QED
      BY <3>2, <3>3
  <2> HIDE DEF moved, adjusted, injected, new, old
  <2>11. Net(e, q, u, n) = Net(d, q, u, n) + (IF hit THEN new - old ELSE 0)
    BY <1>2, <2>4, <2>6, <2>7, <2>8, <2>10
  <2> QED
    BY <2>11 DEF hit
<1> HIDE DEF new, old
<1>4. new - old \in Int /\ Shifted(d, e, p, x, new - old)
  BY <1>2, <1>3 DEF Shifted
<1> HIDE DEF p, x
<1>5. Shifts(d, e, p, x)
  BY <1>4 DEF Shifts
<1> QED
  BY <1>5 DEF p, x

\* What an adjustment adds, where there is one.
Amount(a, k) == IF k \in DOMAIN a THEN a[k].amount ELSE 0

StandsAt(a, k, x) == k \in DOMAIN a => a[k].ts = x

\* The adjustment of a snapshot, stored, changed or left out: by how much.
LEMMA AdjShifted ==
    ASSUME NEW d, Measured(d), NEW e, Measured(e),
           e.tx = d.tx, e.snap = d.snap, e.inj = d.inj, e.fee = d.fee,
           NEW k \in SnapIds \X Pockets, NEW x, Clear(x),
           SameBut(d.adj, e.adj, k), StandsAt(d.adj, k, x), StandsAt(e.adj, k, x)
    PROVE  Shifted(d, e, k[2], x, Amount(e.adj, k) - Amount(d.adj, k))
<1> DEFINE p == k[2]
           old == Amount(d.adj, k)
           new == Amount(e.adj, k)
<1>1. /\ \A j \in DOMAIN d.adj : d.adj[j].amount \in Int
      /\ \A j \in DOMAIN e.adj : e.adj[j].amount \in Int
  BY DEF Measured, AdjTyped
<1>2. old \in Int /\ new \in Int
  BY <1>1 DEF Amount
<1>3. ASSUME NEW q \in Pockets, NEW u \in SnapInstants, NEW n \in {0, 1}
      PROVE  Net(e, q, u, n) = Net(d, q, u, n) + (IF q = p /\ x < u THEN new - old ELSE 0)
  <2> DEFINE v == u + n
             hit == q = p /\ x < u
             f == Adjusted(d)
             g == Adjusted(e)
             S == AdjustedBefore(d, q, v)
             T == AdjustedBefore(e, q, v)
             moved(c) == SumFunctionOnSet(Moved(c), MovedBefore(c, q, v))
             adjusted(c) == SumFunctionOnSet(Adjusted(c), AdjustedBefore(c, q, v))
             injected(c) == SumFunctionOnSet(c.inj, InjectedBefore(c, q, v))
  <2>1. x < v <=> x < u
    BY ClearBefore
  <2>2. /\ k \in S <=> k \in DOMAIN d.adj /\ hit
        /\ k \in T <=> k \in DOMAIN e.adj /\ hit
    BY <2>1 DEF AdjustedBefore, StandsAt
  <2>3. S \ {k} = T \ {k}
    BY DEF AdjustedBefore, SameBut
  <2>4. \A j \in S \ {k} : g[j] = f[j]
    <3>1. \A j \in S \ {k} : j \in DOMAIN d.adj \ {k} /\ j \in DOMAIN e.adj
      BY DEF AdjustedBefore, SameBut
    <3> QED
      BY <3>1 DEF Adjusted, SameBut
  <2>5. /\ IsFiniteSet(S) /\ IsFiniteSet(T) /\ injected(d) \in Int
        /\ moved(d) \in Int /\ adjusted(d) \in Int
    BY FlowPartsAreInt
  <2>6. (\A j \in S : f[j] \in Int) /\ (\A j \in T : g[j] \in Int)
    BY <1>1 DEF AdjustedBefore, Adjusted
  <2>7. moved(e) = moved(d) /\ injected(e) = injected(d)
    BY DEF Moved, MovedBefore, Live, InjectedBefore
  <2>8. FeeOut(e, q, u) = FeeOut(d, q, u) /\ FeeOut(d, q, u) \in Int
    <3>1. FeeOut(e, q, u) = FeeOut(d, q, u)
      BY DEF FeeOut, Live
    <3>2. FeeOut(d, q, u) \in Int
      BY FeeOutIsInt
    <3> QED
      BY <3>1, <3>2
  <2>9. /\ Net(d, q, u, n) = moved(d) + adjusted(d) + injected(d) - FeeOut(d, q, u)
        /\ Net(e, q, u, n) = moved(e) + adjusted(e) + injected(e) - FeeOut(e, q, u)
    BY NetParts
  <2>10. (k \in DOMAIN d.adj => f[k] = old) /\ (k \in DOMAIN e.adj => g[k] = new)
    BY DEF Adjusted, Amount
  <2>a. (k \notin DOMAIN d.adj => old = 0) /\ (k \notin DOMAIN e.adj => new = 0)
    BY DEF Amount
  <2>11. adjusted(d) = SumFunctionOnSet(f, S) /\ adjusted(e) = SumFunctionOnSet(g, T)
    OBVIOUS
  <2> HIDE DEF S, T, hit, v, f, g, moved, adjusted, injected
  <2>12. SumFunctionOnSet(g, T) = SumFunctionOnSet(f, S)
          + (IF k \in T THEN g[k] ELSE 0) - (IF k \in S THEN f[k] ELSE 0)
    BY <2>3, <2>4, <2>5, <2>6, EntryChange
  <2>13. adjusted(e) = adjusted(d) + (IF hit THEN new - old ELSE 0)
    <3>1. CASE hit
      <4>1. /\ (IF k \in T THEN g[k] ELSE 0) = new
            /\ (IF k \in S THEN f[k] ELSE 0) = old
        BY <2>2, <2>10, <2>a, <3>1
      <4> HIDE DEF old, new
      <4> QED
        BY <1>2, <2>5, <2>11, <2>12, <3>1, <4>1
    <3>2. CASE ~hit
      BY <2>2, <2>5, <2>11, <2>12, <3>2
    <3> QED
      BY <3>1, <3>2
  <2>14. Net(e, q, u, n) = Net(d, q, u, n) + (IF hit THEN new - old ELSE 0)
    BY <1>2, <2>5, <2>7, <2>8, <2>9, <2>13
  <2> QED
    BY <2>14 DEF hit
<1> HIDE DEF old, new
<1>4. Shifted(d, e, p, x, new - old)
  BY <1>2, <1>3 DEF Shifted
<1> QED
  BY <1>4 DEF old, new

\* What the fees take changes with the rows of one transaction, from its
\* instant on.
LEMMA FeeShifted ==
    ASSUME NEW d, Measured(d), NEW e, Measured(e), NEW t \in TxIds,
           \A v \in TxIds \ {t} : e.tx[v] = d.tx[v] /\ e.fee[v] = d.fee[v],
           NEW p, NEW x, Clear(x),
           d.tx[t] # NoRow => d.tx[t].ts = x, e.tx[t] # NoRow => e.tx[t].ts = x
    PROVE  \E c \in Int : \A u \in SnapInstants :
             FeeOut(e, p, u) = FeeOut(d, p, u) + (IF x < u THEN c ELSE 0)
<1> DEFINE f == Charged(d, p)
           g == Charged(e, p)
           F == {v \in Live(d) : d.fee[v] # NoRow}
           G == {v \in Live(e) : e.fee[v] # NoRow}
           old == IF t \in F THEN f[t] ELSE 0
           new == IF t \in G THEN g[t] ELSE 0
           free == MainCurrency \notin {NoCurrency, p}
           c == IF free THEN 0 ELSE new - old
<1>1. F \ {t} = G \ {t} /\ F \subseteq TxIds /\ G \subseteq TxIds
  BY DEF Live
<1>2. \A v \in F \ {t} : v \in G /\ g[v] = f[v]
  BY <1>1 DEF Charged
<1>3. (\A v \in F : f[v] \in Int) /\ (\A v \in G : g[v] \in Int)
  <2>1. (\A v \in F : d.fee[v] \in FeeRows) /\ (\A v \in G : e.fee[v] \in FeeRows)
    BY <1>1 DEF Measured
  <2> QED
    BY <2>1, ChargeIsInt DEF Charged
<1>4. old \in Int /\ new \in Int
  BY <1>3
<1>5. c \in Int
  BY <1>4
<1>6. ASSUME NEW u \in SnapInstants
      PROVE  FeeOut(e, p, u) = FeeOut(d, p, u) + (IF x < u THEN c ELSE 0)
  <2> DEFINE S == ChargedBy(d, u)
             T == ChargedBy(e, u)
  <2>1. x <= u <=> x < u
    BY ClearBefore
  <2>2. S \subseteq F /\ T \subseteq G
    BY DEF ChargedBy
  <2>3. /\ t \in S <=> t \in F /\ x < u
        /\ t \in T <=> t \in G /\ x < u
    <3>1. (t \in F => d.tx[t].ts = x) /\ (t \in G => e.tx[t].ts = x)
      BY DEF Live
    <3> QED
      BY <2>1, <3>1 DEF ChargedBy
  <2>4. S \ {t} = T \ {t}
    BY <1>1 DEF ChargedBy
  <2>5. \A v \in S \ {t} : g[v] = f[v]
    BY <1>2, <2>2
  <2>6. (\A v \in S : f[v] \in Int) /\ (\A v \in T : g[v] \in Int)
    BY <1>3, <2>2
  <2>7. IsFiniteSet(S) /\ IsFiniteSet(T)
    BY FeeOutIsInt
  <2>8. /\ FeeOut(d, p, u) = IF free THEN 0 ELSE SumFunctionOnSet(f, S)
        /\ FeeOut(e, p, u) = IF free THEN 0 ELSE SumFunctionOnSet(g, T)
    BY FeeOutIsInt
  <2> HIDE DEF S, T, f, g, F, G, free
  <2>9. SumFunctionOnSet(g, T) = SumFunctionOnSet(f, S)
          + (IF t \in T THEN g[t] ELSE 0) - (IF t \in S THEN f[t] ELSE 0)
    BY <2>4, <2>5, <2>6, <2>7, EntryChange
  <2>10. SumFunctionOnSet(f, S) \in Int
    BY <2>6, <2>7, SumIsInt
  <2>11. /\ (IF t \in T THEN g[t] ELSE 0) = IF x < u THEN new ELSE 0
         /\ (IF t \in S THEN f[t] ELSE 0) = IF x < u THEN old ELSE 0
    BY <2>3
  <2> HIDE DEF new, old
  <2>12. SumFunctionOnSet(g, T) = SumFunctionOnSet(f, S) + (IF x < u THEN new - old ELSE 0)
    BY <1>4, <2>9, <2>10, <2>11
  <2> QED
    BY <1>4, <2>8, <2>10, <2>12
<1> QED
  BY <1>5, <1>6

\* The rows of one transaction, stored, removed or rewritten in one pocket at
\* one instant.
LEMMA RowShift ==
    ASSUME NEW d, Measured(d), NEW e, Measured(e), NEW t \in TxIds,
           e.snap = d.snap, e.adj = d.adj, e.inj = d.inj,
           \A v \in TxIds \ {t} : e.tx[v] = d.tx[v] /\ e.fee[v] = d.fee[v],
           NEW p \in Pockets, NEW x, Clear(x),
           d.tx[t] # NoRow => d.tx[t].pocket = p /\ d.tx[t].ts = x,
           e.tx[t] # NoRow => e.tx[t].pocket = p /\ e.tx[t].ts = x,
           OnePocket \/ (d.fee[t] = NoRow /\ e.fee[t] = NoRow)
    PROVE  Shifts(d, e, p, x)
<1> DEFINE f == Moved(d)
           g == Moved(e)
           old == IF t \in Live(d) THEN f[t] ELSE 0
           new == IF t \in Live(e) THEN g[t] ELSE 0
<1>0. \A q \in Pockets : OnePocket => q = p
  BY DEF OnePocket
<1>1. /\ Live(d) \ {t} = Live(e) \ {t}
      /\ \A v \in Live(d) \ {t} : v \in Live(e) /\ g[v] = f[v] /\ e.tx[v] = d.tx[v]
      /\ t \in Live(d) => d.tx[t].pocket = p /\ d.tx[t].ts = x
      /\ t \in Live(e) => e.tx[t].pocket = p /\ e.tx[t].ts = x
  BY DEF Live, Moved
<1>2. (\A v \in Live(d) : f[v] \in Int) /\ (\A v \in Live(e) : g[v] \in Int)
  <2>1. Shape(d) /\ Shape(e)
    BY DEF Measured
  <2> QED
    BY <2>1, LiveRows DEF Moved
<1>3. old \in Int /\ new \in Int
  BY <1>2
<1>4. PICK c \in Int : \A u \in SnapInstants :
        FeeOut(e, p, u) = FeeOut(d, p, u) + (IF x < u THEN c ELSE 0)
  BY FeeShifted
<1>5. ASSUME NEW q \in Pockets, q # p, NEW u
      PROVE  FeeOut(e, q, u) = FeeOut(d, q, u)
  <2>1. d.fee[t] = NoRow /\ e.fee[t] = NoRow
    BY <1>0, <1>5
  <2>2. {v \in Live(e) : e.fee[v] # NoRow} = {v \in Live(d) : d.fee[v] # NoRow}
    BY <2>1 DEF Live
  <2>3. \A v \in {w \in Live(d) : d.fee[w] # NoRow} : e.tx[v] = d.tx[v] /\ e.fee[v] = d.fee[v]
    BY <2>1 DEF Live
  <2>4. Charged(e, q) = Charged(d, q)
    BY <2>2, <2>3 DEF Charged
  <2>5. ChargedBy(e, u) = ChargedBy(d, u)
    BY <2>2, <2>3 DEF ChargedBy
  <2> QED
    BY <2>4, <2>5, FeeOutIsInt
<1>6. ASSUME NEW q \in Pockets, NEW u \in SnapInstants, NEW n \in {0, 1}
      PROVE  Net(e, q, u, n) = Net(d, q, u, n) + (IF q = p /\ x < u THEN new - old - c ELSE 0)
  <2> DEFINE v == u + n
             hit == q = p /\ x < u
             S == MovedBefore(d, q, v)
             T == MovedBefore(e, q, v)
             moved(b) == SumFunctionOnSet(Moved(b), MovedBefore(b, q, v))
             adjusted(b) == SumFunctionOnSet(Adjusted(b), AdjustedBefore(b, q, v))
             injected(b) == SumFunctionOnSet(b.inj, InjectedBefore(b, q, v))
  <2>1. x < v <=> x < u
    BY ClearBefore
  <2>2. /\ t \in S <=> t \in Live(d) /\ hit
        /\ t \in T <=> t \in Live(e) /\ hit
    BY <1>1, <2>1 DEF MovedBefore
  <2>3. S \ {t} = T \ {t} /\ S \subseteq Live(d) /\ T \subseteq Live(e)
    BY <1>1 DEF MovedBefore
  <2>4. \A j \in S \ {t} : g[j] = f[j]
    BY <1>1, <2>3
  <2>5. /\ IsFiniteSet(S) /\ IsFiniteSet(T) /\ injected(d) \in Int
        /\ moved(d) \in Int /\ adjusted(d) \in Int
    BY FlowPartsAreInt
  <2>6. (\A j \in S : f[j] \in Int) /\ (\A j \in T : g[j] \in Int)
    BY <1>2, <2>3
  <2>7. adjusted(e) = adjusted(d) /\ injected(e) = injected(d)
    BY DEF Adjusted, AdjustedBefore, InjectedBefore
  <2>8. FeeOut(d, q, u) \in Int
    BY FeeOutIsInt
  <2>9. FeeOut(e, q, u) = FeeOut(d, q, u) + (IF hit THEN c ELSE 0)
    <3>1. CASE q = p
      BY <1>4, <3>1
    <3>2. CASE q # p
      BY <1>5, <2>8, <3>2
    <3> QED
      BY <3>1, <3>2
  <2>10. /\ Net(d, q, u, n) = moved(d) + adjusted(d) + injected(d) - FeeOut(d, q, u)
         /\ Net(e, q, u, n) = moved(e) + adjusted(e) + injected(e) - FeeOut(e, q, u)
    BY NetParts
  <2>11. moved(d) = SumFunctionOnSet(f, S) /\ moved(e) = SumFunctionOnSet(g, T)
    OBVIOUS
  <2> HIDE DEF S, T, hit, v, f, g, moved, adjusted, injected
  <2>12. SumFunctionOnSet(g, T) = SumFunctionOnSet(f, S)
          + (IF t \in T THEN g[t] ELSE 0) - (IF t \in S THEN f[t] ELSE 0)
    BY <2>3, <2>4, <2>5, <2>6, EntryChange
  <2>13. /\ (IF t \in T THEN g[t] ELSE 0) = IF hit THEN new ELSE 0
         /\ (IF t \in S THEN f[t] ELSE 0) = IF hit THEN old ELSE 0
    BY <2>2
  <2> HIDE DEF new, old
  <2>14. moved(e) = moved(d) + (IF hit THEN new - old ELSE 0)
    BY <1>3, <2>5, <2>11, <2>12, <2>13
  <2>15. Net(e, q, u, n) = Net(d, q, u, n) + (IF hit THEN new - old - c ELSE 0)
    BY <1>3, <2>5, <2>7, <2>8, <2>9, <2>10, <2>14
  <2> QED
    BY <2>15 DEF hit
<1> HIDE DEF new, old
<1>7. new - old - c \in Int /\ Shifted(d, e, p, x, new - old - c)
  BY <1>3, <1>6 DEF Shifted
<1> QED
  BY <1>7 DEF Shifts

-----------------------------------------------------------------------------
(* A shift is felt by the first snapshot after it only: the later ones     *)
(* count from a snapshot that is after it too.                             *)

\* Two snapshots of a pocket never share an instant.
Distinct(rows) ==
    \A r, s \in SnapIds :
      rows[r] # NoRow /\ rows[s] # NoRow /\ rows[r].cur = rows[s].cur /\ rows[r].ts = rows[s].ts
        => r = s

Landed(d, s) ==
    d.snap[s] # NoRow => BalanceAt(d, d.snap[s].cur, d.snap[s].ts, TRUE) = d.snap[s].amount

LandedBut(d, S) == \A s \in SnapIds \ S : Landed(d, s)

\* The snapshot _recalculate_adjustments refreshes.
Touched(d, p, x) ==
    IF SnapsAfter(d, p, x) = {} THEN {} ELSE {Earliest(d, SnapsAfter(d, p, x))}

LEMMA BalanceParts ==
    ASSUME NEW d, NEW p, NEW u
    PROVE  BalanceAt(d, p, u, TRUE) =
             IF SnapsBefore(d, p, u) = {} THEN Net(d, p, u, 1)
             ELSE LET s == d.snap[Latest(d, SnapsBefore(d, p, u))]
                  IN  s.amount + FlowBefore(d, p, u) - FlowBefore(d, p, s.ts)
                      - (FeeOut(d, p, u) - FeeOut(d, p, s.ts))
BY DEF BalanceAt, Net

\* From a snapshot before it.
LEMMA BalanceFrom ==
    ASSUME NEW d, Measured(d), NEW p, NEW u, u \in Int, SnapsBefore(d, p, u) # {},
           NEW l, l = d.snap[Latest(d, SnapsBefore(d, p, u))]
    PROVE  /\ BalanceAt(d, p, u, TRUE) = l.amount + Net(d, p, u, 0) - Net(d, p, l.ts, 0)
           /\ l.amount \in Int /\ l.ts \in SnapInstants /\ l.ts \in Int
<1> DEFINE S == SnapsBefore(d, p, u)
<1>1. S \subseteq Snapshots(d, p)
  BY DEF SnapsBefore
<1>2. Latest(d, S) \in S
  <2> HIDE DEF S
  <2> QED
    BY <1>1, LatestExists DEF S
<1>3. l.amount \in Int /\ l.ts \in SnapInstants /\ l.ts \in Int
  BY <1>1, <1>2, SnapshotRows
<1>4. BalanceAt(d, p, u, TRUE) = l.amount + FlowBefore(d, p, u) - FlowBefore(d, p, l.ts)
                                 - (FeeOut(d, p, u) - FeeOut(d, p, l.ts))
  BY BalanceParts
<1>5. u + 0 = u /\ l.ts + 0 = l.ts
  BY <1>3
<1> DEFINE flow(v) == FlowBefore(d, p, v)
           out(v) == FeeOut(d, p, v)
           net(v) == Net(d, p, v, 0)
           start == l.amount
           balance == BalanceAt(d, p, u, TRUE)
<1>6. flow(u) \in Int /\ out(u) \in Int /\ flow(l.ts) \in Int /\ out(l.ts) \in Int
  BY FlowPartsAreInt, FeeOutIsInt
<1>7. net(u) = flow(u) - out(u) /\ net(l.ts) = flow(l.ts) - out(l.ts)
  BY <1>5 DEF Net
<1>8. balance = start + flow(u) - flow(l.ts) - (out(u) - out(l.ts)) /\ start \in Int
  BY <1>3, <1>4
<1> HIDE DEF S, flow, out, net, start, balance
<1>9. balance = start + net(u) - net(l.ts)
  BY <1>6, <1>7, <1>8
<1> QED
  BY <1>3, <1>9 DEF net, start, balance

LEMMA ShiftLands ==
    ASSUME NEW d, Measured(d), NEW e, Measured(e), Distinct(d.snap), NEW p, NEW x, x \in Int,
           Shifts(d, e, p, x), NEW S, LandedBut(d, S)
    PROVE  LandedBut(e, S \cup Touched(d, p, x))
<1> SUFFICES ASSUME NEW s \in SnapIds \ (S \cup Touched(d, p, x)), e.snap[s] # NoRow
             PROVE  BalanceAt(e, e.snap[s].cur, e.snap[s].ts, TRUE) = e.snap[s].amount
  BY DEF LandedBut, Landed
<1> DEFINE q == d.snap[s].cur
           u == d.snap[s].ts
           before == SnapsBefore(d, q, u)
           l == d.snap[Latest(d, before)]
<1>1. PICK c \in Int : Shifted(d, e, p, x, c)
  BY DEF Shifts
<1>2. e.snap = d.snap /\ s \in Snapshots(d, q)
  BY <1>1 DEF Shifted, Snapshots
<1>3. u \in SnapInstants /\ u \in Int /\ q \in Pockets
  <2>1. d.snap[s] \in SnapRows
    BY <1>2, SnapshotRows
  <2> QED
    BY <1>2, <2>1, SnapshotRows DEF SnapRows
<1>4. BalanceAt(d, q, u, TRUE) = d.snap[s].amount
  BY <1>2 DEF LandedBut, Landed
<1>5. /\ SnapsBefore(e, q, u) = before
      /\ e.snap[Latest(e, before)] = l
  BY <1>2 DEF SnapsBefore, Snapshots, Latest
<1>6. before \subseteq Snapshots(d, q)
  BY DEF SnapsBefore
<1>7. \A v \in SnapInstants, n \in {0, 1} :
        /\ Net(e, q, v, n) = Net(d, q, v, n) + (IF q = p /\ x < v THEN c ELSE 0)
        /\ Net(d, q, v, n) \in Int
  BY <1>1, <1>3, NetParts DEF Shifted
<1> HIDE DEF before
<1>8. before # {} => /\ Latest(d, before) \in before
                     /\ \A r \in before : d.snap[r].ts <= l.ts
  BY <1>6, LatestExists
<1>9. ASSUME q = p, x < u
      PROVE  before # {} /\ x < l.ts
  <2> DEFINE A == SnapsAfter(d, p, x)
             r == Earliest(d, A)
  <2>1. s \in A /\ A \subseteq Snapshots(d, p)
    BY <1>2, <1>9 DEF SnapsAfter
  <2>2. A # {} /\ Touched(d, p, x) = {r}
    BY <2>1 DEF Touched
  <2> HIDE DEF A
  <2>3. r \in A /\ d.snap[r].ts <= u
    BY <2>1, <2>2, LatestExists
  <2>4. r # s
    BY <2>2
  <2>5. /\ r \in SnapIds /\ d.snap[r] # NoRow /\ d.snap[r].cur = q /\ d.snap[r].ts \in Int
        /\ x < d.snap[r].ts
    <3>1. r \in Snapshots(d, p) /\ d.snap[r].ts > x
      BY <2>3 DEF A, SnapsAfter
    <3>2. d.snap[r].ts \in Int
      BY <3>1, SnapshotRows
    <3> QED
      BY <1>9, <3>1, <3>2 DEF Snapshots
  <2>6. d.snap[r].ts # u
    BY <1>2, <2>4, <2>5 DEF Distinct, Snapshots
  <2>7. r \in before
    <3>1. d.snap[r].ts < u
      BY <1>3, <2>3, <2>5, <2>6
    <3> QED
      BY <2>5, <3>1 DEF before, SnapsBefore, Snapshots
  <2>8. l.ts \in Int
    <3>1. Latest(d, before) \in Snapshots(d, q)
      BY <1>6, <1>8, <2>7
    <3> QED
      BY <3>1, SnapshotRows
  <2>9. d.snap[r].ts <= l.ts
    BY <1>8, <2>7
  <2> HIDE DEF l, r
  <2> QED
    BY <2>5, <2>7, <2>8, <2>9
<1>10. CASE before = {}
  <2>0. SnapsBefore(d, q, u) = {} /\ SnapsBefore(e, q, u) = {}
    BY <1>5, <1>10 DEF before
  <2>1. BalanceAt(d, q, u, TRUE) = Net(d, q, u, 1) /\ BalanceAt(e, q, u, TRUE) = Net(e, q, u, 1)
    BY <2>0, BalanceParts
  <2>2. Net(e, q, u, 1) = Net(d, q, u, 1)
    BY <1>3, <1>7, <1>9, <1>10
  <2> QED
    BY <1>2, <1>4, <2>1, <2>2
<1>11. CASE before # {}
  <2>1. /\ BalanceAt(d, q, u, TRUE) = l.amount + Net(d, q, u, 0) - Net(d, q, l.ts, 0)
        /\ l.amount \in Int /\ l.ts \in SnapInstants /\ l.ts \in Int
    BY <1>3, <1>11, BalanceFrom DEF before
  <2>2. BalanceAt(e, q, u, TRUE) = l.amount + Net(e, q, u, 0) - Net(e, q, l.ts, 0)
    <3>1. SnapsBefore(e, q, u) # {} /\ l = e.snap[Latest(e, SnapsBefore(e, q, u))]
      BY <1>5, <1>11
    <3> HIDE DEF l, q, u
    <3> QED
      BY <1>3, <3>1, BalanceFrom
  <2>3. l.ts < u
    <3>1. Latest(d, before) \in before
      BY <1>8, <1>11
    <3> QED
      BY <3>1 DEF before, SnapsBefore
  <2>4. q = p /\ x < u <=> q = p /\ x < l.ts
    <3>1. q = p /\ x < u => x < l.ts
      BY <1>9
    <3> HIDE DEF q, u, l
    <3> QED
      BY <1>3, <2>1, <2>3, <3>1
  <2>5. /\ Net(e, q, u, 0) = Net(d, q, u, 0) + (IF q = p /\ x < u THEN c ELSE 0)
        /\ Net(e, q, l.ts, 0) = Net(d, q, l.ts, 0) + (IF q = p /\ x < l.ts THEN c ELSE 0)
        /\ Net(d, q, u, 0) \in Int /\ Net(d, q, l.ts, 0) \in Int
    BY <1>3, <1>7, <2>1
  <2> DEFINE change == IF q = p /\ x < u THEN c ELSE 0
             here(f) == Net(f, q, u, 0)
             there(f) == Net(f, q, l.ts, 0)
             start == l.amount
             balance(f) == BalanceAt(f, q, u, TRUE)
  <2>a. /\ here(e) = here(d) + change /\ there(e) = there(d) + change
        /\ here(d) \in Int /\ there(d) \in Int /\ change \in Int
    BY <2>4, <2>5
  <2>b. /\ balance(d) = start + here(d) - there(d) /\ balance(e) = start + here(e) - there(e)
        /\ start \in Int
    BY <2>1, <2>2
  <2> HIDE DEF q, u, l, change, here, there, start, balance
  <2>c. balance(e) = balance(d)
    BY <2>a, <2>b
  <2>6. BalanceAt(e, q, u, TRUE) = BalanceAt(d, q, u, TRUE)
    BY <2>c DEF balance
  <2>7. e.snap[s] = d.snap[s]
    BY <1>2
  <2>8. BalanceAt(e, q, u, TRUE) = e.snap[s].amount
    BY <1>4, <2>6, <2>7
  <2> QED
    BY <2>7, <2>8 DEF q, u
<1> QED
  BY <1>10, <1>11

\* u is after x, and no snapshot is taken between.
Follows(u, x) == x < u /\ \A v \in SnapInstants : v < u => ~(x < v)

\* A shift by what a balance lacks, after every earlier snapshot, makes it
\* the target.
LEMMA ShiftedBalance ==
    ASSUME NEW d, Measured(d), NEW e, Measured(e),
           NEW p \in Pockets, NEW x, NEW u \in SnapInstants, Follows(u, x), NEW target \in Int,
           Shifted(d, e, p, x, target - BalanceAt(d, p, u, TRUE))
    PROVE  BalanceAt(e, p, u, TRUE) = target
<1> DEFINE c == target - BalanceAt(d, p, u, TRUE)
           before == SnapsBefore(d, p, u)
           l == d.snap[Latest(d, before)]
           net(f, v, n) == Net(f, p, v, n)
           balance(f) == BalanceAt(f, p, u, TRUE)
           start == l.amount
<1>0. u \in Int
  BY LedgerAssumption
<1>1. SnapsBefore(e, p, u) = before /\ e.snap[Latest(e, before)] = l
  BY DEF SnapsBefore, Snapshots, Latest, Shifted
<1>2. /\ c \in Int
      /\ \A v \in SnapInstants, n \in {0, 1} :
           /\ net(e, v, n) = net(d, v, n) + (IF x < v THEN c ELSE 0)
           /\ net(d, v, n) \in Int
  BY NetParts DEF Shifted
<1>a. balance(d) \in Int /\ c = target - balance(d)
  BY BalanceIsInt
<1> HIDE DEF c
<1>3. CASE before = {}
  <2>1. balance(d) = net(d, u, 1) /\ balance(e) = net(e, u, 1)
    BY <1>1, <1>3, BalanceParts
  <2>2. net(e, u, 1) = net(d, u, 1) + c
    BY <1>2 DEF Follows
  <2> HIDE DEF net, balance
  <2>3. balance(e) = target
    BY <1>a, <2>1, <2>2
  <2> QED
    BY <2>3 DEF balance
<1>4. CASE before # {}
  <2>1. /\ balance(d) = start + net(d, u, 0) - net(d, l.ts, 0)
        /\ start \in Int /\ l.ts \in SnapInstants
    BY <1>0, <1>4, BalanceFrom
  <2>2. balance(e) = start + net(e, u, 0) - net(e, l.ts, 0)
    <3>1. SnapsBefore(e, p, u) # {} /\ l = e.snap[Latest(e, SnapsBefore(e, p, u))]
      BY <1>1, <1>4
    <3> HIDE DEF l
    <3> QED
      BY <1>0, <3>1, BalanceFrom DEF balance, start, net
  <2>3. l.ts < u
    <3>1. before \subseteq Snapshots(d, p)
      BY DEF SnapsBefore
    <3>2. Latest(d, before) \in before
      <4> HIDE DEF before
      <4> QED
        BY <1>4, <3>1, LatestExists
    <3> QED
      BY <3>2 DEF SnapsBefore
  <2>4. x < u /\ ~(x < l.ts)
    BY <2>1, <2>3 DEF Follows
  <2> HIDE DEF net, balance, start, l, before
  <2>5. /\ net(e, u, 0) = net(d, u, 0) + c /\ net(d, u, 0) \in Int
        /\ net(e, l.ts, 0) = net(d, l.ts, 0) + 0 /\ net(d, l.ts, 0) \in Int
    BY <1>2, <2>1, <2>4
  <2>6. balance(e) = target
    BY <1>2, <1>a, <2>1, <2>2, <2>5
  <2> QED
    BY <2>6 DEF balance
<1> QED
  BY <1>3, <1>4

\* No snapshot is taken between the adjustment of another and that one.
SnapshotDays == \A at, next \in SnapInstants : at < next => at < AdjustmentTs(next)

LEMMA AdjustmentClear ==
    ASSUME SnapshotDays, NEW ts \in SnapInstants
    PROVE  Clear(AdjustmentTs(ts)) /\ Follows(ts, AdjustmentTs(ts))
<1> DEFINE x == AdjustmentTs(ts)
           shifted == ts + TzShift
<1>1. ts \in Int /\ shifted \in Int /\ TzShift \in Int /\ \A u \in SnapInstants : u \in Int
  BY LedgerAssumption
<1>2. TicksPerDay \in Nat /\ TicksPerDay > 0
  BY LedgerAssumption
<1> HIDE DEF shifted
<1>3. (shifted \div TicksPerDay) * TicksPerDay <= shifted /\ (shifted \div TicksPerDay) * TicksPerDay \in Int
  BY <1>1, <1>2
<1>4. DayStart(shifted) <= shifted /\ DayStart(shifted) \in Int
  BY <1>3 DEF DayStart
<1>5. x = DayStart(shifted) - 1 - TzShift
  BY DEF AdjustmentTs, shifted
<1> HIDE DEF x
<1>6. x < ts /\ x \in Int
  BY <1>1, <1>4, <1>5 DEF shifted
<1>7. ASSUME NEW u \in SnapInstants
      PROVE  x # u /\ (u < ts => ~(x < u))
  <2>1. u < ts => u < x
    BY DEF SnapshotDays, x
  <2> QED
    BY <1>1, <1>6, <2>1
<1>8. Clear(x)
  BY <1>6, <1>7 DEF Clear
<1> QED
  BY <1>6, <1>7, <1>8 DEF x, Follows

\* Reconciling a snapshot makes it land, and disturbs no other.
LEMMA SetLands ==
    ASSUME SnapshotDays, PocketsFixed, NEW d, Typed(d), Distinct(d.snap), NEW s \in SnapIds,
           NEW row, row = d.snap[s], row # NoRow, NEW S, LandedBut(d, S),
           NEW e, e = SetAdjustment(d, row.cur, s, row.ts,
                                    Reconciling(d, row.cur, s, row.ts, row.amount))
    PROVE  LandedBut(e, S \ {s})
<1> DEFINE p == row.cur
           u == row.ts
           x == AdjustmentTs(u)
           k == <<s, p>>
           b == NoAdjustment(d, s)
           amount == Reconciling(d, p, s, u, row.amount)
           balance(f) == BalanceAt(f, p, u, TRUE)
<1>0. Measured(d) /\ Anchored(d.adj, d.snap) /\ s \in Snapshots(d, p)
  BY DEF Typed, Snapshots
<1>1. row \in SnapRows /\ p \in Pockets /\ u \in SnapInstants /\ u \in Int /\ row.amount \in Int
  <2>1. row \in SnapRows
    BY <1>0, SnapshotRows
  <2> QED
    BY <1>0, <2>1, SnapshotRows DEF SnapRows
<1>2. Measured(b)
  BY <1>0, NarrowedMeasured
<1>3. balance(b) \in Int /\ amount = row.amount - balance(b)
  BY <1>2, BalanceIsInt DEF Reconciling
<1> HIDE DEF balance
<1>4. amount \in Int
  BY <1>1, <1>3
<1> HIDE DEF amount
<1>5. Typed(e) /\ e.snap = d.snap /\ e.fee = d.fee
  BY <1>1, <1>4, SetAdjustmentTyped DEF amount
<1>6. e.tx = d.tx /\ e.inj = d.inj
  BY <1>0, SetAdjustmentKeeps DEF SameSpends, Measured
<1>7. /\ DOMAIN e.adj = DOMAIN d.adj \cup {k}
      /\ \A j \in DOMAIN d.adj \ {k} : e.adj[j] = d.adj[j]
      /\ e.adj[k].amount = amount
  <2> DEFINE at == IF k \in DOMAIN d.adj THEN d.adj[k].ts ELSE AdjustmentTs(u)
             value == [ts |-> at, amount |-> amount]
  <2>1. e = [d EXCEPT !.adj = With(d.adj, k, value)]
    BY DEF SetAdjustment, amount
  <2>2. value.amount = amount
    OBVIOUS
  <2> HIDE DEF value, k
  <2>3. e.adj = With(d.adj, k, value)
    BY <1>0, <2>1 DEF Measured, Shape
  <2> QED
    BY <2>2, <2>3 DEF With
<1>8. /\ b.tx = d.tx /\ b.inj = d.inj /\ b.snap = d.snap /\ b.fee = d.fee
      /\ b.adj = Without(d.adj, {s} \X Pockets)
  BY <1>0 DEF NoAdjustment, Measured, Shape
<1>9. k \in SnapIds \X Pockets
  BY <1>1
<1>10. /\ DOMAIN b.adj = DOMAIN d.adj \ {k}
       /\ \A j \in DOMAIN b.adj : b.adj[j] = d.adj[j]
  <2>1. ASSUME NEW j \in DOMAIN d.adj, j \in {s} \X Pockets
        PROVE  j = k
    <3>1. j[1] = s /\ j = <<j[1], j[2]>>
      BY <2>1
    <3>2. j[2] = p
      BY <1>0, <3>1 DEF Anchored
    <3> QED
      BY <3>1, <3>2
  <2>2. k \in {s} \X Pockets
    BY <1>1
  <2> HIDE DEF k, b
  <2>3. DOMAIN b.adj = DOMAIN d.adj \ ({s} \X Pockets)
    BY <1>8 DEF Without
  <2>4. \A j \in DOMAIN b.adj : b.adj[j] = d.adj[j]
    BY <1>8 DEF Without
  <2> QED
    BY <2>1, <2>2, <2>3, <2>4
<1>11. k[1] = s /\ k[2] = p
  OBVIOUS
<1>12. (k \in DOMAIN d.adj => d.adj[k].ts = x) /\ e.adj[k].ts = x
  <2>1. Anchored(e.adj, e.snap)
    BY <1>5 DEF Typed
  <2>2. d.snap[k[1]].ts = u /\ e.snap[k[1]].ts = u
    BY <1>5, <1>11
  <2>3. k \in DOMAIN e.adj
    BY <1>7
  <2> HIDE DEF k, u
  <2>4. k \in DOMAIN d.adj => d.adj[k].ts = x
    BY <1>0, <2>2 DEF Anchored
  <2>5. e.adj[k].ts = AdjustmentTs(e.snap[k[1]].ts) /\ x = AdjustmentTs(u)
    BY <2>1, <2>3 DEF Anchored
  <2> HIDE DEF x
  <2> QED
    BY <2>2, <2>4, <2>5
<1>13. Clear(x) /\ Follows(u, x) /\ x \in Int
  BY <1>1, AdjustmentClear DEF Clear
<1> HIDE DEF k, b, x
<1>14. Shifts(d, e, p, x) /\ Shifted(b, e, p, x, amount)
  <2>1. Measured(e) /\ k[2] = p
    BY <1>5, <1>11 DEF Typed
  <2>2. SameBut(d.adj, e.adj, k) /\ SameBut(b.adj, e.adj, k)
    BY <1>7, <1>10 DEF SameBut
  <2>3. StandsAt(d.adj, k, x) /\ StandsAt(e.adj, k, x) /\ StandsAt(b.adj, k, x)
    BY <1>10, <1>12 DEF StandsAt
  <2>4. Amount(e.adj, k) = amount /\ Amount(b.adj, k) = 0
    BY <1>7, <1>10 DEF Amount
  <2> HIDE DEF p, u
  <2>5. Shifted(d, e, k[2], x, Amount(e.adj, k) - Amount(d.adj, k))
    BY <1>0, <1>5, <1>6, <1>9, <1>13, <2>1, <2>2, <2>3, AdjShifted
  <2>6. Shifted(b, e, k[2], x, Amount(e.adj, k) - Amount(b.adj, k))
    BY <1>2, <1>5, <1>6, <1>8, <1>9, <1>13, <2>1, <2>2, <2>3, AdjShifted
  <2>7. Amount(e.adj, k) - Amount(b.adj, k) = amount
    BY <1>4, <2>4
  <2> QED
    <3>1. Amount(e.adj, k) - Amount(d.adj, k) \in Int
      BY <2>5 DEF Shifted
    <3>2. Shifts(d, e, k[2], x)
      BY <2>5, <3>1 DEF Shifts
    <3> QED
      BY <2>1, <2>6, <2>7, <3>2
<1>15. Measured(e)
  BY <1>5 DEF Typed
<1>16. Landed(e, s)
  <2>1. Shifted(b, e, p, x, row.amount - balance(b))
    BY <1>3, <1>14
  <2>2. balance(e) = row.amount
    <3> HIDE DEF p, u
    <3> QED
      BY <1>1, <1>2, <1>13, <1>15, <2>1, ShiftedBalance DEF balance
  <2> QED
    BY <1>5, <2>2 DEF Landed, balance
<1>17. Touched(d, p, x) \subseteq {s}
  <2> DEFINE A == SnapsAfter(d, p, x)
             r == Earliest(d, A)
  <2>1. s \in A /\ A \subseteq Snapshots(d, p)
    BY <1>0, <1>1, <1>13 DEF SnapsAfter, Follows
  <2>2. Touched(d, p, x) = {r}
    BY <2>1 DEF Touched
  <2> HIDE DEF A
  <2>3. r \in A /\ d.snap[r].ts <= u
    BY <1>0, <2>1, LatestExists
  <2>4. r \in Snapshots(d, p) /\ d.snap[r].ts > x
    BY <2>3 DEF A, SnapsAfter
  <2>5. d.snap[r].ts \in Int /\ d.snap[r].ts \in SnapInstants
    BY <1>0, <2>4, SnapshotRows
  <2>6. d.snap[r].ts = u
    <3>1. ~(d.snap[r].ts < u)
      BY <1>13, <2>4, <2>5 DEF Follows
    <3> HIDE DEF r
    <3> QED
      BY <1>1, <2>3, <2>5, <3>1
  <2>7. r = s
    BY <1>0, <2>4, <2>6 DEF Distinct, Snapshots
  <2> QED
    BY <2>2, <2>7
<1>18. LandedBut(e, S \cup Touched(d, p, x))
  BY <1>0, <1>5, <1>13, <1>14, ShiftLands DEF Typed
<1> QED
  BY <1>16, <1>17, <1>18 DEF LandedBut

\* _recalculate_adjustments makes the snapshot it refreshes land.
LEMMA RecalculateLands ==
    ASSUME SnapshotDays, PocketsFixed, NEW d, Typed(d), Distinct(d.snap), NEW p, NEW ts,
           NEW S, LandedBut(d, S)
    PROVE  LandedBut(Recalculate(d, p, ts), S \ Touched(d, p, ts))
<1> DEFINE A == SnapsAfter(d, p, ts)
           s == Earliest(d, A)
           row == d.snap[s]
<1>1. CASE A = {}
  BY <1>1 DEF Recalculate, Touched
<1>2. CASE A # {}
  <2>1. A \subseteq Snapshots(d, p) /\ Measured(d)
    BY DEF SnapsAfter, Typed
  <2>2. Touched(d, p, ts) = {s}
    BY <1>2 DEF Touched
  <2>3. Recalculate(d, p, ts)
          = SetAdjustment(d, p, s, row.ts, Reconciling(d, p, s, row.ts, row.amount))
    BY <1>2 DEF Recalculate
  <2> HIDE DEF A
  <2>4. s \in Snapshots(d, p)
    BY <1>2, <2>1, LatestExists
  <2>5. s \in SnapIds /\ row # NoRow /\ row.cur = p
    BY <2>4 DEF Snapshots
  <2> HIDE DEF s
  <2> QED
    BY <2>2, <2>3, <2>5, SetLands
<1> QED
  BY <1>1, <1>2

-----------------------------------------------------------------------------
(* What a handler changes in one pocket on one day is felt by the snapshot *)
(* it refreshes, and by no other.                                          *)

\* No snapshot is taken on the day of a transaction at or before it, nor at
\* the last instant of the day before.
SnapshotsClear ==
    \A ts \in Instants, at \in SnapInstants : at < InjectionTs(ts) \/ ts < at

LEMMA CellClear ==
    ASSUME SnapshotsClear, NEW row \in TxRows
    PROVE  /\ row.pocket \in Pockets /\ row.ts \in Int /\ Clear(row.ts)
           /\ Slot(row) \in Slots /\ Slot(row)[1] = row.pocket /\ Clear(Slot(row)[2])
           /\ \A u \in SnapInstants : Slot(row)[2] < u <=> row.ts < u
<1> DEFINE x == InjectionTs(row.ts)
<1>1. row.ts \in Instants /\ row.ts \in Int /\ row.pocket \in Pockets /\ Slot(row) \in Slots
  BY SlotOfRow DEF TxRows
<1>2. Slot(row)[1] = row.pocket /\ Slot(row)[2] = x
  BY DEF Slot
<1>3. x < row.ts /\ x \in Int
  BY <1>1, SlotBefore, ClockIsInt
<1>4. \A u \in SnapInstants : u \in Int /\ (u < x \/ row.ts < u)
  BY <1>1, LedgerAssumption DEF SnapshotsClear
<1> HIDE DEF x
<1>5. Clear(row.ts) /\ Clear(x) /\ \A u \in SnapInstants : x < u <=> row.ts < u
  BY <1>1, <1>3, <1>4 DEF Clear
<1> QED
  BY <1>1, <1>2, <1>5

\* The tables a balance is measured on stay as they are.
SameTables(d, e) ==
    e.tx = d.tx /\ e.snap = d.snap /\ e.adj = d.adj /\ e.inj = d.inj /\ e.fee = d.fee

LEMMA SameShift ==
    ASSUME NEW d, Measured(d), NEW e, SameTables(d, e), NEW p, NEW x
    PROVE  Shifts(d, e, p, x)
<1>1. ASSUME NEW q \in Pockets, NEW u \in SnapInstants, NEW n \in {0, 1}
      PROVE  Net(e, q, u, n) = Net(d, q, u, n) + (IF q = p /\ x < u THEN 0 ELSE 0)
  <2>1. Net(e, q, u, n) = Net(d, q, u, n) /\ Net(d, q, u, n) \in Int
    BY ShiftsSame, NetParts DEF SameTables
  <2> QED
    BY <2>1
<1>2. Shifted(d, e, p, x, 0)
  BY <1>1 DEF Shifted, SameTables
<1> QED
  BY <1>2 DEF Shifts

\* The injections change in the slot of one row at most.
SlotChange(d, e, row) ==
    /\ e.tx = d.tx /\ e.snap = d.snap /\ e.adj = d.adj /\ e.fee = d.fee
    /\ SameBut(d.inj, e.inj, Slot(row))

LEMMA SlotShift ==
    ASSUME SnapshotsClear, NEW d, Measured(d), NEW e, Measured(e), NEW row \in TxRows,
           SlotChange(d, e, row)
    PROVE  Shifts(d, e, row.pocket, row.ts)
<1>1. /\ Slot(row) \in Slots /\ Slot(row)[1] = row.pocket /\ Clear(Slot(row)[2])
      /\ \A u \in SnapInstants : Slot(row)[2] < u <=> row.ts < u
  BY CellClear
<1>2. Shifts(d, e, Slot(row)[1], Slot(row)[2])
  BY <1>1, InjShift DEF SlotChange
<1> QED
  BY <1>1, <1>2, ShiftsMove

\* A shift in the cell of a row, when the snapshot it touches is among those
\* that wait for a refresh.
LEMMA CellStep ==
    ASSUME SnapshotsClear, NEW d, Measured(d), NEW e, Measured(e), Distinct(d.snap),
           NEW row \in TxRows, Shifts(d, e, row.pocket, row.ts),
           NEW S, LandedBut(d, S), Touched(d, row.pocket, row.ts) \subseteq S
    PROVE  /\ LandedBut(e, S) /\ e.snap = d.snap /\ Distinct(e.snap)
           /\ \A q, y : Touched(e, q, y) = Touched(d, q, y)
<1>1. e.snap = d.snap
  BY DEF Shifts, Shifted
<1>2. LandedBut(e, S \cup Touched(d, row.pocket, row.ts))
  <2>1. row.ts \in Int
    BY CellClear
  <2> QED
    BY <2>1, ShiftLands
<1>3. S \cup Touched(d, row.pocket, row.ts) = S
  OBVIOUS
<1>4. \A q, y : Touched(e, q, y) = Touched(d, q, y)
  BY <1>1 DEF Touched, SnapsAfter, Snapshots, Earliest
<1> QED
  BY <1>1, <1>2, <1>3, <1>4

\* Funding a spend changes its slot; linking it changes no balance.
LEMMA EnsuredSlot ==
    ASSUME NEW d, Shape(d), NEW seen, NEW row, NEW mode
    PROVE  SlotChange(d, EnsureCash(d, seen, row, mode), row)
<1> DEFINE needed == row.cash - BalanceAt(seen, row.pocket, row.ts, TRUE)
           held == IF Slot(row) \in DOMAIN d.inj THEN d.inj[Slot(row)] ELSE 0
           table == With(d.inj, Slot(row), held + needed)
           raised == [d EXCEPT !.inj = table]
<1>1. EnsureCash(d, seen, row, mode) \in {d, raised}
  BY DEF EnsureCash
<1>2. SameBut(d.inj, table, Slot(row))
  BY DEF SameBut, With
<1> HIDE DEF table
<1>3. SlotChange(d, raised, row)
  BY <1>2 DEF SlotChange, Shape
<1>4. SlotChange(d, d, row)
  BY DEF SlotChange, SameBut
<1> QED
  BY <1>1, <1>3, <1>4

\* Detaching a spend changes the slot it was linked to, which is its own.
LEMMA DetachedSlot ==
    ASSUME NEW d, Typed(d), NEW t \in TxIds, NEW old \in TxRows,
           \A slot \in LinksOf(d, t) : slot = Slot(old)
    PROVE  SlotChange(d, Detached(d, t, old), old)
<1> DEFINE slots == LinksOf(d, t)
           chosen == CHOOSE slot \in slots : TRUE
           bare == Unlinked(d, t)
           e == Detached(d, t, old)
           required == RequiredInjection(NoTx(bare, t), chosen)
           less == Without(bare.inj, {chosen})
           table == With(bare.inj, chosen, required)
           raised == [bare EXCEPT !.inj = table]
           dropped == DropInjection(bare, chosen)
<1>1. e \in {d, bare} \/ (slots # {} /\ e = RefreshInjection(bare, chosen, t))
  BY DEF Detached
<1>2. SameTables(d, bare) /\ Shape(bare)
  BY DEF SameTables, Unlinked, Typed, Measured, Shape
<1>3. RefreshInjection(bare, chosen, t) \in {dropped, raised}
  BY DEF RefreshInjection
<1>4. slots # {} => chosen = Slot(old)
  OBVIOUS
<1> HIDE DEF slots, bare, required, chosen
<1>5. SlotChange(d, d, old) /\ SlotChange(d, bare, old)
  BY <1>2 DEF SlotChange, SameBut, SameTables
<1>6. SameBut(bare.inj, less, chosen) /\ SameBut(bare.inj, table, chosen)
  BY DEF SameBut, With, Without
<1> HIDE DEF table, less
<1>7. /\ dropped.tx = bare.tx /\ dropped.snap = bare.snap /\ dropped.adj = bare.adj
      /\ dropped.fee = bare.fee /\ dropped.inj = less
  BY <1>2 DEF DropInjection, Shape, less
<1>8. /\ raised.tx = bare.tx /\ raised.snap = bare.snap /\ raised.adj = bare.adj
      /\ raised.fee = bare.fee /\ raised.inj = table
  BY <1>2 DEF Shape
<1> HIDE DEF dropped, raised
<1>9. slots # {} => SlotChange(d, dropped, old) /\ SlotChange(d, raised, old)
  BY <1>2, <1>4, <1>6, <1>7, <1>8 DEF SlotChange, SameTables
<1> QED
  BY <1>1, <1>3, <1>5, <1>9
-----------------------------------------------------------------------------
(* The handlers leave every snapshot landed.                               *)

\* Snapshots are apart from what stands around them, and every kind of
\* transaction refreshes.
Regular == SnapshotsClear /\ SnapshotDays /\ PocketsFixed /\ "manual" \notin Kinds

\* The snapshots land, those of S perhaps not.
Settled(d, S) == Typed(d) /\ Distinct(d.snap) /\ LandedBut(d, S)

SameTouched(d, e) == \A q, y : Touched(e, q, y) = Touched(d, q, y)

LEMMA SettledStep ==
    ASSUME Regular, NEW d, NEW S, Settled(d, S), NEW e, Typed(e), NEW row \in TxRows,
           Shifts(d, e, row.pocket, row.ts), Touched(d, row.pocket, row.ts) \subseteq S
    PROVE  Settled(e, S) /\ SameTouched(d, e)
<1>1. Measured(d) /\ Measured(e)
  BY DEF Settled, Typed
<1> QED
  BY <1>1, CellStep DEF Settled, SameTouched, Regular

LEMMA RefreshSettles ==
    ASSUME Regular, NEW d, NEW S, Settled(d, S), NEW p, NEW ts
    PROVE  /\ Settled(Recalculate(d, p, ts), S \ Touched(d, p, ts))
           /\ SameTouched(d, Recalculate(d, p, ts))
           /\ Recalculate(d, p, ts).tx = d.tx /\ Recalculate(d, p, ts).fee = d.fee
<1> DEFINE e == Recalculate(d, p, ts)
<1>1. Typed(d) /\ Measured(d) /\ Shape(d)
  BY DEF Settled, Typed, Measured
<1>2. Typed(e) /\ e.snap = d.snap /\ e.fee = d.fee
  BY <1>1, RecalculateTyped
<1>3. e.tx = d.tx
  BY <1>1, RecalculateKeeps DEF SameSpends
<1>4. LandedBut(e, S \ Touched(d, p, ts))
  BY RecalculateLands DEF Settled, Regular
<1> HIDE DEF e
<1>5. SameTouched(d, e)
  BY <1>2 DEF SameTouched, Touched, SnapsAfter, Snapshots, Earliest
<1> QED
  BY <1>2, <1>3, <1>4, <1>5 DEF Settled, e

\* Storing or deleting the row of a transaction, in the pocket and at the
\* instant of `row`.
Rewrites(d, e, t, new, row) ==
    /\ e = [d EXCEPT !.tx[t] = new]
    /\ d.tx[t] \in {row, NoRow} /\ new \in {row, NoRow}
    /\ OnePocket \/ d.fee[t] = NoRow

LEMMA RowStep ==
    ASSUME Regular, NEW d, NEW S, Settled(d, S), NEW t \in TxIds, NEW new,
           NEW row \in TxRows, NEW e, Rewrites(d, e, t, new, row),
           Touched(d, row.pocket, row.ts) \subseteq S
    PROVE  /\ Settled(e, S) /\ SameTouched(d, e)
           /\ e.tx[t] = new /\ e.fee = d.fee /\ e.inj = d.inj /\ e.link = d.link
           /\ e.dangling = d.dangling
<1>1. Typed(d) /\ Measured(d) /\ Shape(d)
  BY DEF Settled, Typed, Measured
<1>a. e = [d EXCEPT !.tx[t] = new]
  BY DEF Rewrites
<1>b. /\ d.tx[t] \in {row, NoRow} /\ new \in {row, NoRow} /\ new \in TxRows \cup {NoRow}
      /\ OnePocket \/ d.fee[t] = NoRow
  BY DEF Rewrites
<1>2. Typed(e) /\ e.tx = [d.tx EXCEPT ![t] = new]
  BY <1>1, <1>a, <1>b, RewriteTyped
<1>3. e.snap = d.snap /\ e.adj = d.adj /\ e.fee = d.fee /\ e.inj = d.inj /\ e.link = d.link
                      /\ e.dangling = d.dangling
  BY <1>1, <1>a DEF Shape
<1>4. e.tx[t] = new /\ \A v \in TxIds \ {t} : e.tx[v] = d.tx[v]
  BY <1>1, <1>2 DEF Shape
<1>5. row.pocket \in Pockets /\ Clear(row.ts)
  BY CellClear DEF Regular
<1>6. Measured(e)
  BY <1>2 DEF Typed
<1>7. Shifts(d, e, row.pocket, row.ts)
  BY <1>1, <1>b, <1>3, <1>4, <1>5, <1>6, RowShift
<1>8. Settled(e, S) /\ SameTouched(d, e)
  BY <1>2, <1>7, SettledStep
<1> QED
  BY <1>3, <1>4, <1>8

\* Funding a spend and linking it.
LEMMA FundedStep ==
    ASSUME Regular, NEW d, NEW S, Settled(d, S), NEW seen, Measured(seen), NEW row \in TxRows,
           NEW mode, NEW e, e = EnsureCash(d, seen, row, mode),
           Touched(d, row.pocket, row.ts) \subseteq S
    PROVE  Settled(e, S) /\ SameTouched(d, e) /\ e.tx = d.tx /\ e.fee = d.fee
<1>1. Typed(d) /\ Measured(d) /\ Shape(d)
  BY DEF Settled, Typed, Measured
<1>2. Typed(e) /\ e.tx = d.tx /\ e.fee = d.fee
  BY <1>1, FundedTyped
<1>3. SlotChange(d, e, row) /\ Measured(e)
  BY <1>1, <1>2, EnsuredSlot DEF Typed
<1>4. Shifts(d, e, row.pocket, row.ts)
  BY <1>1, <1>3, SlotShift DEF Regular
<1> QED
  BY <1>2, <1>4, SettledStep

LEMMA LinkedStep ==
    ASSUME Regular, NEW d, NEW S, Settled(d, S), NEW t \in TxIds, d.tx[t] \in TxRows,
           NEW e, e = LinkInjection(d, t),
           Touched(d, d.tx[t].pocket, d.tx[t].ts) \subseteq S
    PROVE  Settled(e, S) /\ SameTouched(d, e)
<1>1. Typed(d) /\ Measured(d) /\ Shape(d)
  BY DEF Settled, Typed, Measured
<1>2. Typed(e)
  BY <1>1, RewriteTyped
<1>3. SameTables(d, e)
  BY <1>1, LinkedTables DEF SameTables
<1>4. Shifts(d, e, d.tx[t].pocket, d.tx[t].ts)
  BY <1>1, <1>3, SameShift
<1> QED
  BY <1>2, <1>4, SettledStep

LEMMA CreatedLands ==
    ASSUME Regular, NEW d, Settled(d, {}), NEW t \in TxIds, d.tx[t] = NoRow, d.fee[t] = NoRow,
           NEW row \in TxRows, NEW mode
    PROVE  Settled(Created(d, t, row, mode), {})
<1> DEFINE S == Touched(d, row.pocket, row.ts)
           funded == IF IsSpend(row) THEN EnsureCash(d, d, row, mode) ELSE d
           stored == [funded EXCEPT !.tx[t] = row]
           linked == IF IsSpend(row) THEN LinkInjection(stored, t) ELSE stored
<1>0. Created(d, t, row, mode) = Recalculate(linked, row.pocket, row.ts)
  <2>1. row.kind # "manual"
    BY DEF Regular, TxRows
  <2> QED
    BY <2>1 DEF Created
<1>1. Settled(d, S) /\ Measured(d)
  BY DEF Settled, LandedBut, Typed
<1>2. Settled(funded, S) /\ SameTouched(d, funded) /\ funded.tx = d.tx /\ funded.fee = d.fee
  <2>1. CASE IsSpend(row)
    BY <1>1, <2>1, FundedStep
  <2>2. CASE ~IsSpend(row)
    BY <1>1, <2>2 DEF SameTouched
  <2> QED
    BY <2>1, <2>2
<1> HIDE DEF funded
<1>3. Settled(stored, S) /\ SameTouched(funded, stored) /\ stored.tx[t] = row
  <2>1. Touched(funded, row.pocket, row.ts) \subseteq S
    BY <1>2 DEF SameTouched
  <2>2. Rewrites(funded, stored, t, row, row)
    BY <1>2 DEF Rewrites
  <2> HIDE DEF S, stored
  <2> QED
    BY <1>2, <2>1, <2>2, RowStep
<1> HIDE DEF stored
<1>4. Settled(linked, S) /\ SameTouched(stored, linked)
  <2>1. CASE IsSpend(row)
    <3>1. Touched(stored, row.pocket, row.ts) \subseteq S
      BY <1>2, <1>3 DEF SameTouched
    <3> HIDE DEF S
    <3> QED
      BY <1>3, <2>1, <3>1, LinkedStep
  <2>2. CASE ~IsSpend(row)
    BY <1>3, <2>2 DEF SameTouched
  <2> QED
    BY <2>1, <2>2
<1> HIDE DEF linked
<1>5. S \ Touched(linked, row.pocket, row.ts) = {}
  BY <1>2, <1>3, <1>4 DEF SameTouched
<1>6. Settled(Recalculate(linked, row.pocket, row.ts), S \ Touched(linked, row.pocket, row.ts))
  BY <1>4, RefreshSettles
<1> QED
  BY <1>0, <1>5, <1>6

LEMMA UpdatedLands ==
    ASSUME Regular, NEW d, Settled(d, {}), Joined(d), NEW t \in TxIds, d.tx[t] \in TxRows,
           OnePocket \/ d.fee[t] = NoRow, NEW row \in TxRows, NEW mode
    PROVE  Settled(Updated(d, t, row, mode), {})
<1> DEFINE old == d.tx[t]
           before == Touched(d, old.pocket, old.ts)
           after == Touched(d, row.pocket, row.ts)
           S == before \cup after
           gone == [d EXCEPT !.tx[t] = NoRow]
           again == [gone EXCEPT !.tx[t] = row]
           written == [d EXCEPT !.tx[t] = row]
           stored == Detached(written, t, old)
           funded == EnsureCash(stored, NoTx(stored, t), row, mode)
           attached == Reattached(stored, t, row, mode)
           here == Recalculate(attached, row.pocket, row.ts)
<1>0. Updated(d, t, row, mode) =
        IF old.pocket = row.pocket /\ old.ts = row.ts THEN here
        ELSE Recalculate(here, old.pocket, old.ts)
  <2>1. row.kind # "manual"
    BY DEF Regular, TxRows
  <2>2. Updated(d, t, row, mode) = RecalculateBoth(attached, old, row)
    BY DEF Updated
  <2> HIDE DEF attached, old
  <2> QED
    BY <2>1, <2>2 DEF RecalculateBoth
<1>1. Settled(d, S) /\ Typed(d) /\ Shape(d)
  BY DEF Settled, LandedBut, Typed, Measured
<1>a. ASSUME NEW e, SameTouched(d, e)
      PROVE  /\ Touched(e, old.pocket, old.ts) = before
             /\ Touched(e, row.pocket, row.ts) = after
  BY <1>a DEF SameTouched
<1>b. before \subseteq S /\ after \subseteq S
  OBVIOUS
<1>c. old \in TxRows
  OBVIOUS
<1>d. \A e, f, g : SameTouched(e, f) /\ SameTouched(f, g) => SameTouched(e, g)
  BY DEF SameTouched
<1> HIDE DEF S, before, after
<1>2. /\ Settled(gone, S) /\ SameTouched(d, gone)
      /\ gone.tx[t] = NoRow /\ gone.fee = d.fee /\ gone.inj = d.inj /\ gone.link = d.link
      /\ gone.dangling = d.dangling
  <2>1. SameTouched(d, d)
    BY DEF SameTouched
  <2>2. Touched(d, old.pocket, old.ts) \subseteq S
    BY <1>a, <1>b, <2>1
  <2>3. Rewrites(d, gone, t, NoRow, old)
    BY DEF Rewrites
  <2> HIDE DEF gone, old
  <2> QED
    BY <1>1, <1>c, <2>2, <2>3, RowStep
<1>3. again = written
  BY <1>1 DEF Shape
<1>4. /\ Settled(written, S) /\ SameTouched(gone, written)
      /\ written.tx[t] = row /\ written.inj = d.inj /\ written.link = d.link
      /\ written.dangling = d.dangling
  <2> HIDE DEF gone, written
  <2>1. Touched(gone, row.pocket, row.ts) \subseteq S
    BY <1>2, <1>a, <1>b
  <2>2. Rewrites(gone, written, t, row, row)
    BY <1>2, <1>3 DEF Rewrites
  <2> QED
    BY <1>2, <2>1, <2>2, RowStep
<1> HIDE DEF gone, again, written
<1>5. SameTouched(d, written)
  BY <1>2, <1>4, <1>d
<1>6. Settled(stored, S) /\ SameTouched(d, stored) /\ stored.tx[t] = row
  <2>1. \A slot \in LinksOf(written, t) : slot = Slot(old)
    BY <1>4, OwnSlot DEF LinksOf
  <2>2. Typed(written) /\ Measured(written)
    BY <1>4 DEF Settled, Typed
  <2> HIDE DEF old
  <2>3. Typed(stored) /\ stored.tx = written.tx
    BY <2>2, DetachedTyped
  <2>4. SlotChange(written, stored, old) /\ Measured(stored)
    BY <1>c, <2>1, <2>2, <2>3, DetachedSlot DEF Typed
  <2>5. Shifts(written, stored, old.pocket, old.ts)
    BY <1>c, <2>2, <2>4, SlotShift DEF Regular
  <2>6. Touched(written, old.pocket, old.ts) \subseteq S
    BY <1>5, <1>a, <1>b
  <2> HIDE DEF stored
  <2>7. Settled(stored, S) /\ SameTouched(written, stored)
    BY <1>4, <1>c, <2>3, <2>5, <2>6, SettledStep
  <2> QED
    BY <1>4, <1>5, <1>d, <2>3, <2>7
<1> HIDE DEF stored, old
<1>7. Settled(attached, S) /\ SameTouched(d, attached)
  <2>1. CASE ~IsSpend(row)
    BY <1>6, <2>1 DEF Reattached
  <2>2. CASE IsSpend(row)
    <3>1. attached = LinkInjection(funded, t)
      BY <2>2 DEF Reattached
    <3>2. Measured(NoTx(stored, t))
      BY <1>6, NarrowedMeasured DEF Settled, Typed
    <3>3. Touched(stored, row.pocket, row.ts) \subseteq S
      BY <1>6, <1>a, <1>b
    <3>4. Settled(funded, S) /\ SameTouched(stored, funded) /\ funded.tx = stored.tx
      BY <1>6, <3>2, <3>3, FundedStep
    <3> HIDE DEF funded, attached
    <3>5. SameTouched(d, funded) /\ funded.tx[t] = row
      BY <1>6, <1>d, <3>4
    <3>6. Touched(funded, row.pocket, row.ts) \subseteq S
      BY <1>a, <1>b, <3>5
    <3>7. Settled(attached, S) /\ SameTouched(funded, attached)
      BY <3>1, <3>4, <3>5, <3>6, LinkedStep
    <3> QED
      BY <1>d, <3>5, <3>7
  <2> QED
    BY <2>1, <2>2
<1> HIDE DEF attached
<1>8. Settled(here, S \ after) /\ SameTouched(d, here)
  <2>1. Settled(here, S \ Touched(attached, row.pocket, row.ts)) /\ SameTouched(attached, here)
    BY <1>7, RefreshSettles
  <2> QED
    BY <1>7, <1>a, <1>d, <2>1
<1> HIDE DEF here
<1>9. CASE old.pocket = row.pocket /\ old.ts = row.ts
  <2>1. S \ after = {}
    BY <1>9 DEF S, before, after
  <2> QED
    BY <1>0, <1>8, <1>9, <2>1
<1>10. CASE ~(old.pocket = row.pocket /\ old.ts = row.ts)
  <2>1. Settled(Recalculate(here, old.pocket, old.ts), (S \ after) \ Touched(here, old.pocket, old.ts))
    BY <1>8, RefreshSettles
  <2>2. (S \ after) \ Touched(here, old.pocket, old.ts) = {}
    BY <1>8, <1>a DEF S
  <2> QED
    BY <1>0, <1>10, <2>1, <2>2
<1> QED
  BY <1>9, <1>10
LEMMA SettledMore ==
    ASSUME NEW d, NEW R, NEW S, Settled(d, R), R \subseteq S
    PROVE  Settled(d, S)
BY DEF Settled, LandedBut

\* With one pocket, delete refreshes the pocket the row was paid from.
LEMMA DeletedLands ==
    ASSUME Regular, OnePocket, NEW d, Settled(d, {}), Joined(d), NEW t \in TxIds,
           d.tx[t] \in TxRows
    PROVE  Settled(Deleted(d, t), {})
<1> DEFINE old == d.tx[t]
           S == Touched(d, old.pocket, old.ts)
           bare == Unlinked(d, t)
           gone == NoTx(bare, t)
           orphans == {slot \in LinksOf(d, t) : \A l \in gone.link : l[1] # slot}
           rest == Without(gone.inj, orphans)
           less == [gone EXCEPT !.inj = rest]
           swept == IF IsSpend(old) THEN less ELSE gone
<1>1. Typed(d) /\ Measured(d) /\ Shape(d) /\ Settled(d, S)
  BY SettledMore DEF Settled, Typed, Measured
<1>2. old \in TxRows /\ old.cur = old.pocket /\ old.kind # "manual"
  BY DEF TxRows, OnePocket, Regular
<1>3. Deleted(d, t) = Recalculate(swept, old.pocket, old.ts)
  BY <1>2 DEF Deleted
<1>4. \A slot \in orphans : slot = Slot(old)
  BY OwnSlot DEF LinksOf
<1> HIDE DEF orphans
<1>5. Settled(bare, S) /\ SameTouched(d, bare) /\ bare.tx = d.tx /\ bare.inj = d.inj
  <2>1. Typed(bare) /\ bare.tx = d.tx
    BY <1>1, RewriteTyped
  <2>2. SameTables(d, bare)
    BY <1>1 DEF SameTables, Unlinked, Shape
  <2>3. Shifts(d, bare, old.pocket, old.ts)
    BY <1>1, <2>2, SameShift
  <2> HIDE DEF bare, S, old
  <2>4. Settled(bare, S) /\ SameTouched(d, bare)
    <3>1. Touched(d, old.pocket, old.ts) \subseteq S
      BY DEF S
    <3> QED
      BY <1>1, <1>2, <2>1, <2>3, <3>1, SettledStep
  <2> QED
    BY <2>2, <2>4 DEF SameTables
<1> HIDE DEF bare
<1>6. Settled(gone, S) /\ SameTouched(bare, gone)
  <2>1. Rewrites(bare, gone, t, NoRow, old)
    BY <1>5 DEF Rewrites, NoTx
  <2>2. Touched(bare, old.pocket, old.ts) \subseteq S
    BY <1>5 DEF SameTouched
  <2> HIDE DEF S, gone, old
  <2> QED
    BY <1>2, <1>5, <2>1, <2>2, RowStep
<1> HIDE DEF gone
<1>7. Touched(gone, old.pocket, old.ts) = S
  BY <1>5, <1>6 DEF SameTouched
<1>8. Settled(less, S) /\ SameTouched(gone, less)
  <2>1. Typed(gone) /\ Measured(gone) /\ Shape(gone)
    BY <1>6 DEF Settled, Typed, Measured
  <2>2. /\ less.tx = gone.tx /\ less.snap = gone.snap /\ less.adj = gone.adj
        /\ less.fee = gone.fee /\ less.inj = rest /\ less.link = gone.link
        /\ less.dangling = gone.dangling /\ Shape(less)
    BY <2>1 DEF Shape
  <2>3. InjTyped(rest)
    BY <2>1, WithoutTyped DEF Measured
  <2>4. SameBut(gone.inj, rest, Slot(old))
    BY <1>4 DEF SameBut, Without
  <2> HIDE DEF less, rest, old, S
  <2>5. Typed(less) /\ Measured(less)
    BY <2>1, <2>2, <2>3 DEF Typed, Measured
  <2>6. SlotChange(gone, less, old)
    BY <2>2, <2>4 DEF SlotChange
  <2>7. Shifts(gone, less, old.pocket, old.ts)
    BY <1>2, <2>1, <2>5, <2>6, SlotShift DEF Regular
  <2>8. Touched(gone, old.pocket, old.ts) \subseteq S
    BY <1>7
  <2> QED
    BY <1>2, <1>6, <2>5, <2>7, <2>8, SettledStep
<1> HIDE DEF less
<1>9. Settled(swept, S) /\ Touched(swept, old.pocket, old.ts) = S
  <2>1. Touched(less, old.pocket, old.ts) = S
    BY <1>7, <1>8 DEF SameTouched
  <2> QED
    BY <1>6, <1>7, <1>8, <2>1
<1> HIDE DEF swept
<1>10. Settled(Recalculate(swept, old.pocket, old.ts), S \ Touched(swept, old.pocket, old.ts))
  BY <1>9, RefreshSettles
<1>11. S \ Touched(swept, old.pocket, old.ts) = {}
  BY <1>9
<1> QED
  BY <1>3, <1>10, <1>11

\* Storing or deleting a fee, before the reconciliation.
LEMMA FeeStepLands ==
    ASSUME Regular, OnePocket, NEW d, NEW S, Settled(d, S), NEW t \in TxIds, d.tx[t] \in TxRows,
           NEW f \in FeeRows \cup {NoRow}, NEW e, e = [d EXCEPT !.fee[t] = f],
           Touched(d, d.tx[t].pocket, d.tx[t].ts) \subseteq S
    PROVE  Settled(e, S) /\ SameTouched(d, e) /\ e.tx = d.tx
<1> DEFINE row == d.tx[t]
<1>1. Typed(d) /\ Measured(d) /\ Shape(d)
  BY DEF Settled, Typed, Measured
<1>2. Typed(e)
  BY <1>1, RewriteTyped
<1>3. e.snap = d.snap /\ e.adj = d.adj /\ e.inj = d.inj /\ e.tx = d.tx
  BY <1>1 DEF Shape
<1>4. \A v \in TxIds \ {t} : e.fee[v] = d.fee[v]
  <2>1. e.fee = [d.fee EXCEPT ![t] = f]
    BY <1>1 DEF Shape
  <2> QED
    BY <1>1, <2>1 DEF Measured
<1>5. row.pocket \in Pockets /\ Clear(row.ts)
  BY CellClear DEF Regular
<1>6. Measured(e)
  BY <1>2 DEF Typed
<1>7. Shifts(d, e, row.pocket, row.ts)
  BY <1>1, <1>3, <1>4, <1>5, <1>6, RowShift
<1>8. Settled(e, S) /\ SameTouched(d, e)
  BY <1>2, <1>7, SettledStep
<1> QED
  BY <1>3, <1>8

\* With one pocket there is no other main pocket to reconcile.
LEMMA ReconciledLands ==
    ASSUME Regular, OnePocket, NEW d, NEW t \in TxIds, d.tx[t] \in TxRows,
           Settled(d, Touched(d, d.tx[t].pocket, d.tx[t].ts))
    PROVE  Settled(Reconciled(d, t), {})
<1> DEFINE row == d.tx[t]
           S == Touched(d, row.pocket, row.ts)
<1>1. row.kind # "manual" /\ MainCurrency \in {NoCurrency, row.cur}
  BY LedgerAssumption DEF TxRows, OnePocket, Regular
<1>2. Reconciled(d, t) = Recalculate(d, row.pocket, row.ts)
  BY <1>1 DEF Reconciled
<1>3. Settled(Recalculate(d, row.pocket, row.ts), S \ S)
  BY RefreshSettles
<1>4. S \ S = {}
  OBVIOUS
<1> HIDE DEF S
<1> QED
  BY <1>2, <1>3, <1>4

LEMMA FeeStoredLands ==
    ASSUME Regular, OnePocket, NEW d, NEW t \in TxIds, d.tx[t] \in TxRows,
           Settled(d, Touched(d, d.tx[t].pocket, d.tx[t].ts)),
           NEW f \in FeeRows \cup {NoRow}
    PROVE  Settled(FeeStored(d, t, f), {})
<1> DEFINE S == Touched(d, d.tx[t].pocket, d.tx[t].ts)
           e == [d EXCEPT !.fee[t] = f]
<1>1. FeeStored(d, t, f) = Reconciled(e, t)
  BY DEF FeeStored
<1>2. e = [d EXCEPT !.fee[t] = f] /\ Touched(d, d.tx[t].pocket, d.tx[t].ts) \subseteq S
  OBVIOUS
<1> HIDE DEF e
<1>3. Settled(e, S) /\ SameTouched(d, e) /\ e.tx = d.tx
  BY <1>2, FeeStepLands
<1>4. Settled(e, Touched(e, e.tx[t].pocket, e.tx[t].ts))
  BY <1>3 DEF SameTouched
<1>5. e.tx[t] \in TxRows
  BY <1>3
<1> QED
  BY <1>1, <1>4, <1>5, ReconciledLands

\* The last statements of update_full, from the transaction it has updated.
LEMMA FeesReplacedLand ==
    ASSUME Regular, OnePocket, NEW d, Settled(d, {}), NEW t \in TxIds, d.tx[t] \in TxRows,
           NEW f \in FeeRows \cup {NoRow}
    PROVE  Settled(Reconciled(FeeReplaced([d EXCEPT !.fee[t] = NoRow], t, f), t), {})
<1> DEFINE S == Touched(d, d.tx[t].pocket, d.tx[t].ts)
           bare == [d EXCEPT !.fee[t] = NoRow]
           last == FeeReplaced(bare, t, f)
<1>1. Settled(d, S) /\ Touched(d, d.tx[t].pocket, d.tx[t].ts) \subseteq S
  BY SettledMore
<1>2. bare = [d EXCEPT !.fee[t] = NoRow] /\ NoRow \in FeeRows \cup {NoRow}
  OBVIOUS
<1> HIDE DEF bare
<1>3. Settled(bare, S) /\ SameTouched(d, bare) /\ bare.tx = d.tx
  BY <1>1, <1>2, FeeStepLands
<1>4. Settled(bare, Touched(bare, bare.tx[t].pocket, bare.tx[t].ts)) /\ bare.tx[t] \in TxRows
  BY <1>3 DEF SameTouched
<1>5. Settled(last, Touched(last, last.tx[t].pocket, last.tx[t].ts)) /\ last.tx[t] \in TxRows
  <2>1. CASE f = NoRow
    BY <1>4, <2>1 DEF FeeReplaced
  <2>2. CASE f # NoRow
    <3>1. last = FeeStored(bare, t, f)
      BY <2>2 DEF FeeReplaced
    <3>2. Settled(last, {})
      BY <1>4, <3>1, FeeStoredLands
    <3>3. last.tx = bare.tx
      <4>1. Typed(bare)
        BY <1>3 DEF Settled
      <4> HIDE DEF last
      <4>2. FeeStored(bare, t, f).tx = bare.tx
        BY <1>4, <4>1, FeeStoredTyped
      <4> QED
        BY <3>1, <4>2
    <3> HIDE DEF last
    <3> QED
      BY <1>4, <3>2, <3>3, SettledMore
  <2> QED
    BY <2>1, <2>2
<1> HIDE DEF last
<1>6. Settled(Reconciled(last, t), {})
  BY <1>5, ReconciledLands
<1> QED
  BY <1>6 DEF last, bare
-----------------------------------------------------------------------------
(* A snapshot entered after the others, and the invariant.                 *)

\* Two copies agree on what the balance of p at u is measured on.
SameUpTo(d, e, p, u) ==
    /\ e.tx = d.tx /\ e.adj = d.adj /\ e.inj = d.inj /\ e.fee = d.fee
    /\ SnapsBefore(e, p, u) = SnapsBefore(d, p, u)
    /\ \A r \in SnapsBefore(d, p, u) : e.snap[r] = d.snap[r]

SameBalance(d, e, p, u) == BalanceAt(e, p, u, TRUE) = BalanceAt(d, p, u, TRUE)

LEMMA BalanceSame ==
    ASSUME NEW d, Measured(d), NEW e, NEW p, NEW u, SameUpTo(d, e, p, u)
    PROVE  SameBalance(d, e, p, u)
<1> DEFINE before == SnapsBefore(d, p, u)
           l == Latest(d, before)
<1>0. /\ e.tx = d.tx /\ e.adj = d.adj /\ e.inj = d.inj /\ e.fee = d.fee
      /\ SnapsBefore(e, p, u) = before /\ \A r \in before : e.snap[r] = d.snap[r]
  BY DEF SameUpTo
<1>a. e.tx = d.tx /\ e.adj = d.adj /\ e.inj = d.inj /\ e.fee = d.fee
  BY <1>0
<1>1. Net(e, p, u, 1) = Net(d, p, u, 1)
  BY <1>a, ShiftsSame
<1>2. ASSUME NEW v
      PROVE  FlowBefore(e, p, v) = FlowBefore(d, p, v) /\ FeeOut(e, p, v) = FeeOut(d, p, v)
  <2>0. Live(e) = Live(d)
    BY <1>a DEF Live
  <2>1. /\ Moved(e) = Moved(d) /\ MovedBefore(e, p, v) = MovedBefore(d, p, v)
        /\ Adjusted(e) = Adjusted(d) /\ AdjustedBefore(e, p, v) = AdjustedBefore(d, p, v)
        /\ InjectedBefore(e, p, v) = InjectedBefore(d, p, v)
    BY <1>a, <2>0 DEF Moved, MovedBefore, Adjusted, AdjustedBefore, InjectedBefore
  <2>2. FlowBefore(e, p, v) = FlowBefore(d, p, v)
    BY <1>a, <2>1, FlowParts
  <2>3. FeeOut(e, p, v) = FeeOut(d, p, v)
    BY <1>a, <2>0 DEF FeeOut
  <2> QED
    BY <2>2, <2>3
<1>3. CASE before = {}
  BY <1>0, <1>1, <1>3, BalanceParts DEF SameBalance
<1>4. CASE before # {}
  <2>1. Latest(e, before) = l
    BY <1>0 DEF Latest
  <2>2. before \subseteq Snapshots(d, p)
    BY DEF SnapsBefore
  <2>3. l \in before
    <3> HIDE DEF before
    <3> QED
      BY <1>4, <2>2, LatestExists
  <2>4. e.snap[l] = d.snap[l]
    BY <1>0, <2>3
  <2> DEFINE row == d.snap[l]
             total(f) == row.amount + FlowBefore(f, p, u) - FlowBefore(f, p, row.ts)
                         - (FeeOut(f, p, u) - FeeOut(f, p, row.ts))
  <2>5. BalanceAt(d, p, u, TRUE) = total(d)
    BY <1>4, BalanceParts
  <2>6. BalanceAt(e, p, u, TRUE) = total(e)
    <3>0. SnapsBefore(e, p, u) = before
      BY <1>0
    <3> HIDE DEF before
    <3>1. BalanceAt(e, p, u, TRUE) =
            LET r == e.snap[Latest(e, before)]
            IN  r.amount + FlowBefore(e, p, u) - FlowBefore(e, p, r.ts)
                - (FeeOut(e, p, u) - FeeOut(e, p, r.ts))
      BY <1>4, <3>0, BalanceParts
    <3>2. e.snap[Latest(e, before)] = row
      BY <2>1, <2>4
    <3> HIDE DEF row
    <3> QED
      BY <3>1, <3>2
  <2>7. total(e) = total(d)
    <3> HIDE DEF row
    <3> QED
      BY <1>2
  <2> HIDE DEF total
  <2> QED
    BY <2>5, <2>6, <2>7 DEF SameBalance
<1> QED
  BY <1>3, <1>4

\* Entering snapshot s as row, after every other snapshot of its pocket.
LaterSnapshot(d, e, s, row) ==
    /\ e.tx = d.tx /\ e.adj = d.adj /\ e.inj = d.inj /\ e.fee = d.fee
    /\ e.snap[s] = row /\ \A r \in SnapIds \ {s} : e.snap[r] = d.snap[r]
    /\ \A r \in Snapshots(d, row.cur) : d.snap[r].ts < row.ts

LEMMA EarlierLanded ==
    ASSUME NEW d, Settled(d, {}), NEW s \in SnapIds, NEW row \in SnapRows, d.snap[s] = NoRow,
           NEW e, LaterSnapshot(d, e, s, row)
    PROVE  LandedBut(e, {s})
<1> SUFFICES ASSUME NEW r \in SnapIds \ {s}, d.snap[r] # NoRow
             PROVE  BalanceAt(e, d.snap[r].cur, d.snap[r].ts, TRUE) = d.snap[r].amount
  BY DEF LandedBut, Landed, LaterSnapshot
<1> DEFINE q == d.snap[r].cur
           u == d.snap[r].ts
<1>1. r \in Snapshots(d, q) /\ Measured(d)
  BY DEF Snapshots, Settled, Typed
<1>2. row.ts \in Int /\ u \in Int
  BY <1>1, SnapshotRows, LedgerAssumption DEF SnapRows
<1>3. ASSUME q = row.cur
      PROVE  ~(row.ts < u)
  BY <1>1, <1>2, <1>3 DEF LaterSnapshot
<1>4. \A v \in SnapIds : v # s => e.snap[v] = d.snap[v]
  BY DEF LaterSnapshot
<1>5. SnapsBefore(e, q, u) = SnapsBefore(d, q, u)
  BY <1>3, <1>4 DEF SnapsBefore, Snapshots, LaterSnapshot
<1>6. \A v \in SnapsBefore(d, q, u) : e.snap[v] = d.snap[v]
  BY <1>4 DEF SnapsBefore, Snapshots
<1>7. SameUpTo(d, e, q, u)
  BY <1>5, <1>6 DEF SameUpTo, LaterSnapshot
<1>8. BalanceAt(d, q, u, TRUE) = d.snap[r].amount
  BY DEF Settled, LandedBut, Landed
<1> HIDE DEF q, u
<1>9. SameBalance(d, e, q, u)
  BY <1>1, <1>7, BalanceSame
<1> QED
  BY <1>8, <1>9 DEF q, u, SameBalance

LEMMA SnapshotSettles ==
    ASSUME PocketsFixed, NEW d, Settled(d, {}), NEW s \in SnapIds, d.snap[s] = NoRow,
           NEW row \in SnapRows, \A r \in Snapshots(d, row.cur) : d.snap[r].ts < row.ts,
           NEW e, e = [d EXCEPT !.snap[s] = row]
    PROVE  Settled(e, {s}) /\ e.snap[s] = row
<1>1. Typed(d) /\ Measured(d) /\ Shape(d) /\ Anchored(d.adj, d.snap) /\ Distinct(d.snap)
  BY DEF Settled, Typed, Measured
<1>2. /\ Shape(e) /\ e.tx = d.tx /\ e.snap = [d.snap EXCEPT ![s] = row]
      /\ e.fee = d.fee /\ e.adj = d.adj /\ e.inj = d.inj /\ e.link = d.link
      /\ e.dangling = d.dangling
  BY <1>1 DEF Shape
<1>3. e.snap[s] = row /\ \A r \in SnapIds \ {s} : e.snap[r] = d.snap[r]
  BY <1>1, <1>2 DEF Measured
<1>4. Anchored(e.adj, e.snap)
  BY <1>1, <1>2 DEF Anchored, Measured
<1>5. Typed(e)
  BY <1>1, <1>2, <1>4 DEF Typed, Measured
<1>6. row.ts \in Int /\ \A r, q : r \in Snapshots(d, q) => d.snap[r].ts \in Int
  <2>1. row.ts \in Int
    BY LedgerAssumption DEF SnapRows
  <2> QED
    BY <1>1, <2>1, SnapshotRows
<1>7. Distinct(e.snap)
  <2> SUFFICES ASSUME NEW r \in SnapIds, NEW v \in SnapIds, e.snap[r] # NoRow, e.snap[v] # NoRow,
                      e.snap[r].cur = e.snap[v].cur, e.snap[r].ts = e.snap[v].ts, r # v
               PROVE  FALSE
    BY DEF Distinct
  <2>1. ASSUME NEW w \in SnapIds \ {s}, e.snap[w] # NoRow, e.snap[w].cur = row.cur
        PROVE  e.snap[w].ts # row.ts
    <3>1. w \in Snapshots(d, row.cur)
      BY <1>3, <2>1 DEF Snapshots
    <3> QED
      BY <1>3, <1>6, <3>1
  <2>2. r # s /\ v # s
    BY <1>3, <2>1
  <2> QED
    BY <1>1, <1>3, <2>2 DEF Distinct
<1>8. LandedBut(e, {s})
  BY <1>2, <1>3, EarlierLanded DEF LaterSnapshot
<1> QED
  BY <1>3, <1>5, <1>7, <1>8 DEF Settled

\* What LandsOnTarget needs besides Well and Sound.  With several pockets no
\* transaction may have a fee: a charge on the main pocket is not refreshed
\* there by an edit of the transaction alone.
AllLanded == Distinct(DB.snap) /\ LandedBut(DB, {})

LEMMA CommitLands ==
    ASSUME NEW d, Settled(d, {}), Commit(d)
    PROVE  AllLanded'
<1>1. DB' = [tx |-> tx', snap |-> snap', adj |-> adj', inj |-> inj',
             link |-> link', dangling |-> dangling', fee |-> fee']
  BY DEF DB
<1>2. /\ DB'.tx = d.tx /\ DB'.snap = d.snap /\ DB'.adj = d.adj
      /\ DB'.inj = d.inj /\ DB'.fee = d.fee
  BY <1>1 DEF Commit
<1>3. Measured(d) /\ Distinct(d.snap) /\ LandedBut(d, {})
  BY DEF Settled, Typed
<1>4. ASSUME NEW e, e.tx = d.tx, e.snap = d.snap, e.adj = d.adj, e.inj = d.inj, e.fee = d.fee
      PROVE  LandedBut(e, {})
  <2> SUFFICES ASSUME NEW s \in SnapIds, e.snap[s] # NoRow
               PROVE  BalanceAt(e, e.snap[s].cur, e.snap[s].ts, TRUE) = e.snap[s].amount
    BY DEF LandedBut, Landed
  <2> DEFINE q == e.snap[s].cur
             u == e.snap[s].ts
  <2>1. BalanceAt(d, q, u, TRUE) = e.snap[s].amount
    BY <1>3, <1>4 DEF LandedBut, Landed
  <2> HIDE DEF q, u
  <2>2. SameUpTo(d, e, q, u)
    BY <1>4 DEF SameUpTo, SnapsBefore, Snapshots
  <2>3. SameBalance(d, e, q, u)
    BY <1>3, <2>2, BalanceSame
  <2> QED
    BY <2>1, <2>3 DEF q, u, SameBalance
<1>5. LandedBut(DB', {})
  BY <1>2, <1>4
<1> QED
  BY <1>2, <1>3, <1>5 DEF AllLanded
\* What the client leaves alone: a snapshot once entered, the generated rows,
\* and the transaction a fee belongs to.  With several pockets a delete
\* refreshes the pocket of the row's currency, and a fee is charged to others.
SteadyUse ==
    /\ {"resnapshot", "unsnapshot", "delete_generated", "move_fee"} \cap Ops = {}
    /\ OnePocket \/ {"delete", "full", "fee"} \cap Ops = {}

LEMMA TxLands ==
    ASSUME Regular, SteadyUse, Well(DB), Sound(DB), AllLanded, OnePocket \/ NoFees,
           NEW t \in TxIds, TxNext(t)
    PROVE  AllLanded'
<1>0. /\ Settled(DB, {}) /\ Typed(DB) /\ Owned(DB) /\ Joined(DB)
      /\ DB.tx \in [TxIds -> TxRows \cup {NoRow}]
  BY DEF AllLanded, Settled, Well, Sound, Typed, Measured, Shape
<1>1. ASSUME NEW row \in TxRows, NEW mode, Create(t, row, mode)
      PROVE  AllLanded'
  <2>1. DB.tx[t] = NoRow /\ Commit(Created(DB, t, row, mode))
    BY <1>1, Fields DEF Create, Fresh
  <2>2. DB.fee[t] = NoRow
    BY <1>0, <2>1 DEF Owned
  <2> QED
    BY <1>0, <2>1, <2>2, CreatedLands, CommitLands
<1>2. ASSUME NEW row \in TxRows, NEW mode, Update(t, row, mode)
      PROVE  AllLanded'
  <2>1. DB.tx[t] # NoRow /\ Commit(Updated(DB, t, row, mode))
    BY <1>2, Fields DEF Update, Fresh
  <2>2. DB.tx[t] \in TxRows /\ (OnePocket \/ DB.fee[t] = NoRow)
    BY <1>0, <2>1 DEF NoFees
  <2> QED
    BY <1>0, <2>1, <2>2, UpdatedLands, CommitLands
<1>3. ASSUME Delete(t)
      PROVE  AllLanded'
  <2>1. DB.tx[t] # NoRow /\ Commit(Deleted(DB, t)) /\ OnePocket
    BY <1>3, Fields DEF Delete, Fresh, SteadyUse
  <2>2. DB.tx[t] \in TxRows
    BY <1>0, <2>1
  <2> QED
    BY <1>0, <2>1, <2>2, DeletedLands, CommitLands
<1> QED
  BY <1>1, <1>2, <1>3 DEF TxNext

LEMMA FeeLands ==
    ASSUME Regular, SteadyUse, Well(DB), Sound(DB), AllLanded, NEW t \in TxIds, FeeNext(t)
    PROVE  AllLanded'
<1>0. /\ Settled(DB, {}) /\ Typed(DB) /\ Owned(DB) /\ Joined(DB)
      /\ \A u \in TxIds : DB.tx[u] # NoRow => DB.tx[u] \in TxRows
  BY DEF AllLanded, Settled, Well, Sound, Typed, Measured, Shape
<1>a. OnePocket
  BY DEF FeeNext, CreateFull, UpdateFull, CreateFee, UpdateFee, DeleteFee, SteadyUse
<1>b. ASSUME NEW row \in TxRows, NEW mode, NEW e,
             e \in {Created(DB, t, row, mode), Updated(DB, t, row, mode)}
      PROVE  e.tx[t] = row
  <2>1. e.tx = [DB.tx EXCEPT ![t] = row]
    BY <1>0, <1>b, StoredRow
  <2>2. DB.tx \in [TxIds -> TxRows \cup {NoRow}]
    BY <1>0 DEF Typed, Measured, Shape
  <2> QED
    BY <2>1, <2>2
<1>c. \A e, S : Settled(e, {}) => Settled(e, S)
  BY SettledMore
<1>1. ASSUME NEW row \in TxRows, NEW f \in FeeRows \cup {NoRow}, NEW mode,
             CreateFull(t, row, mode, f)
      PROVE  AllLanded'
  <2> DEFINE e == Created(DB, t, row, mode)
  <2>1. DB.tx[t] = NoRow /\ Commit(FeeStored(e, t, f))
    BY <1>1, Fields DEF CreateFull, Fresh
  <2>2. DB.fee[t] = NoRow
    BY <1>0, <2>1 DEF Owned
  <2>3. Settled(e, {}) /\ e.tx[t] \in TxRows
    BY <1>0, <1>b, <2>1, <2>2, CreatedLands
  <2> HIDE DEF e
  <2>4. Settled(FeeStored(e, t, f), {})
    BY <1>a, <1>c, <2>3, FeeStoredLands
  <2> QED
    BY <2>1, <2>4, CommitLands
<1>2. ASSUME NEW row \in TxRows, NEW f \in FeeRows \cup {NoRow}, NEW mode,
             UpdateFull(t, row, mode, f)
      PROVE  AllLanded'
  <2> DEFINE e == Updated(DB, t, row, mode)
  <2>1. DB.tx[t] # NoRow /\ Commit(Reconciled(FeeReplaced([e EXCEPT !.fee[t] = NoRow], t, f), t))
    BY <1>2, Fields DEF UpdateFull, Fresh
  <2>2. Settled(e, {}) /\ e.tx[t] \in TxRows
    BY <1>0, <1>a, <1>b, <2>1, UpdatedLands
  <2> HIDE DEF e
  <2>3. Settled(Reconciled(FeeReplaced([e EXCEPT !.fee[t] = NoRow], t, f), t), {})
    BY <1>a, <2>2, FeesReplacedLand
  <2> QED
    BY <2>1, <2>3, CommitLands
<1>3. ASSUME NEW f \in FeeRows \cup {NoRow}, DB.tx[t] # NoRow, Commit(FeeStored(DB, t, f))
      PROVE  AllLanded'
  BY <1>0, <1>a, <1>c, <1>3, FeeStoredLands, CommitLands
<1>4. ASSUME NEW u \in TxIds, NEW f \in FeeRows, UpdateFee(t, u, f)
      PROVE  AllLanded'
  <2> DEFINE S == Touched(DB, DB.tx[t].pocket, DB.tx[t].ts)
             e == [DB EXCEPT !.fee[t] = NoRow]
  <2>1. u = t /\ DB.tx[t] # NoRow /\ Commit(FeeStored(e, t, f))
    BY <1>4, Fields DEF UpdateFee, SteadyUse, Fresh
  <2>2. e = [DB EXCEPT !.fee[t] = NoRow] /\ NoRow \in FeeRows \cup {NoRow}
    OBVIOUS
  <2> HIDE DEF e
  <2>3. Settled(e, S) /\ SameTouched(DB, e) /\ e.tx = DB.tx
    BY <1>0, <1>a, <1>c, <2>1, <2>2, FeeStepLands
  <2>4. Settled(e, Touched(e, e.tx[t].pocket, e.tx[t].ts)) /\ e.tx[t] \in TxRows
    BY <1>0, <2>1, <2>3 DEF SameTouched
  <2>5. Settled(FeeStored(e, t, f), {})
    BY <1>a, <2>4, FeeStoredLands
  <2> QED
    BY <2>1, <2>5, CommitLands
<1>5. ASSUME NEW f \in FeeRows, CreateFee(t, f)
      PROVE  AllLanded'
  BY <1>3, <1>5, Fields DEF CreateFee, Fresh
<1>6. ASSUME DeleteFee(t)
      PROVE  AllLanded'
  BY <1>0, <1>3, <1>6, Fields DEF DeleteFee, Owned
<1> QED
  BY <1>1, <1>2, <1>4, <1>5, <1>6 DEF FeeNext

LEMMA SnapLands ==
    ASSUME Regular, SteadyUse, Well(DB), AllLanded, InOrder, NEW s \in SnapIds, SnapNext(s)
    PROVE  AllLanded'
<1> SUFFICES ASSUME NEW row \in SnapRows, CreateSnapshot(s, row)
             PROVE  AllLanded'
  BY DEF SnapNext, UpdateSnapshot, DeleteSnapshot, SteadyUse
<1> DEFINE d == [DB EXCEPT !.snap[s] = row]
           amount == Reconciling(d, row.cur, s, row.ts, row.amount)
           e == SetAdjustment(d, row.cur, s, row.ts, amount)
<1>1. /\ Settled(DB, {}) /\ Measured(DB) /\ Shape(DB) /\ DB.snap[s] = NoRow /\ Commit(e)
      /\ PocketsFixed /\ SnapshotDays
  BY Fields DEF CreateSnapshot, AllLanded, Settled, Well, Typed, Measured, Regular
<1>2. d.snap[s] = row
  BY <1>1 DEF Measured, Shape
<1>3. d = [DB EXCEPT !.snap[s] = row] /\ row # NoRow
  OBVIOUS
<1> HIDE DEF d
<1>4. e.snap = d.snap
  <2>1. Shape(d)
    BY <1>1, <1>3 DEF Shape
  <2> HIDE DEF amount
  <2> QED
    BY <2>1 DEF SetAdjustment, Shape
<1>5. \A r \in Snapshots(DB, row.cur) : DB.snap[r].ts < row.ts
  <2>1. snap'[s] = row
    BY <1>1, <1>2, <1>4 DEF Commit
  <2> QED
    BY <1>1, <1>3, <2>1, Fields DEF InOrder
<1>6. Settled(d, {s})
  BY <1>1, <1>3, <1>5, SnapshotSettles
<1>7. LandedBut(e, {s} \ {s})
  BY <1>1, <1>2, <1>3, <1>6, SetLands DEF Settled
<1>8. Typed(e)
  <2>1. row.cur \in Pockets /\ row.ts \in Int /\ row.amount \in Int
    BY LedgerAssumption DEF SnapRows
  <2>2. Measured(NoAdjustment(d, s)) /\ Typed(d)
    BY <1>6, NarrowedMeasured DEF Settled, Typed
  <2> DEFINE balance == BalanceAt(NoAdjustment(d, s), row.cur, row.ts, TRUE)
  <2>3. balance \in Int /\ amount = row.amount - balance
    BY <2>1, <2>2, BalanceIsInt DEF Reconciling
  <2> HIDE DEF balance, amount
  <2>4. amount \in Int
    BY <2>1, <2>3
  <2> QED
    BY <1>2, <1>3, <2>1, <2>2, <2>4, SetAdjustmentTyped
<1> HIDE DEF e
<1>9. Settled(e, {})
  <2>1. {s} \ {s} = {}
    OBVIOUS
  <2>2. Distinct(e.snap)
    BY <1>4, <1>6 DEF Settled
  <2> QED
    BY <1>7, <1>8, <2>1, <2>2 DEF Settled
<1> QED
  BY <1>1, <1>9, CommitLands
LandsInv == Well(DB) /\ Sound(DB) /\ AllLanded /\ (OnePocket \/ NoFees)

LEMMA InitLands == Init => AllLanded /\ NoFees
<1> SUFFICES ASSUME Init
             PROVE  AllLanded /\ NoFees
  OBVIOUS
<1>1. DB.snap = [s \in SnapIds |-> NoRow] /\ DB.fee = [t \in TxIds |-> NoRow]
  BY Fields DEF Init
<1> QED
  BY <1>1 DEF AllLanded, Distinct, LandedBut, Landed, NoFees

LEMMA NextLands ==
    ASSUME Regular, SteadyUse, LandsInv, [Next /\ InOrder]_vars
    PROVE  LandsInv'
<1>1. [Next]_vars
  OBVIOUS
<1>2. Well(DB)' /\ Sound(DB)'
  BY <1>1, NextWell, NextSound DEF LandsInv, IInv
<1>3. CASE UNCHANGED vars
  <2>1. DB' = DB
    BY <1>3 DEF vars, DB
  <2>2. AllLanded' /\ (NoFees <=> NoFees')
    BY <2>1 DEF AllLanded, NoFees, LandsInv
  <2> QED
    BY <1>2, <2>2 DEF LandsInv
<1>4. CASE Next /\ InOrder
  <2>1. AllLanded'
    <3>1. ~GeneratedNext
      BY DEF GeneratedNext, DeleteInjection, DeleteAdjustment, SteadyUse
    <3> QED
      BY <1>4, <3>1, TxLands, FeeLands, SnapLands DEF Next, LandsInv
  <2>2. OnePocket \/ NoFees'
    <3>1. ~OnePocket => "full" \notin Ops /\ "fee" \notin Ops
      BY DEF SteadyUse
    <3> QED
      BY <1>4, <3>1, StepWithoutFees DEF LandsInv
  <2> QED
    BY <1>2, <2>1, <2>2 DEF LandsInv
<1> QED
  BY <1>3, <1>4

\* Every snapshot lands on the amount the user declared, through every create,
\* edit and delete of transactions and fees around it: what a request changes
\* is felt by the first snapshot after it alone, for the later ones count from
\* a snapshot, and that one is the snapshot _recalculate_adjustments refreshes.
\* The hypotheses: snapshots are entered in the order of their instants and
\* kept; generated rows are kept, and a fee stays with its transaction; no
\* transaction is a manual adjustment; the entity has one pocket, or nobody
\* deletes transactions or stores fees; no snapshot is taken on the day of a
\* transaction at or before it, nor at the last instant of the day before; no
\* snapshot is taken between the adjustment of another and that one.  Without
\* any of these the code may leave a snapshot off its target.
THEOREM SnapshotsLand ==
    ASSUME "resnapshot" \notin Ops, "unsnapshot" \notin Ops,
           "delete_generated" \notin Ops, "move_fee" \notin Ops,
           "manual" \notin Kinds,
           \/ \A p, q \in Pockets : p = q
           \/ "delete" \notin Ops /\ "full" \notin Ops /\ "fee" \notin Ops,
           \A ts \in Instants, at \in SnapInstants : at < InjectionTs(ts) \/ ts < at,
           \A at, next \in SnapInstants : at < next => at < AdjustmentTs(next)
    PROVE  OrderedSpec => []LandsOnTarget
<1>1. Regular
  BY DEF Regular, SnapshotsClear, SnapshotDays, PocketsFixed
<1>2. SteadyUse
  BY DEF SteadyUse, OnePocket
<1>3. Init => LandsInv
  BY InitWell, InitSound, InitLands DEF LandsInv, IInv
<1>4. LandsInv /\ [Next /\ InOrder]_vars => LandsInv'
  BY <1>1, <1>2, NextLands
<1>5. LandsInv => LandsOnTarget
  BY Fields DEF LandsInv, AllLanded, LandedBut, Landed, LandsOnTarget
<1> QED
  BY <1>3, <1>4, <1>5, PTL DEF OrderedSpec
=============================================================================
