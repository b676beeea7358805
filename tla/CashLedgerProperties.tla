------------------------ MODULE CashLedgerProperties ------------------------
(* What the cash ledger promises (doc/calculations/finance.md, section 8), *)
(* stated over CashLedger.                                                 *)
EXTENDS CashLedger

Slots == Pockets \X {InjectionTs(ts) : ts \in Instants}

TypeOK ==
    /\ tx \in [TxIds -> TxRows \cup {NoRow}]
    /\ snap \in [SnapIds -> SnapRows \cup {NoRow}]
    /\ DOMAIN adj \subseteq SnapIds \X Pockets
    /\ \A k \in DOMAIN adj : adj[k] \in [ts : Int, amount : Int]
    /\ DOMAIN inj \subseteq Slots
    /\ \A slot \in DOMAIN inj : inj[slot] \in Nat \ {0}
    /\ link \subseteq Slots \X TxIds /\ dangling \subseteq Slots \X TxIds
    /\ fee \in [TxIds -> FeeRows \cup {NoRow}]

-----------------------------------------------------------------------------
(* The attachment model.                                                   *)

\* No inferred cash without the spend it explains: an injection has at least one
\* link, through every create, edit, move and delete of its spends.  The pocket of
\* the main currency is left out, for a fee injects there without a link.
InjectionsAttached ==
    \A slot \in DOMAIN inj : slot[1] # MainCurrency => \E t \in TxIds : <<slot, t>> \in link

\* A link leads to a spend that exists, of the pocket of its injection and of the
\* day after it.  The injection exists too, but for those of the main currency,
\* which a change of fees deletes without their links.
LinksFund ==
    /\ \A l \in link \cup dangling :
          /\ tx[l[2]] # NoRow
          /\ IsSpend(tx[l[2]])
          /\ Slot(tx[l[2]]) = l[1]
    /\ \A l \in link : l[1] \in DOMAIN inj
    /\ \A l \in dangling : l[1][1] = MainCurrency

\* Both, for an entity with a main currency: fees that inject and delete between
\* the edits of spends neither strand another pocket's injection nor leave a link
\* to a row that was moved, retyped or deleted.
AttachmentModel == InjectionsAttached /\ LinksFund

\* Every generated adjustment of a snapshot belongs to a snapshot that exists,
\* in the pocket that snapshot is about.
AdjustmentsAnchored ==
    \A k \in DOMAIN adj : snap[k[1]] # NoRow /\ snap[k[1]].cur = k[2]

-----------------------------------------------------------------------------
(* Reconciliation.                                                         *)

\* Walking the ledger up to a snapshot gives the amount the user declared:
\* actual_balance(ts) = computed + adjustment == target.
LandsOnTarget ==
    \A s \in SnapIds : snap[s] # NoRow =>
        BalanceAt(DB, snap[s].cur, snap[s].ts, TRUE) = snap[s].amount

\* A spend recorded or edited under the smart default, in a pocket with no
\* snapshot before it, leaves the pocket at zero or above at that moment.
SpendsFunded ==
    [][\A t \in TxIds : LET row == tx'[t] IN
         /\ row \notin {tx[t], NoRow}
         /\ IsSpend(row)
         /\ SnapsBefore(DB, row.pocket, row.ts) = {}
         /\ Create(t, row, "auto") \/ Update(t, row, "auto")
         => BalanceAt(DB', row.pocket, row.ts, TRUE) >= 0]_vars

\* The usage finance.md describes: snapshots are taken in the order of their
\* instants.
InOrder ==
    \A s \in SnapIds : snap[s] = NoRow /\ snap'[s] # NoRow =>
        \A r \in Snapshots(DB, snap'[s].cur) : snap[r].ts < snap'[s].ts

OrderedSpec == Init /\ [][Next /\ InOrder]_vars
=============================================================================
