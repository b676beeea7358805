\* Three transactions at two instants of day 1 and on day 3, in one pocket; one
\* snapshot at the start of day 2.
SPECIFICATION Spec
CONSTANTS
    TxIds = {1, 2, 3}
    SnapIds = {s1}
    Pockets = {eur}
    NoCurrency = none
    MainCurrency = none
    Rate <- RateOne
    TicksPerDay = 3
    TzShift = 0
    Instants = {3, 4, 10}
    SnapInstants = {6}
    Amounts = {2}
    Targets = {1, 4}
    Kinds = {"in", "out"}
    Modes = {"auto", "debit", "inject"}
    Ops = {"create", "update", "delete", "snapshot", "resnapshot", "unsnapshot", "delete_generated"}
    NoRow = NoRow
INVARIANTS TypeOK InjectionsAttached LinksFund AdjustmentsAnchored
PROPERTIES SpendsFunded
CHECK_DEADLOCK FALSE
