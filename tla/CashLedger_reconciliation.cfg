\* Two snapshots taken in order, at the start of days 2 and 4; transactions
\* before, between and after them, with fees; no main currency; a profile one
\* tick ahead of UTC.
SPECIFICATION OrderedSpec
CONSTANTS
    TxIds = {1, 2}
    SnapIds = {s1, s2}
    Pockets = {eur}
    NoCurrency = none
    MainCurrency = none
    Rate <- RateOne
    TicksPerDay = 3
    TzShift = 1
    Instants = {3, 9, 15}
    SnapInstants = {6, 12}
    Amounts = {2}
    Targets = {0, 3}
    Kinds = {"in", "out"}
    Modes = {"auto", "inject"}
    Ops = {"create", "update", "delete", "snapshot", "full", "fee"}
    NoRow = NoRow
INVARIANTS LandsOnTarget
CHECK_DEADLOCK FALSE
