\* Every transaction and fee endpoint, on two pockets, for an entity whose main currency is
\* one of them; a snapshot may anchor either before the day of the transactions.
SPECIFICATION Spec
CONSTANTS
    TxIds = {1, 2}
    SnapIds = {s1}
    Pockets = {eur, usd}
    NoCurrency = none
    MainCurrency = eur
    Rate <- RateOne
    TicksPerDay = 3
    TzShift = 0
    Instants = {3}
    SnapInstants = {1}
    Amounts = {1}
    Targets = {1}
    Kinds = {"out", "manual"}
    Modes = {"auto"}
    Ops = {"create", "update", "delete", "full", "fee", "move_fee", "snapshot", "delete_generated"}
    NoRow = NoRow
INVARIANT AttachmentModel
CHECK_DEADLOCK FALSE
