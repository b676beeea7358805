\* Two schedules, days of two ticks, a server west of UTC: at tick 5 its date
\* becomes the one UTC has shown since tick 4.
SPECIFICATION Spec
CONSTANTS
    None = None
    MaxId = 2
    Plans <- IncomeAndPurchase
    TicksPerDay = 2
    ServerOffset <- West
    ProfileOffset = 0
    WeekDays = 2
    MonthDays = 3
    FirstTick = 4
    LastTick = 7
    MaxCopies = 2
INVARIANTS TypeOK ExactlyOnce
PROPERTIES BootCatchesUp KeepsLedger
