SPECIFICATION Spec
CONSTANTS
    Eras <- OldReleases
    DayLength = 2
    CronSecond = 1
    Retention = 2
    LastSecond = 3
    MaxKills = 2
INVARIANTS TypeOK ServesMigrated ServesSchema ServesUtc MigratedIsBackedUp
PROPERTIES PruneKeepsGood
CHECK_DEADLOCK FALSE
