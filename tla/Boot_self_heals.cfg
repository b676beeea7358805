\* No kills: what the user edits in the tax catalogue is enough.
SPECIFICATION Spec
CONSTANTS
    Eras <- OldReleases
    DayLength = 2
    CronSecond = 1
    Retention = 2
    LastSecond = 3
    MaxKills = 0
INVARIANTS SelfHeals
CHECK_DEADLOCK FALSE
