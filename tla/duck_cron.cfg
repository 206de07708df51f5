SPECIFICATION FairSpec
CONSTANTS
    Users = {house, ann}
    Duels = {d1, d2}
    Handlers = {h1}
    House = house
    Premium = {ann}
    Null = null
    InitialBalance = 1000
    DuelPrice = 1000
    Commission = 10
    WinAmountLimit = 1000000
    CountModulus = 65536
    Schedules <- MCCronSchedules
    ResolveJoinNotBefore = 1
    ReviewDays = 2
    StreakDone = {house}
    Requests <- MCCron
    Horizon = 3
    Faults = FALSE
PROPERTIES EndedDuelsSettle OldReviewsCancelled
CHECK_DEADLOCK FALSE
