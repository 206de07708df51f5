SPECIFICATION QueriesSpec
CONSTANTS
    Users = {house, ann, bob}
    Duels = {d1}
    Handlers = {h1}
    House = house
    Premium = {bob}
    Null = null
    InitialBalance = 2100
    DuelPrice = 1000
    Commission = 10
    WinAmountLimit = 1000000
    CountModulus = 65536
    Schedules <- MCSchedules
    ResolveJoinNotBefore = 1
    ReviewDays = 2
    StreakDone = {house}
    Requests <- MCEverything
    Horizon = 4
    Faults = FALSE
INVARIANTS QueriesAgree ResolvedAccounts BooksBalance
PROPERTIES SettledFinal KeepsEscrow
CHECK_DEADLOCK FALSE
