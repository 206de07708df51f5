SPECIFICATION Spec
CONSTANTS
    Users = {house, ann, bob}
    Duels = {d1}
    Handlers = {h1, h2}
    House = house
    Premium = {house}
    Null = null
    ann = ann
    bob = bob
    h1 = h1
    h2 = h2
    InitialBalance = 2000
    DuelPrice = 1000
    Commission = 10
    WinAmountLimit = 1000000
    CountModulus = 65536
    Schedules <- MCRaceSchedules
    ResolveJoinNotBefore = 1
    ReviewDays = 2
    StreakDone = {house, ann, bob}
    Requests <- MCJoins
    Horizon = 2
    Faults = FALSE
INVARIANTS OneSeatPerUser
CHECK_DEADLOCK FALSE
