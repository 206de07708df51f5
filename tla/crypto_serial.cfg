SPECIFICATION FairSpec
CONSTANTS
    Users = {ann, bob, moderator}
    Null = null
    Admin = admin
    Admins = {moderator}
    ReferrerOf <- MCReferrerOf
    ann = ann
    bob = bob
    h1 = h1
    h2 = h2
    moderator = moderator
    Handlers = {h1}
    InitialUSDC = 1500000
    AdminFloat = 9000000
    DuelPrice = 1
    Commission = 10
    CountModulus = 64
    SeatsPerAllocation = 2
    TransfersPerTransaction = 2
    Schedules <- MCSchedules
    ResolveJoinNotBefore = 0
    ReviewDays = 2
    Creators = {ann}
    Requests <- MCEverything
    Horizon = 4
    MaxFaults = 1
INVARIANTS OncePerAttempt PayoutsRecorded MoneyAccounted RoomHasPlace
PROPERTIES ClosedFinal EndedDuelSettles
CHECK_DEADLOCK FALSE
