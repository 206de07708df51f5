SPECIFICATION CommunitySpec
CONSTANTS
    signUp = signUp
    streak = streak
    join = join
    Tasks = {signUp, streak, join}
    TaskSignUp = signUp
    TaskCompletDailyStreak = streak
    Resettable = {streak}
    Reward <- MCReward
    XP <- MCXP
    CompletionLimit <- MCCompletionLimit
    LevelXP <- MCLevelXP
    WeeklyCycle = 2
    CountModulus = 65536
    InitialBalance = 10
    Handlers = {h1, h2}
    MaxCompletions = 2
    MaxOverlaps = 1
    LastDay = 4
    Persons = {p1, p2, p3}
    Names = {n1, n2}
    Wanted <- MCWanted
    ByTelegram = {p2}
    Strangers = {}
    InvitationReward = 1
    Amounts <- MCAmounts
    Calls = {c1, c2}
    MaxRequests = 5
    p1 = p1
    p2 = p2
    p3 = p3
    n1 = n1
    n2 = n2
    Tournaments = {t1}
    Contestants = {u1, u2}
    Contests = {d1, d2}
    CryptoContests = {d2}
    DuelPrice = 2
    NoTournament = none
    RewardLists <- MCRewardLists
    Organisers = {o1, o2}
    MaxEntries = 5
    Owners = {w1}
    Foreign = {f1}
    Coin = {sol}
    AskedSums = {1}
    Endowment = 2
    TransferAsks = {q1, q2}
    SwapAsks = {q3}
    SwapMaxRetryCount = 2
    Levels = {2, 3}
    Grain = 1
    CoinPriceDiff = 1
    HourTicks = 2
    EventAfter = 5
    ResolveJoinNotBefore = 4
    MaxLag = 1
    Bettors = {house, bettor}
    House = house
    MaxBets = 1
    MaxLookups = 1
    MaxSettled = 1
    CreateBy = 0
    Horizon = 6
INVARIANTS CommunityTypeOK RewardsAddUp PaidOnce StreakIsARun AccountsHold TournamentAddsUp WalletsTell PriceDuelsFair
SYMMETRY MCSymmetry
CHECK_DEADLOCK FALSE
