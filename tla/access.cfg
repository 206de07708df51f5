SPECIFICATION AccessSpec
CONSTANTS
    UserSessionsLimit = 2
    MaxTGBotLoginLinkUsages = 1
    CounterModulus = 2
    RefreshTokenTTL = 3
    Handlers = {h1, h2}
    MaxTokens = 4
    MaxReads = 3
    MaxCodes = 1
    LastTick = 4
    LimitKeys = {k1}
    LimitMax = 2
    Expiration = 2
    LimitHits = 4
    LimitHorizon = 7
    Clients = {c1, c2}
    NoClient = noclient
INVARIANTS AccessTypeOK SessionsKept UsedOnce LimiterKeeps RecentLimit EntitledCalls
SYMMETRY MCSymmetry
CHECK_DEADLOCK FALSE
