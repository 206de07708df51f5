SPECIFICATION BackgroundSpec
CONSTANTS
    Sigs = {s1, s2}
    FaqUsers = {u1}
    Visitors = {v1}
    Moderators = {m1}
    Desks = {d1, d2}
    ChanFAQBot = 1
    MaxQuestions = 2
    MaxCalls = 3
    MaxRestarts = 1
    Bearers = {b1}
    Mints = {mint1, mint2}
    MaxEdits = 4
    CoinIDs = {c1, c2}
    TokenMints = {mint1}
    Ranks = {0, 1, 2}
    Fees = {0, 1, 2}
    FallbackMicroLamports = 3
    Updaters = {r1, r2}
    MaxAnswers = 3
INVARIANTS BackgroundTypeOK VerdictsHold FaqCountsAgree PriorityFromNode
PROPERTIES EveryCallerReturns EveryQuestionAnnounced DuckPointsStayRemoved
CHECK_DEADLOCK FALSE
