SPECIFICATION FullAnswersSpec
CONSTANTS
    Sigs = {s1, s2}
INVARIANTS UnconfirmedKept
CHECK_DEADLOCK FALSE
