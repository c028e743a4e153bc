CONSTANTS
    Procs = {p1, p2}
    Tokens = {t1, t2}
    LoginMax = 1
    IpMultiplier = 2
    ResendMax = 1
    MaxRequests = 3
    MaxExpired = 1
    MaxDead = 1
SPECIFICATION FairSpec
CHECK_DEADLOCK FALSE
INVARIANTS
    GuessesBounded
    FlagsMatchPolicy
    NoSessionSurvives
PROPERTIES
    NeverStranded
