CONSTANTS
    Workers = {w1, w2}
    Bookings = {b1}
    Payloads = {b1}
    Keys <- PromotionKeys
    NoKey = NoKey
    Idle = Idle
    Batch = 2
    MaxAttempts = 2
    BackoffBase = 1
    BackoffMax = 1
    Skew = 1
    MaxJobs = 2
    MaxTime = 2
    MaxMoves = 2
    MaxCrashes = 1
    MaxRequeues = 1
SPECIFICATION PromotionFairSpec
CHECK_DEADLOCK FALSE
INVARIANTS
    OInv
    NeverLost
PROPERTIES
    FollowsJobLedger
    PromotedEventually
    OutboxView
