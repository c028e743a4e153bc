CONSTANTS
    Workers = {w1, w2}
    Unknown = {3}
    None = None
    MaxMoves = 3
    MaxAttempts = 2
    MaxCrashes = 1
SPECIFICATION FairSpec
CHECK_DEADLOCK FALSE
INVARIANTS
    LocationCatchesUp
PROPERTIES
    LocatedEventually
