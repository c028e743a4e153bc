CONSTANTS
    Workers = {w1, w2}
    Unknown = {}
    None = None
    MaxMoves = 1
    MaxAttempts = 2
    MaxCrashes = 0
SPECIFICATION GeocodeSpec
CHECK_DEADLOCK FALSE
INVARIANT NoStaleLocation
