CONSTANTS
    Workers = {w1, w2}
    Keys = {k1}
    Window = 1
    Inactivity = 1
    MaxAttempts = 2
    MaxRequests = 2
    MaxTime = 2
    MaxLate = 1
    MaxFaults = 1
SPECIFICATION FairSpec
CHECK_DEADLOCK FALSE
INVARIANTS
    NoLostObject
    ErasureLeavesNothing
PROPERTIES
    InactivityErasureIsDue
    EveryRequestSettles
