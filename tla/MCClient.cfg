CONSTANTS
    Keys = {k1, k2}
    Journeys <- MCJourneys
    Fields = {f1, f2}
    Messages = {1, 2, 3, 4}
    PageSize = 2
    Photos = {1, 2}
    Sessions = {c1, c2}
    Nil = Nil
    MaxFlight = 3
    MaxMoves = 1
    MaxClicks = 1
    MaxFaults = 1
SPECIFICATION TabSpec
CHECK_DEADLOCK FALSE
INVARIANTS
    ShownAnswersQuery
PROPERTIES
    NoEndlessSpinner
    ThreadCatchesUp
