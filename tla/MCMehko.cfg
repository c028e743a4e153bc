CONSTANTS
    Hosts = {h1}
    Ids = {i1, i2, i3}
    Typed <- MCTyped
    Offset <- MCOffset
    Capacities = {1, 2, 3}
    ListingsPerDay = 1
    MaxMealsPerDay = 2
    MaxMealsPerWeek = 3
    Txns = {t1, t2}
    Idle = Idle
    MaxRequests = 4
SPECIFICATION Spec
SYMMETRY Interchangeable
CHECK_DEADLOCK FALSE
INVARIANTS
    DailyCaps
    WeeklyOverrunBounded
    StartsAsTyped
