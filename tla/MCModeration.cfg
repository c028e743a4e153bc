CONSTANTS
    Contents = {l1, r1}
    Editable = {l1}
    Workers = {w1, w2}
    Moderators = {m1, m2}
    Blocked = {2}
    Idle = Idle
    MaxVersion = 2
    MaxFails = 1
    MaxCrashes = 1
SPECIFICATION FairSpec
CHECK_DEADLOCK FALSE
INVARIANTS
    NeverForgotten
    PublishedIsSound
PROPERTIES
    RejectedStaysHidden
    PendingIsHandled
