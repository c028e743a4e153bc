CONSTANTS
    Workers = {w1, w2}
    Own = Own
    Moderators = {m1}
    Contact = Contact
    RetryMax = 1
    Adapter = "sendgrid"
    MaxAttempts = 2
    MaxFaults = 1
    MaxEdits = 1
SPECIFICATION FairSpec
CHECK_DEADLOCK FALSE
INVARIANTS
    SentWasAccepted
    OutcomeIsRecorded
PROPERTIES
    SuccessIsFinal
    AlertSettles
