SPECIFICATION FairSpec
CONSTANTS
    Tables = {1, 2}
    Deduped = {1}
    Decimals = {1}
    Columned = {1}
    Wait = 60
    Attempt = 5
    Interval = 2
    AdHoc = FALSE
    MaxInits = 2
    MaxOutages = 1
    MaxAccidents = 1
INVARIANTS
    TriesLongEnough
    ScheduledOverVerified
    FailureHasCause
PROPERTY InitEnds
CHECK_DEADLOCK FALSE
