SPECIFICATION FairSpec
CONSTANTS
    Workers = {w1}
    Auths = {a1}
    None = None
    MaxTime = 1
    Grace = 1
    MaxAttempts = 2
    MaxRetries = 0
    MaxVersion = 2
    MaxPolicy = 2
    Undispatchable = {2}
    OwnersLeave = TRUE
INVARIANTS
    TypeOK
PROPERTIES
    WaitingIsStarted
    SupersededIsInert
