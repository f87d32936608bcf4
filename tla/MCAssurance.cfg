SPECIFICATION FairSpec
CONSTANTS
    Workers = {w1, w2}
    MaxTime = 2
    MaxTaken = 2
    MaxRows = 1
INVARIANTS
    TypeOK
    EachAttemptPublishesOnce
    CompletedWasScanned
PROPERTIES
    SettledIsKept
    ClaimedSettles
CHECK_DEADLOCK FALSE
