SPECIFICATION FairSpec
CONSTANTS
    Requests = {q1, q2}
    Workers = {w1}
    MaxRevision = 2
    MaxConfig = 2
    MaxTests = 1
INVARIANTS
    TypeOK
    AtMostOncePerRequest
    DeliveredWasAccepted
    HandedToVettedConnector
    VersionsAreSpentOnce
    ValidatedIsLatest
PROPERTIES
    QueuedSettles
CHECK_DEADLOCK FALSE
