SPECIFICATION FairSpec
CONSTANTS
    Workers = {w1, w2}
    Limit = 2
    MaxRetries = 1
    MaxTaken = 3
INVARIANTS
    TypeOK
    SentWasAccepted
    EachAttemptDeliversOnce
PROPERTIES
    SentNotificationIsFinal
    EveryDeliverySettles
CHECK_DEADLOCK FALSE
