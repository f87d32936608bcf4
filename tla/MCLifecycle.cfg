SPECIFICATION ScopedSpec
CONSTANTS
    Workers = {w1, w2}
    Callers = {c1, c2}
    UserCalls = {"pause", "resume", "cancel", "restart", "start"}
    MaxTasks = 2
    MaxRetries = 1
    MaxEvidence = 2
SYMMETRY Symmetry
CONSTRAINT InScope
INVARIANTS
    TypeOK
PROPERTIES
    ActiveIsHeld
    OutcomeIsSeen
    LostAuthorizationIsFinal
    SettledIsInert
CHECK_DEADLOCK FALSE
