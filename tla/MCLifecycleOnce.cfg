SPECIFICATION Spec
CONSTANTS
    Workers = {w1, w2}
    Callers = {c1}
    UserCalls = {}
    MaxTasks = 1
    MaxRetries = 1
    MaxEvidence = 2
INVARIANTS
    OneOutcomePerTask
CHECK_DEADLOCK FALSE
