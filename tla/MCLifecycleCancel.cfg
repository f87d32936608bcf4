SPECIFICATION Spec
CONSTANTS
    Workers = {w1, w2}
    Callers = {c1}
    UserCalls = {"pause", "resume", "cancel", "restart", "start"}
    MaxTasks = 1
    MaxRetries = 1
    MaxEvidence = 1
PROPERTIES
    CancelledIsNotRun
