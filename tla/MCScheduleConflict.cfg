SPECIFICATION Spec
CONSTANTS
    Workers = {w1}
    Auths = {a1}
    None = None
    MaxTime = 1
    Grace = 1
    MaxAttempts = 1
    MaxRetries = 0
    MaxVersion = 2
    MaxPolicy = 1
    Undispatchable = {}
    OwnersLeave = FALSE
PROPERTY
    ConflictDisables
