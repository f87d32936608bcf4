SPECIFICATION Spec
CONSTANTS
    Workers = {w1, w2}
    Auths = {a1, a2}
    None = None
    MaxTime = 2
    Grace = 1
    MaxAttempts = 2
    MaxRetries = 1
    MaxVersion = 2
    MaxPolicy = 1
    Undispatchable = {}
    OwnersLeave = FALSE
SYMMETRY Symmetry
CONSTRAINT InScope
INVARIANTS
    EachAttemptDeliversOnce
    ContractHeld
    DispatchedWasDelivered
    NextRunIsFresh
