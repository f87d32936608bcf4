SPECIFICATION ScopedSpec
CONSTANTS
    Users = {u1, u2}
    Requests = {q1, q2}
    Workers = {w1, w2}
    MaxRuns = 2
    MaxVersion = 3
    Verdicts = {"confirmed"}
    Dispositions = {"accepted_risk"}
SYMMETRY Symmetry
CONSTRAINT InScope
INVARIANTS
    TypeOK
    VersionsAreSpentOnce
    VerdictsWereObserved
    ReplaysRepeat
PROPERTIES
    ClosureIsGoverned
CHECK_DEADLOCK FALSE
