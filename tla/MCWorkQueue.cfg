SPECIFICATION Spec
CONSTANTS
    Actors = {u1, u2}
    Sources = {s1, s2}
    Keys = {k1, k2, k3}
    Leases = {2}
    None = None
    MaxTime = 3
    MaxExpected = 2
SYMMETRY Symmetry
INVARIANTS
    TypeOK
    ChainsVerify
    KeysTakeEffectOnce
    PromisedLeaseIsKept
PROPERTIES
    RepeatedCallIsAnswered
    ClaimsAreLeases
