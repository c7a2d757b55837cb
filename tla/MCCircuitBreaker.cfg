\* The breaker under concurrent requests.  No symmetry: a liveness property.
SPECIFICATION Spec
CONSTANTS
    c1 = c1
    c2 = c2
    c3 = c3
    p1 = p1
    p2 = p2
    Callers <- MCCallers
    Providers <- MCProviders
    NoProvider = NoProvider
    FailThreshold = 2
    ResetTimeout = 2
INVARIANTS
    TypeOK
    BoundedHammering
    OpenOnlyAfterStreak
PROPERTY ReopensForTrial
