\* Two keys share a team budget.
SPECIFICATION Spec
CONSTANTS
    r1 = r1
    r2 = r2
    k1 = k1
    k2 = k2
    team = team
    m1 = m1
    m2 = m2
    Scopes <- MCScopes
    Windowed = {k1}
    Keys = {k1, k2}
    ScopesOf <- TeamScopes
    Budget <- MCBudget
    SoftLimit <- MCSoftLimit
    Requests = {r1, r2}
    MaxTokens = 1
    NoKey = NoKey
    Models = {m1, m2}
    KeyTpm <- MCKeyTpm
    ModelTpm <- MCModelTpm
    Watched = 1
    Embedders = {k2}
    MaxLost = 1
SYMMETRY MCSymmetry
INVARIANTS
    TypeOK
    OvershootBounded
    AlertsOnce
    TpmBounded
    LedgerComplete
