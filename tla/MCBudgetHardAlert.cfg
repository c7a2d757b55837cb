\* The hard alert of a key.
SPECIFICATION Spec
CONSTANTS
    r1 = r1
    r2 = r2
    k1 = k1
    k2 = k2
    team = team
    m1 = m1
    m2 = m2
    Scopes <- MCScopes
    Windowed = {}
    Keys = {k1}
    ScopesOf <- OwnScope
    Budget <- MCBudget
    SoftLimit <- MCSoftLimit
    Requests = {r1}
    MaxTokens = 1
    NoKey = NoKey
    Models = {m2}
    KeyTpm <- NoTpm
    ModelTpm <- NoDefault
    Watched = 1
    Embedders = {}
    MaxLost = 0
PROPERTY HardAlertAtLimit
