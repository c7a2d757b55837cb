\* Two requests, failover between two keys and two providers, reloads.
SPECIFICATION Spec
CONSTANTS
    r1 = r1
    r2 = r2
    m1 = m1
    m2 = m2
    d1 = d1
    d2 = d2
    e1 = e1
    e2 = e2
    p1 = p1
    p2 = p2
    Requests = {r1, r2}
    Models = {m1, m2}
    Deployments = {d1, d2}
    ModelOf <- MCModelOf
    EnvCredential <- MCEnvCredential
    Configured <- MCConfigured
    ProviderOf <- MCProviderOf
    Strategy = "least-busy"
    Asks <- MCAsks
    Tables <- MCTables
    Outcomes <- FlakyFirst
    Attempts = 2
    FailThreshold = 2
    ResetTimeout = 1
    MaxLeaks = 1
    NoProvider = NoProvider
INVARIANTS
    AccountInv
    AmplificationBounded
    HealthyServes
PROPERTIES
    LeastBusyFirst
    Answered
    DrivesBreaker
