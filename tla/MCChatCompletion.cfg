\* Two tenants, a capped key and one whose cap comes and goes, an alias.
SPECIFICATION ChatSpec
CONSTANTS
    r1 = r1
    r2 = r2
    free = free
    capped = capped
    t1 = t1
    t2 = t2
    m1 = m1
    m2 = m2
    a1 = a1
    NoKey = NoKey
    NoModel = NoModel
    Keys <- MCKeys
    Requests = {r1, r2}
    LimitsOf <- MCLimitsOf
    Tenants = {t1, t2}
    TenantOf <- MCTenantOf
    Models = {m1, m2}
    Aliases = {a1}
    MayUse <- MCMayUse
    Ttl = 2
SYMMETRY MCSymmetry
INVARIANTS
    ChatTypeOK
    NoGhostSlots
    CounterExact
PROPERTIES
    NoOverbooking
    CacheScoped
    CacheFresh
