\* In memory, the key's limit changes while its bucket is in use; in Redis, calls
\* are late and overtake each other.
SPECIFICATION LimiterSpec
CONSTANTS
    c1 = c1
    c2 = c2
    c3 = c3
    Calls <- MCCalls
    Minute = 4
    Limits = {1, 2, 3}
    MaxElapsed = 6
    Limit = 3
    MaxDelay = 2
    MaxWindow = 5
SYMMETRY MCSymmetry
INVARIANTS
    TypeOK
    WindowBound
    RetryAfterHonest
    RedisTypeOK
    SharedBound
PROPERTY ImplementsIdeal
