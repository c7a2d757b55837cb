\* Streams of every kind, cut anywhere, and the circuits of their providers.
SPECIFICATION StreamSpec
CONSTANTS
    r1 = r1
    r2 = r2
    pa = pa
    pg = pg
    po = po
    t1 = t1
    t2 = t2
    NoText = NoText
    Streams = {r1, r2}
    Providers = {pa, pg, po}
    Chains <- MCChains
    KindOf <- MCKindOf
    Scripts <- MCScripts
    Refusing = {pa, pg}
    Texts = {t1, t2}
    FailThreshold = 2
    ResetTimeout = 2
    FailureCap = 3
INVARIANTS
    CaptureInv
    EndsOnce
PROPERTY TrialComes
