\* Two administrators, and what one process knows of their changes.
SPECIFICATION Spec
CONSTANTS
    Admins = {a1, a2}
    Names = {m1}
    Targets = {m2}
    Credentials = {c1, c2}
    Secrets = {k1, k2}
    Deployments = {d1}
    None = None
    Unset = Unset
    MaxRaced = 1
    Upgraded = TRUE
SYMMETRY Alike
INVARIANTS
    TypeOK
    ReferencesHold
    SnapshotsFresh
