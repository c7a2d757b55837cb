\* Three replicas, one crash, two edits; once all serve and the admins rest,
\* nothing is left to do.
SPECIFICATION Spec
CONSTANTS
    a = a
    b = b
    c = c
    m1 = m1
    m2 = m2
    m3 = m3
    c1 = c1
    c2 = c2
    k1 = k1
    k2 = k2
    Replicas = {a, b, c}
    Tables <- MCTables
    Columns <- MCColumns
    TableOf <- MCTableOf
    FromEnv <- MCFromEnv
    Names <- MCNames
    Databases <- MCDatabases
    MaxCrashes = 1
    MaxEdits = 2
INVARIANT StartupInv
PROPERTIES
    DeletionsStick
    EventuallyServes
CHECK_DEADLOCK FALSE
