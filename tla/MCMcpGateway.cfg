\* Two servers and an administrator who renames, disables and deletes them.
SPECIFICATION Spec
CONSTANTS
    r1 = r1
    a1 = a1
    s1 = s1
    s2 = s2
    k1 = k1
    k2 = k2
    Requests = {r1}
    Admins = {a1}
    Ids <- MCIds
    NamesOf <- MCNamesOf
    ToolsOf <- MCToolsOf
    Stateful = {s1}
    Outcomes <- MCOutcomes
    Keys = {k1, k2}
    ScopeOf <- MCScopeOf
    MaxCalls = 2
INVARIANTS
    ToolsNeverCollide
    ListComplete
    AccountInv
PROPERTY
    DisabledLeftAlone
