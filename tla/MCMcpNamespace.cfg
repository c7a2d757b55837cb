\* A server whose name ends with an underscore.
SPECIFICATION Spec
CONSTANTS
    r1 = r1
    a1 = a1
    s1 = s1
    s2 = s2
    k1 = k1
    k2 = k2
    Requests = {r1}
    Admins = {a1}
    Ids <- MCIds
    NamesOf <- MCNamesOfUnderscore
    ToolsOf <- MCToolsOf
    Stateful = {s1}
    Outcomes <- MCOutcomes
    Keys = {k1}
    ScopeOf <- MCScopeOfAll
    MaxCalls = 2
INVARIANT
    ToolsNeverCollide
