SPECIFICATION ServerSpec
CONSTANTS
    a1 = a1
    a2 = a2
    s1 = s1
    Callers = {s1}
    Apps = {a1}
    Releases <- MCReleases
    Policies <- MCPolicies
    Requests <- MCRequests
    NoRequest = NoRequest
    DebugModes = {TRUE, FALSE}
    MaxLag = 1
    MaxBlocks = 3
    MaxPerBlock = 1
INVARIANTS
    ServerTypeOK
    ServedToLatestCode
    AdmittedByPolicy
    TCBMeetsMinimum
    RefusalIsJustified
