SPECIFICATION TokenSpec
CONSTANTS
    a1 = a1
    s1 = s1
    Callers = {s1}
    Apps = {a1}
    Releases <- MCReleases
    Policies <- MCPolicies
    Requests <- MCRequests
    NoRequest = NoRequest
    KeySets <- MCKeySets
    DebugModes = {FALSE}
    MaxLag = 0
    MaxBlocks = 2
    MaxPerBlock = 1
INVARIANTS
    FilteredSetIsOfOneJWKS
