SPECIFICATION Spec
CONSTANTS
    c1 = c1
    c2 = c2
    a1 = a1
    Callers = {c1, c2}
    Apps = {a1}
    Releases <- MCReleases
    Policies <- MCPolicies
    MaxLag = 1
    MaxBlocks = 3
    MaxPerBlock = 2
INVARIANTS
    FetchTypeOK
    ReleaseWasLatest
PROPERTIES
    ReadIsAtomic
