SPECIFICATION ProtocolSpec
CONSTANTS
    a1 = a1
    s1 = s1
    s2 = s2
    vm1 = vm1
    Callers = {s1, s2}
    Instances = {vm1}
    Machine <- MCMachine
    NoClient = NoClient
    NoRequest = NoRequest
    Apps = {a1}
    Releases <- AllReleases
    Policies <- OnePolicy
    Requests <- ClientRequests
    DebugModes = {FALSE}
    MaxLag = 0
    MaxBlocks = 3
    MaxPerBlock = 1
    Burst = 1
    MaxBoots = 2
    MaxTries = 1
SYMMETRY Slots
INVARIANTS
    LatestCodeHasAccess
    RebootNeverGoesBack
    ReadsNeverGoBack
PROPERTIES
    DeliversAsPromised
CHECK_DEADLOCK FALSE
