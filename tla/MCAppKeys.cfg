SPECIFICATION KeySpec
CONSTANTS
    a1 = a1
    words = words
    Apps = {a1}
    Queries <- AllSpellings
    InstanceNames <- LowerSpellings
    Releases <- MCReleases
    Absent = Absent
    Invalid = Invalid
    MaxAddresses = 2
    AddressesToLog = 2
INVARIANTS
    CaseNeverRefuses
    PlansHold
    DiskStaysReadable
