SPECIFICATION WalkSpec
CONSTANTS
    MaxLogs = 2
    AbiVersion = "v1.4"
    NoLog = NoLog
INVARIANTS
    LatestOfAllReturned
CHECK_DEADLOCK FALSE
