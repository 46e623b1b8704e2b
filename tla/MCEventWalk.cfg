SPECIFICATION WalkSpec
CONSTANTS
    MaxLogs = 4
    AbiVersion = ""
    NoLog = NoLog
INVARIANTS
    WalkFindsNewest
PROPERTIES
    FeederIsDrained
CHECK_DEADLOCK FALSE
