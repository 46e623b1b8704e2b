SPECIFICATION ClientSpec
CONSTANTS
    MaxRuns = 3
    MaxTries = 2
INVARIANTS
    SuccessMeansWhole
    OldFileSurvivesFailure
    StatusIgnoresUpload
PROPERTIES
    KeyFileNeverReplaced
    CommandEnds
    CommandRunsDown
CHECK_DEADLOCK FALSE
