CONSTANTS
    MaxMsgs = 2
    MaxBatch = 2
    Timeout = 1
SPECIFICATION FairSpec
PROPERTIES
    SilentSessionEnds
    BacklogDrains
CHECK_DEADLOCK FALSE
