CONSTANTS
    Endpoints <- Distinct
    Word = 4
    Timeout = 0
    MaxClock = 2
    MaxFailed = 1
SPECIFICATION FairSpec
PROPERTIES
    EveryoneAnswered
CHECK_DEADLOCK FALSE
