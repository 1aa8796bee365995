CONSTANTS
    Endpoints <- Colliding
    Word = 8
    Timeout = 0
    MaxClock = 4
    MaxFailed = 1
SPECIFICATION Spec
INVARIANTS
    TypeOK
    EntryIffAnswered
    SegmentsFromPeerOnly
CHECK_DEADLOCK FALSE
