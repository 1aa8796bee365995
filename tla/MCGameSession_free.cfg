CONSTANTS
    MaxMsgs = 3
    MaxBatch = 2
    Timeout = 0
SPECIFICATION Spec
INVARIANTS
    TypeOK
    InOrder
    NothingLost
    MtNeverReadAsDispatch
    EmptyKeyOnlyEarly
    OrderlyClientServed
PROPERTIES
    FollowsProtocol
CHECK_DEADLOCK FALSE
