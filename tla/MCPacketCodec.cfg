CONSTANTS
    ByteXor <- BitsXor
    Messages <- Few
    Keys <- OneAndThree
    PingReq = 7
    MaxMsgs = 2
SPECIFICATION FairSpec
INVARIANTS
    HandledAsSent
    ViewsInside
PROPERTIES
    GoodHandled
CHECK_DEADLOCK FALSE
