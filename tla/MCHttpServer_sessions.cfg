CONSTANTS
    c1 = c1
    c2 = c2
    Conns <- Two
    Requests <- Kinds
    MaxRequests <- Requesting
    Limit = 1
SPECIFICATION FairSpec
INVARIANTS
    TypeOK
    AnsweredInTurn
    NothingAfterClose
PROPERTIES
    SessionsEnd
    StopReturns
CHECK_DEADLOCK FALSE
