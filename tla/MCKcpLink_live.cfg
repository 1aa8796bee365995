CONSTANTS
    FragLimit = 2
    SndWnd = 2
    RcvWnd = 2
    MaxSegs = 3
    MaxAcks = 2
    MaxFlight = 1
    Repeats = FALSE
SPECIFICATION FairSpec
PROPERTIES
    EverythingArrives
