CONSTANTS
    FragLimit = 3
    SndWnd = 3
    RcvWnd = 3
    MaxSegs = 3
    MaxAcks = 3
    MaxFlight = 2
    Repeats = TRUE
SPECIFICATION Spec
INVARIANTS
    TypeOK
PROPERTIES
    ImplementsFifo
