CONSTANTS
    FragLimit = 2
    SndWnd = 1
    RcvWnd = 2
    MaxSegs = 5
    MaxAcks = 1
    MaxFlight = 2
    Repeats = TRUE
SPECIFICATION Spec
INVARIANTS
    DroppedOnlyIfReceived
    ReceiverBounded
