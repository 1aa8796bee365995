SPECIFICATION FairSpec
CONSTANTS
    Word = 18
    Interval = 3
    Jump = 4
    MinRto = 4
    MaxRto = 4
    MaxLag = 5
    Segs = {s1}
INVARIANTS
    FlushArmed
    CheckInTime
PROPERTIES
    UnackedResent
    WaitingFlushed
