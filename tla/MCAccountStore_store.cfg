SPECIFICATION FairSpec
CONSTANTS
    Users = {u1, u2, noname}
    NoName = noname
    MaxTokens = 15
    MaxFaults = 1
    MaxRepeats = 1
INVARIANTS TypeOK UniqueNames IdsFresh KeysDistinct UnkeyedBounded ToldKeyVerifies
PROPERTY EveryoneGetsIn
CHECK_DEADLOCK FALSE
