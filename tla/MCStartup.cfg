CONSTANTS
    MinStack = 20
    MaxMissing = 5
SPECIFICATION Spec
INVARIANTS
    ValuesRight
    StackFits
    ReadyWhenServing
CHECK_DEADLOCK FALSE
