SPECIFICATION Spec
CHECK_DEADLOCK FALSE
CONSTANTS
    c1 = c1
    Channels = {c1}
    Skew = 1
    SeenLimit = 3
    Capacity = 1
    Scenarios <- Spread
INVARIANTS
    NothingMissed
