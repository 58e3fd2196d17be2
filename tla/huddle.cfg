SPECIFICATION Spec
CHECK_DEADLOCK FALSE
CONSTANTS
    a = a
    b = b
    c1 = c1
    c2 = c2
    c3 = c3
    Pods = {a, b}
    Conns = {c1, c2, c3}
    Placements <- TwoAndOne
    Budgets <- Mixed
    MaxRoomPeers = 2
    IndexSpace = 3
    MaxAttempts = 2
INVARIANTS
    TypeOK
    EntryNotSilent
    DrainLeavesNothing
    OneIdentity
PROPERTIES
    LeaseIsFenced
