SPECIFICATION FairSpec
CHECK_DEADLOCK FALSE
CONSTANTS
    c1 = c1
    Channels = {c1}
    Skew = 1
    SeenLimit = 3
    Capacity = 1
    Scenarios <- Mixed
INVARIANTS
    TypeOK
    SubscribedIffMember
    WindowComplete
    OverflowRecovered
    DeliveredOnce
    WakeNotStale
    NeverSleepsOnWork
    NoPoolLeaks
PROPERTIES
    QueuedIsDispatched
