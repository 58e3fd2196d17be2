SPECIFICATION FairSpec
CONSTANTS
    c1 = c1
    c2 = c2
    a1 = a1
    MaxPending = 2
    MaxBatch = 2
    MaxRetries = 1
    DedupMode = "Queue"
    Threshold = 2
    Handling = "Steer"
    Controls = {}
    Timers = TRUE
    Heartbeats = FALSE
    Expiry = FALSE
    MaxEvents = 2
    MaxFaults = 3
    MaxControls = 0
    MaxMemberships = 0
    Roots = {"top"}
    Channels = {c1}
    Agents = {a1}
    Shapes <- OneChannel
INVARIANT TypeOK
PROPERTY HeldLeaves
PROPERTY SlotsRecover
