SPECIFICATION Spec
CONSTANTS
    c1 = c1
    c2 = c2
    a1 = a1
    MaxPending = 2
    MaxBatch = 2
    MaxRetries = 1
    DedupMode = "Queue"
    Threshold = 2
    Handling = "Steer"
    Controls = {}
    Timers = TRUE
    Heartbeats = FALSE
    Expiry = FALSE
    MaxEvents = 3
    MaxFaults = 0
    MaxControls = 0
    MaxMemberships = 0
    Roots = {"top"}
    Channels = {c1, c2}
    Agents = {a1}
    Shapes <- TwoChannels
INVARIANT NoSilentLoss
