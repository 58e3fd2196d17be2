SPECIFICATION Spec
CONSTANTS
    c1 = c1
    c2 = c2
    a1 = a1
    MaxPending = 2
    MaxBatch = 2
    MaxRetries = 1
    DedupMode = "Queue"
    Threshold = 2
    Handling = "Queue"
    Controls = {}
    Timers = TRUE
    Heartbeats = FALSE
    Expiry = FALSE
    MaxEvents = 3
    MaxFaults = 2
    MaxControls = 0
    MaxMemberships = 2
    Roots = {"top"}
    Channels = {c1, c2}
    Agents = {a1}
    Shapes <- TwoChannelsReplayed
INVARIANT NoSilentLoss
INVARIANT BackoffCounted
INVARIANT OneTurnPerChannel
INVARIANT NewestLast
