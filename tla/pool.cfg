SPECIFICATION Spec
CONSTANTS
    c1 = c1
    c2 = c2
    a1 = a1
    a2 = a2
    MaxPending = 2
    MaxBatch = 2
    MaxRetries = 1
    DedupMode = "Queue"
    Threshold = 2
    Handling = "Steer"
    Controls = {}
    Timers = TRUE
    Heartbeats = TRUE
    Expiry = TRUE
    MaxEvents = 2
    MaxFaults = 2
    MaxControls = 0
    MaxMemberships = 0
    Roots = {"top"}
    Channels = {c1}
    Agents = {a1, a2}
    Shapes <- OneChannel
INVARIANT SlotOwnedOnce
INVARIANT LiveSlotClosed
INVARIANT HeartbeatExact
INVARIANT InFlightHasDeadline
INVARIANT OnePlace
PROPERTY ExitOnlyWhenDead
SYMMETRY AgentSymmetry
