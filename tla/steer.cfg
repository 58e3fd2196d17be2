SPECIFICATION Spec
CONSTANTS
    c1 = c1
    c2 = c2
    a1 = a1
    MaxPending = 2
    MaxBatch = 2
    MaxRetries = 1
    DedupMode = "Queue"
    Threshold = 2
    Handling = "Steer"
    Controls = {"Cancel", "Rotate", "SwitchModel"}
    Timers = TRUE
    Heartbeats = FALSE
    Expiry = FALSE
    MaxEvents = 3
    MaxFaults = 1
    MaxControls = 1
    MaxMemberships = 0
    Roots = {"top", "thread"}
    Channels = {c1, c2}
    Agents = {a1}
    Shapes <- Conversations
INVARIANT WithheldHasSteer
INVARIANT SteeredOnce
INVARIANT QueueCapped
PROPERTY SteerOwnConversation
INVARIANT ScopedAlone
