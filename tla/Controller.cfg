CONSTANTS
    N = 3
    NoBackend = NoBackend
    Sessions = {s1}
    SessionsMax = 1
    Slots = {0}
    Hash <- MCHash
    HealthCap = 1
    PendingMax = 2
    MaxFlaps = 2
    MaxDrops = 1
    MaxFailures = 1
SPECIFICATION Spec
INVARIANTS
    KernelMatchesStatus
    KernelIndicesLive
    SessionsKeptUnshifted
PROPERTIES
    Converges
CHECK_DEADLOCK FALSE
