CONSTANTS
    N = 3
    NoBackend = NoBackend
    Sessions = {s1}
    SessionsMax = 1
    Slots = {0}
    Hash <- MCHash
    HealthCap = 1
    PendingMax = 1
    MaxFlaps = 2
    MaxDrops = 0
    MaxFailures = 0
SPECIFICATION Spec
INVARIANTS
    SessionsKept
