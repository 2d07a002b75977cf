CONSTANTS
    b1 = b1
    b2 = b2
    s1 = s1
    s2 = s2
    Backends = {b1, b2}
    NoBackend = NoBackend
    Capacity = 2
    Sessions = {s1, s2}
    SessionsMax = 1
    Slots = {0, 1}
    Hash <- MCHash
    RingbufSize = 1
    Cpus = {c1}
    Requests <- TwoRequests
    Batches <- OneBatch
SPECIFICATION Spec
INVARIANTS
    ForwardsToLive
PROPERTIES
    
    ExactSwitchover
    ImplementsAtomicMaps
