CONSTANTS
    Callers = {c1}
    Runners = {r1}
    Closers = {k1}
    WatchWorkers = {w1}
    QSize = 1
    WatchCap = 1
    MaxAssignments = 1
    MaxCalls = 1
SPECIFICATION Spec
INVARIANTS
    NoPanic
CHECK_DEADLOCK FALSE
