CONSTANTS
    Callers = {c1, c2, c3}
    Runners = {r1, r2}
    Closers = {k1}
    WatchWorkers = {w1}
    QSize = 1
    WatchCap = 1
    MaxAssignments = 1
    MaxCalls = 3
SPECIFICATION Spec
SYMMETRY MCSymmetry
INVARIANTS
    AckImpliesApplied
    AppliedInOrder
    ReplyHasReceiver
    AtMostOneLeftBehind
    NoDispatchAfterClose
CHECK_DEADLOCK FALSE
