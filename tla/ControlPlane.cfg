CONSTANTS
    Callers = {c1}
    Runners = {r1}
    Closers = {k1}
    WatchWorkers = {w1}
    QSize = 1
    WatchCap = 1
    MaxAssignments = 5
    MaxCalls = 2
SPECIFICATION CPSpec
PROPERTIES
    UpdatesReturn
    AssignmentsRecorded
    ShutsDown
CHECK_DEADLOCK FALSE
