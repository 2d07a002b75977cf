CONSTANTS
    NBackends = 2
    ChCap = 1
    MaxItems = 3
SPECIFICATION ProcessSpec

    
    
PROPERTIES
    SignalEnds
    WatchersEnd
\* The process ends.
CHECK_DEADLOCK FALSE
