CONSTANTS
    Watchers = {w1, w2}
    Dispatchers = {d1, d2}
    Capacity = 2
    MaxValues = 3
SPECIFICATION Spec

    
    
PROPERTIES
    CloseEndsWatchers
CHECK_DEADLOCK FALSE
