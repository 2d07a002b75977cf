CONSTANTS
    Half = 8
    Keys = {1, 2}
    Values = {0, 1, 3}
    Bounds = {2}
    MaxCommands = 4
SPECIFICATION Spec
INVARIANTS
    Isolated
    
    

    
CHECK_DEADLOCK FALSE
