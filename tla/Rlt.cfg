CONSTANTS
    m = 7
    MaxBackends = 3
    nCoordinates = 2
    Coordinates = {0, 1, 8, 11, 19}
    Width = 256
SPECIFICATION RltSpec
INVARIANTS
    QuotaAccounted
    SharesKept
PROPERTIES
    Terminates
CHECK_DEADLOCK FALSE
