\* A buffer of two, a list of two and a channel of one, so that each overflows
\* within four proposals.
CONSTANTS
    Size = 2
    Readers = {r1}
    MaxWrites = 4
    capacity = 2
    ChCap = 1
    NKeys = 2
    MaxSnapshots = 1
SPECIFICATION DvSpec
INVARIANTS
    NoLostWakeup
    LogIsNewest
    NothingLostInHand
    NewestWins
PROPERTIES
    ImplementsLossyFifo
    
CHECK_DEADLOCK FALSE
