\* A peer; rawSendCh and a source that may be there before it; a packet; and
\* goroutines that close the multiplexer, or the typed cluster, one or two of them.
CONSTANTS
    Nodes = {n1, n2}
    nodeId = n1
    Sources = {"rawSendCh", "source"}
    Given = {"source"}
    Closers = {k1}
    TypedClosers = {t1, t2}
    ChCap = 1
    MaxIn = 1
    MaxOut = 2
SPECIFICATION Spec
INVARIANTS
    
    ConnectionsReleased
    SentInOrder
PROPERTIES
    CloseEndsLoops
CHECK_DEADLOCK FALSE
