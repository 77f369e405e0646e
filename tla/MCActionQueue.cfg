SPECIFICATION FairSpec
CONSTANTS
    c1 = c1
    c2 = c2
    c3 = c3
    Conns <- MCConns
    MaxMessages = 1
INVARIANTS
    TypeOK
    NeverThrows
    ViewCatchesUp
    AtMostOneAfterStop
PROPERTIES
    QueueDrains
CHECK_DEADLOCK FALSE
