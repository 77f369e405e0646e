SPECIFICATION FairSpec
CONSTANTS
    MaxAsks = 2
    MaxFaults = 2
INVARIANTS
    TypeOK
    NeverTooLow
    GapIsBeingFilled
PROPERTIES
    ImplementsChannel
    StoredArrives
CHECK_DEADLOCK FALSE
