\* Every interleaving of ServiceMain with the control handler, six settings
\* files, up to three calls of managerConnect.
SPECIFICATION FairSpec
CONSTANTS
    Files <- MCFiles
    MaxDepth = 3
INVARIANTS
    TypeOK
    StoppedServesNobody
    SettingsAreRead
    StartedOnAnsweringManager
PROPERTIES
    ReportsGoForward
    StopIsAnswered
CHECK_DEADLOCK FALSE
