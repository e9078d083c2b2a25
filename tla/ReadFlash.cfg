SPECIFICATION FairSpec
CONSTANTS
    Blocks = 3
    BlockSize = 4
    TailSize = 4
    DigestSize = 2
    MaxInFlight = 2
    MaxFaults = 3
INVARIANTS
    TypeOK
    OneFaultIsCaught
    FramesInStep
PROPERTIES
    Terminates
    CleanReads
CHECK_DEADLOCK FALSE
