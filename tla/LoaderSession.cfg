SPECIFICATION FairSpec
CONSTANTS
    Scripts <- CLI
    ConnectAttempts = 2
    SyncTries = 2
    Echoes = 2
    Greetings = 3
    StubBlocks = 1
    MaxFaults = 2
INVARIANTS
    TypeOK
    StubMeansStub
    NoFalseSuccess
    BaudAgrees
PROPERTIES
    TrailerAgrees
    Terminates
    ConnectMasks
CHECK_DEADLOCK FALSE
