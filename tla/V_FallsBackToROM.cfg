SPECIFICATION Spec
CONSTANTS
    Scripts <- FlashOnly
    ConnectAttempts = 2
    SyncTries = 2
    Echoes = 1
    Greetings = 3
    StubBlocks = 1
    MaxFaults = 1
INVARIANT
    FallsBackToROM
CHECK_DEADLOCK FALSE
