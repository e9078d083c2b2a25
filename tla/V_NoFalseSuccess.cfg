SPECIFICATION Spec
CONSTANTS
    Scripts <- Reconnect
    ConnectAttempts = 2
    SyncTries = 2
    Echoes = 1
    Greetings = 3
    StubBlocks = 1
    MaxFaults = 0
INVARIANT
    NoFalseSuccess
CHECK_DEADLOCK FALSE
