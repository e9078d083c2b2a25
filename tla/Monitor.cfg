SPECIFICATION Spec
CONSTANTS
    BufSize = 2
    MaxBytes = 4
    MaxFaults = 2
INVARIANTS
    TypeOK
    Streamed
PROPERTY
    Stops
CHECK_DEADLOCK FALSE
