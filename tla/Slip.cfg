SPECIFICATION Spec
CONSTANTS
    Payloads <- Escapes
    MaxFaults = 2
INVARIANTS
    TypeOK
    Resync
PROPERTY
    Refines
CHECK_DEADLOCK FALSE
