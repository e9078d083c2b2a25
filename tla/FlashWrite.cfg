SPECIFICATION FairSpec
CONSTANTS
    Plan <- AlignedPlan
    Cells = 6
    SectorCells = 2
    MaxFaults = 3
INVARIANTS
    TypeOK
    VerifiedStays
    LinkInv
PROPERTIES
    OthersUntouched
    Terminates
    FaultMasked
    Refines
CHECK_DEADLOCK FALSE
