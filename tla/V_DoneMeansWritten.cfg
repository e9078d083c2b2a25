SPECIFICATION Spec
CONSTANTS
    Plan <- SharedSectorPlan
    Cells = 6
    SectorCells = 2
    MaxFaults = 0
INVARIANT
    DoneMeansWritten
CHECK_DEADLOCK FALSE
