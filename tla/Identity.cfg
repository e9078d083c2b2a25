SPECIFICATION FairSpec
CONSTANTS
    Firsts = {36, 38, 34}
    Lasts = {0, 36, 254}
    Universals = {2, 4}
    MaxCalls = 3
    MaxFaults = 3
INVARIANTS
    TypeOK
    RightAfterConnect
    InterfacesDistinct
PROPERTY
    CallEnds
CHECK_DEADLOCK FALSE
