SPECIFICATION Spec
CONSTANTS
    Keys = {"0x0", "0x10000", "65536", "1x"}
    BadKeys = {"1x"}
    Offset <- Offsets
    Paths = {"boot/boot.bin", "alt/boot.bin", "app.bin"}
    Base <- BaseNames
    Contents = {"x", "y"}
    Sizes <- FlashSizes
    Word = 4096
    Kilo = 8
    MaxFaults = 2
INVARIANTS
    TypeOK
    SamePlan
    RefusedForCause
    Exact
CHECK_DEADLOCK FALSE
