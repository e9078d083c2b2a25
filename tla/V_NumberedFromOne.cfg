SPECIFICATION Spec
CONSTANTS
    Names = {"a", "b", "c"}
    LongNames = {}
    Lengths = {3}
    EntrySize = 2
    Capacity = 4
    Pages = 3
    Indexes = 3
    MaxCalls = 3
INVARIANT
    NumberedFromOne
CHECK_DEADLOCK FALSE
