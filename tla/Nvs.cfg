SPECIFICATION Spec
CONSTANTS
    Names = {"a", "b", "long"}
    LongNames = {"long"}
    Lengths = {3, 6}
    EntrySize = 2
    Capacity = 4
    Pages = 3
    Indexes = 4
    MaxCalls = 4
INVARIANTS
    TypeOK
    Contained
    NoEmptyPage
    BytesForCause
    IndexesDistinct
    NamespaceFirst
PROPERTY
    Refines
CHECK_DEADLOCK FALSE
