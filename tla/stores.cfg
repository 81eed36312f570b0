SPECIFICATION LiveSpec
CONSTANTS
    Attempts = 2
    Outages = FALSE
    MaxFaults = 1
INVARIANTS NamesAreKept FirstReferenceIsKept
PROPERTIES SourceIsKept LeftoversGo
CHECK_DEADLOCK FALSE
