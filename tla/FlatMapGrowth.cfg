SPECIFICATION Spec
CONSTANTS
    Words = {"state", "forMs", "timestamp"}
    Contents = {"c1"}
    InitialMax = 2
    EntrySize = 8
INVARIANTS
    EntriesFitAllocation
CHECK_DEADLOCK FALSE
