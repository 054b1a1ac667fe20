SPECIFICATION Spec
CONSTANTS
    Words = {"state", "forMs", "temperature", "timestamp"}
    Contents = {"c1", "c2"}
    InitialMax = 3
    EntrySize = 8
INVARIANTS
    TypeOK
    KeysUnique
    IntactUntilGrowth
PROPERTIES
    ImplementsMap
\* After a write past the block nothing is defined: the model stops there.
CHECK_DEADLOCK FALSE
