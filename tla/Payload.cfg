SPECIFICATION Spec
CONSTANTS
    Words = {"state", "on"}
    MaxPairs = 3
    MaxPieces = 5
INVARIANTS
    ReadsBack
    DropsOnlyBehindEmptyKey
    InBoundsUnlessBlankKey
PROPERTIES
    LoopEnds
\* The loop ends.
CHECK_DEADLOCK FALSE
