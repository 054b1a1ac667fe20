SPECIFICATION Spec
CONSTANTS
    HalfHour = 2
    Longest = 4
    Foreign = {5}
    Wrap = 12
    MaxUptime = 20
    Step = 5
    NoKey = NoKey
    None = None
INVARIANTS
    TypeOK
    EditCanBeNegated
    EditShownUnlessRefreshing
    OwnMessagesDisplay
PROPERTIES
    RemainingIsRight
\* A missing entry stops the program.
CHECK_DEADLOCK FALSE
