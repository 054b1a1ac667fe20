SPECIFICATION Spec
CONSTANTS
    Own = {"here1", "here2"}
    Foreign = {"there1", "there2"}
    None = "none"
    MaxDrops = 2
    MaxMessages = 3
INVARIANTS
    TypeOK
    SavedTopicsLive
    ConnectStateStaysLocal
    OverrideIsLatest
PROPERTIES
    Converges
\* The bounds on drops and messages, and a failure, end a behaviour.
CHECK_DEADLOCK FALSE
