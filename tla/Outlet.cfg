SPECIFICATION Spec
CONSTANTS
    Callers = {"task15sec", "task30min"}
    Fresh = 1
    Interval = 3
    MaxTransfer = 1
    Wrap = 8
    MaxUptime = 15
    None = None
    NoTask = NoTask
INVARIANTS
    TypeOK
    StateIsThere
    BufferIsLastAnswer
PROPERTIES
    AnswerIsFresh
    RepublishedInTime
    GetStateReturns
