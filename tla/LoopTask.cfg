SPECIFICATION Spec
CONSTANTS
    Buttons = {"A", "B"}
    B = "B"
    Debounce = 2
    Long = 3
    Timeout = 3
    Wrap = 8
    MaxUptime = 13
INVARIANTS
    TypeOK
    OccupiedForTimeout
    OneEventPerPress
PROPERTIES
    ExpiresInTime
