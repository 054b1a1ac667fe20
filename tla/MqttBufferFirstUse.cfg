SPECIFICATION Spec
CONSTANTS
    Tasks = {"mqtt", "loop"}
    Topics <- MCTopics
    Filters <- MCFilters
    Keys = {"state", "forMs"}
    Values = {"on", "off", "hour"}
    Messages <- MCMessages
    MaxTime = 1
    NoValue = NoValue
    NoTask = NoTask
CONSTRAINT Explored
INVARIANTS
    NoAssertionFails
\* A failed assertion stops the program.
CHECK_DEADLOCK FALSE
