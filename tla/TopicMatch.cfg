SPECIFICATION MatchSpec
CONSTANTS
    Names = {"heating", "state"}
    MaxLevels = 3
    Filters <- MCFilters
    Topics <- MCTopics
INVARIANTS
    MatchIsRight
PROPERTIES
    MatchReturns
\* The call returns; nothing follows.
CHECK_DEADLOCK FALSE
