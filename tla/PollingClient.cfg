SPECIFICATION Spec
CONSTANTS
    Jobs = {j1, j2}
    Keys <- MCKeys
    Values <- MCValues
    Ttls <- MCTtls
    ResultTtl = 0
    MaxTime = 1
    MaxPolls = 2
    MaxCreations = 2
    None = None
    Never = Never
INVARIANTS
    TypeOK
    LateReportsWereOvertaken
PROPERTIES
    ImplementsMap
    PollingEnds
