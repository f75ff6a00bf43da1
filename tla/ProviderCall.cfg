CONSTANTS
    MaxRetries = 4
    None = None
SPECIFICATION Spec
INVARIANTS
    TypeOK
    ReportedOnce
    GivenUpOnlyWhenExhausted
    SleepsBetweenAttempts
PROPERTIES
    CallEnds
CHECK_DEADLOCK FALSE
