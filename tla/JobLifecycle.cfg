CONSTANTS
    r1 = r1
    r2 = r2
    r3 = r3
    j1 = j1
    j2 = j2
    s1 = s1
    s2 = s2
    None = None
    Requests = {r1, r2, r3}
    Jobs = {j1, j2}
    Sessions = {s1, s2}
    JobOf <- MCJobOf
    SessionOf <- MCSessionOf
    MaxConcurrent = 1
    StoreModes = {TRUE, FALSE}
SPECIFICATION Spec
INVARIANTS
    TypeOK
    NoOrphanRun
    RoomBounded
    CompleteHasResult
    FailureHasMessage
    SessionsIsolated
PROPERTIES
    StagesInOrder
    SubmittedJobsEnd
