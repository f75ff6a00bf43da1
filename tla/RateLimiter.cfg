CONSTANTS
    q1 = q1
    q2 = q2
    q3 = q3
    q4 = q4
    q5 = q5
    upload = upload
    question = question
    Calls = {q1, q2, q3, q4, q5}
    Clients = {upload, question}
    ClientOf <- MCClientOf
    MaxRequests = 2
    Window = 2
    MaxTime = 5
SPECIFICATION Spec
INVARIANTS
    TypeOK
    WindowBounded
PROPERTIES
    RejectedWhenFull
CHECK_DEADLOCK FALSE
