CONSTANTS
    j1 = j1
    j2 = j2
    j3 = j3
    p1 = p1
    p2 = p2
    p3 = p3
    p4 = p4
    p5 = p5
    k1 = k1
    k2 = k2
    k3 = k3
    None = None
    Dropped = Dropped
    Jobs = {j1, j2, j3}
    Pairs = {p1, p2, p3, p4, p5}
    Keys = {k1, k2, k3}
    JobOf <- MCJobOf
    KeyOf <- MCKeyOf
    MaxConcurrent = 2
    MaxExpiries = 1
SPECIFICATION Spec
INVARIANTS
    GlobalCallsBounded
