CONSTANTS
    j1 = j1
    j2 = j2
    j3 = j3
    p1 = p1
    p2 = p2
    p3 = p3
    p4 = p4
    p5 = p5
    k1 = k1
    k2 = k2
    k3 = k3
    None = None
    Dropped = Dropped
    Jobs = {j1}
    Pairs = {p1, p2, p3}
    Keys = {k1, k2}
    JobOf <- QueueJobOf
    KeyOf <- QueueKeyOf
    MaxConcurrent = 1
    MaxExpiries = 0
SPECIFICATION Spec
PROPERTIES
    CachedPairsNotReprocessed
