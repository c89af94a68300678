SPECIFICATION FairSpec
CONSTANTS
    Proc = {p1, p2}
    Group = {g1}
    p1 = p1
    p2 = p2
    g1 = g1
    g2 = g2
    Up <- UpFlat
    Dedupe = 1
    Fresh = 1
    Bound = 1
    MaxTime = 0
    MaxLog = 2
    MaxFaults = 1
    Collected = 2
PROPERTIES
    EveryDeleteHandled
