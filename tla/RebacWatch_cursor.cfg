SPECIFICATION Spec
CONSTANTS
    Proc = {p1, p2}
    Group = {g1, g2}
    p1 = p1
    p2 = p2
    g1 = g1
    g2 = g2
    Up <- UpNested
    Dedupe = 1
    Fresh = 1
    Bound = 0
    MaxTime = 1
    MaxLog = 2
    MaxFaults = 1
    Collected = 1
SYMMETRY Interchangeable
INVARIANTS
    CursorCovers
    UnfencedHasLeader
ACTION_CONSTRAINT InnerChanges
