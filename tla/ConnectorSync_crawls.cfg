SPECIFICATION Spec
CONSTANTS
    t1 = t1
    t2 = t2
    r1 = r1
    r2 = r2
    l1 = l1
    l2 = l2
    Tenant = {t1, t2}
    Synced = {t1}
    Request = {r1, r2}
    Loop = {l1, l2}
    Droppable = {r1, r2}
    Crashes = FALSE
    Reports = {"degraded"}
    MaxRuns = 2
ACTION_CONSTRAINT Explored
SYMMETRY Interchangeable
INVARIANTS OneCrawl BearerFollowsChild NoGhostLoop 
