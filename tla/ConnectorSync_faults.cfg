SPECIFICATION FairSpec
CONSTANTS
    t1 = t1
    t2 = t2
    r1 = r1
    r2 = r2
    l1 = l1
    l2 = l2
    Tenant = {t1}
    Synced = {t1}
    Request = {r1}
    Loop = {l1, l2}
    Droppable = {}
    Crashes = TRUE
    Reports = {"completed"}
    MaxRuns = 1
INVARIANTS OutcomeStands
PROPERTIES NothingLingers
