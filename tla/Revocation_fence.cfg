SPECIFICATION Spec
CONSTANTS
    u1 = u1
    g1 = g1
    g2 = g2
    r1 = r1
    r2 = r2
    q1 = q1
    q2 = q2
    User = {u1}
    Group = {g1}
    Replica = {r1, r2}
    Request = {q1, q2}
    Home <- HomeApart
    Up <- UpFlat
    CacheTTL = 1
    Window = 2
    Retention = 4
    MinTTL = 1
    MaxTTL = 1
    RequestedTTL <- LongTTL
    Subject = {u1}
    Asserted <- NoPrincipals
    Deniable = {u1}
    Fenced = {r1}
    OutOfBand = {u1}
    Droppable = {}
    Flight = 1
    MaxTime = 3
    MaxRows = 0
    MaxHandles = 1
INVARIANTS
    DurableDenied
    FencedReadCurrent
PROPERTIES
    GrantsSurvive
ACTION_CONSTRAINT OneReader
