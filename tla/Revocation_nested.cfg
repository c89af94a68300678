SPECIFICATION Spec
CONSTANTS
    u1 = u1
    g1 = g1
    g2 = g2
    r1 = r1
    r2 = r2
    q1 = q1
    q2 = q2
    User = {u1}
    Group = {g1, g2}
    Replica = {r1}
    Request = {q1}
    Home <- HomeAlone
    Up <- UpNested
    CacheTTL = 1
    Window = 3
    Retention = 6
    MinTTL = 1
    MaxTTL = 3
    RequestedTTL <- AskedTTLs
    Subject = {u1}
    Asserted <- NoPrincipals
    Deniable = {}
    Fenced = {}
    OutOfBand = {}
    Droppable = {q1}
    Flight = 1
    MaxTime = 5
    MaxRows = 2
    MaxHandles = 1
INVARIANTS
    
    WindowedMint
