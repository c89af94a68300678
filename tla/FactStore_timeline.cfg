SPECIFICATION Spec
CONSTANTS
    p1 = p1
    q1 = q1
    q2 = q2
    a = a
    b = b
    u1 = u1
    u2 = u2
    Process = {p1}
    Request = {q1, q2}
    Home <- Home2
    Value = {a, b}
    Principal = {u1}
    EventAcls <- Shared
    NewAcls <- Withheld
    Scope <- Reader
    Removable = TRUE
    Droppable = {q1}
    MaxTime = 2
    MaxRows = 3
SYMMETRY Interchangeable
INVARIANTS
    LatestRecordedWins
    HistoryHasNoHoles
    
PROPERTIES
    HistoryFrozen
    ImplementsTimeline
