SPECIFICATION FairSpec
CONSTANTS
    Workers = {w1, w2, w3}
    Callers = {c1, c2}
    Items = {i1, i2, i3, i4}
    Endless = {i1}
    Stop = Stop
INVARIANTS
    TypeOK
    StopsLast
    ItemsOnce
    NoItemStranded
PROPERTIES
    ImplementsWorkQueue
    ItemsAreStarted
CHECK_DEADLOCK FALSE
