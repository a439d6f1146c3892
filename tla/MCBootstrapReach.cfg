SPECIFICATION Spec
CONSTANTS
    Nodes = {a, b, c, d}
    None = None
    Limit = 1
    MaxAttempts = 2
    MaxTries = 1
    LongList = 2
    Genesis = {g1, g2}
    Damaged = Damaged
    Garbage = Garbage
CONSTRAINT NothingEnded
INVARIANTS
    RootsReachAll
SYMMETRY Symmetric
