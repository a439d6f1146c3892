SPECIFICATION Restarting
CONSTANTS
    Nodes = {a, b}
    None = None
    Limit = 2
    MaxAttempts = 1
    MaxTries = 1
    LongList = 2
    Genesis = {g1, g2, g3}
    Damaged = Damaged
    Garbage = Garbage
PROPERTIES Recovers
