SPECIFICATION FairSpec
CONSTANTS
    Nodes = {a, b}
    None = None
    Limit = 2
    MaxAttempts = 1
    MaxTries = 2
    LongList = 2
    Genesis = {g1, g2}
    Damaged = Damaged
    Garbage = Garbage
INVARIANTS
    TypeOK
    OneRoot
    OneNetwork
    

    
