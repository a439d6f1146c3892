SPECIFICATION FairSpec
CONSTANTS
    MaxHeight = 3
    MaxTx = 2
    MaxTries = 2
    MaxTrouble = 2
INVARIANTS
    TypeOK
    
    
PROPERTIES
    ReceivedIsTail
    
CHECK_DEADLOCK FALSE
