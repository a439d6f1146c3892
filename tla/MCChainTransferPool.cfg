SPECIFICATION Spec
CONSTANTS
    MaxHeight = 2
    MaxTx = 2
    MaxTries = 1
    MaxTrouble = 2
PROPERTIES
    PoolWasServed
CHECK_DEADLOCK FALSE
