SPECIFICATION FairSpec
CONSTANTS
    a = a
    b = b
    Miners = {m1, m2}
    Tx <- MCOneTx
    Address <- MCAddress
    InitialDifficulty = 9
    MaxDifficultyDrop = 1
    InitialSubsidy = 4
    HalvingInterval = 2
    GenesisReward = 8
    Me = a
    RewardAddress = a
    InitChain <- MCInitChain
    PeerBlocks <- MCPeerBlocks
    MaxReplays = 0
INVARIANTS
    MiningHasAThread
PROPERTIES
    LongerUnlessUnchecked
    PoolDrains
    
CHECK_DEADLOCK FALSE
