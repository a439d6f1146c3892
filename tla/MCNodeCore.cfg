SPECIFICATION Spec
CONSTANTS
    a = a
    b = b
    Miners = {m1}
    Tx <- MCTx
    Address <- MCAddress
    InitialDifficulty = 9
    MaxDifficultyDrop = 1
    InitialSubsidy = 4
    HalvingInterval = 2
    GenesisReward = 8
    Me = a
    RewardAddress = a
    InitChain <- MCInitChain
    PeerBlocks <- MCPeerBlocks
    MaxReplays = 1
INVARIANTS
    MinedBlocksContinue
    
    

    
CHECK_DEADLOCK FALSE
