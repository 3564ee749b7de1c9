CONSTANTS
    n1 = n1
    n2 = n2
    n3 = n3
    Nodes <- MCStakerNodes
    Stakers <- MCStakers
    Solo = FALSE
    GenesisStake <- MCGenesisStake
    PubKey <- MCPubKey
    NameOrder <- MCNameOrder
    KeepTokens = FALSE
    FeeDeposit = 10
    FaucetSupply = 1000
    MaxCrashes = 2
SPECIFICATION Spec
PROPERTIES NetworkStarts
CHECK_DEADLOCK FALSE
