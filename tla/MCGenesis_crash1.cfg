CONSTANTS
    n1 = n1
    n2 = n2
    n3 = n3
    Nodes <- MCNodes
    Stakers <- MCStakers
    Solo = FALSE
    GenesisStake <- MCGenesisStake
    PubKey <- MCPubKey
    NameOrder <- MCNameOrder
    KeepTokens = FALSE
    FeeDeposit = 10
    FaucetSupply = 1000
    MaxCrashes = 1
SPECIFICATION Spec
INVARIANTS TypeOK GenesisBlockAgreed GenesisTxsSettle GenesisLedger
PROPERTIES NetworkStarts
CHECK_DEADLOCK FALSE
