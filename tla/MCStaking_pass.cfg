CONSTANTS
    Identities = {i1, i2}
    Validators = {1, 2}
    Amounts <- MCAmounts
    MaxActions = 2
SPECIFICATION Spec
CHECK_DEADLOCK FALSE
CONSTANTS MaxBlocks = 3
INVARIANTS TypeOK BondedAreStaked
