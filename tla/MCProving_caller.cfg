\* The same transactions, checked against the caller promise of
\* check_caller_callees.
CONSTANTS
    c1 = c1
    c2 = c2
    sha3 = sha3
    alice = alice
    bob = bob
    Contracts <- MCContracts
    Natives = {sha3}
    Identities <- MCIdentities
    TxIdentity = alice
    VerifierOf <- MCVerifierOf
    SP1 = FALSE
    MaxBlobs = 2
    MaxCallees = 2
    None = None
    Raw = Raw
    Panicked = Panicked
    Rejected = Rejected
SPECIFICATION Spec
CHECK_DEADLOCK FALSE
INVARIANTS CallerAuthentic
