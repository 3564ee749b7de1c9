CONSTANTS
    Names <- MCNames
    Parent <- MCParent
    NoParent = NoParent
    Identities <- MCIdentities
    ProgramIds <- MCProgramIds
    Windows <- MCWindows
    DefaultWindow = "default"
    HyleRecord <- MCHyleRecord
    MaxBlobs = 2
SPECIFICATION Spec
CONSTANTS MaxTxs = 3
CHECK_DEADLOCK FALSE
INVARIANTS TypeOK
PROPERTIES RegistryChangedOnlyByTld
