SPECIFICATION Spec
CONSTANTS
    Count <- Entries
    None = None
    SshComesBack = FALSE
    TornWrites = TRUE
    CrashAt <- AnyPoint
INVARIANTS
    ProvisionedMeansDone
    InOrder
    MarkerHolds
