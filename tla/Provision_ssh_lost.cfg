SPECIFICATION Spec
CONSTANTS
    Count <- Entries
    None = None
    SshComesBack = FALSE
    TornWrites = FALSE
    CrashAt <- NoPoint
INVARIANT NeverGoesBack
