SPECIFICATION FairSpec
CONSTANTS
    Watchers = {w1, w2}
    User = User
    None = None
    Threshold = 2
    Serial = TRUE
    Outlive = FALSE
INVARIANTS
    OneWatcher
    StatusHolds
PROPERTIES
    GraceWindow
    DisabledMeansNever
    UnusedIsSuspended
