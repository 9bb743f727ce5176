SPECIFICATION HwFairSpec
CONSTANTS
    Cmds = {c1}
    Pids = {p1, p2}
    None = None
    Ops <- EveryOp
    ListAnytime = FALSE
    EditLiveBroken = FALSE
    CrashAt <- SturdyPoints
    Sizes = {small, large}
    Versions = {q1, q2}
    Platform = "linux_aarch64"
INVARIANTS
    StoppedMeansDown
    NoUnmanageableQemu
    SavedSessionIsResumable
    NoStaleEndpoint
    RunningMeansProvisioned
    ResumesOnItsMachine
    SuspendedKeepsItsMachine
PROPERTIES
    CommandsEnd
    ImplementsSession
