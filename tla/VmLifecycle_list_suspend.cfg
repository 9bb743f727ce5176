SPECIFICATION HwSpec
CONSTANTS
    Cmds = {c1, c2}
    Pids = {p1, p2}
    None = None
    Ops <- SuspendAndList
    ListAnytime = TRUE
    EditLiveBroken = FALSE
    CrashAt <- NoPoint
    Sizes = {small}
    Versions = {q1}
    Platform = "linux_aarch64"
INVARIANT SavedSessionIsResumable
