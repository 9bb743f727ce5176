SPECIFICATION SharedSpec
CONSTANTS
    Cmds = {c1, c2, c3}
    Vms = {v1, v2}
    Ports = {p1, p2}
    None = None
    Doctors = {d1, d2}
    SetupAnytime = TRUE
    CrashInWrite = FALSE
PROPERTY ImplementsEntries
