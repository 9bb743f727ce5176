SPECIFICATION Spec
CONSTANTS
    Ports = {1}
    lo = lo
    any = any
    Addrs = {lo, any}
    Loopback = lo
    Sups = {s1, s2, s3}
    None = None
    HasAuto = TRUE
    Named <- MCNamed
    MaxList = 2
SYMMETRY Symmetry
INVARIANTS NoOrphan DownMeansNone BindsDisjoint DeclaredIsSaved

