SPECIFICATION FairSpec
CONSTANTS
  Runners = {r1, r2, r3}
  None = None
  CrashAt <- Sturdy
  r1 = r1
  r2 = r2
  r3 = r3
INVARIANTS NoLostRunner DiskIsNewest
PROPERTIES CommandsEnd OrphanEnds
