\* No command is killed.
SPECIFICATION Spec
CONSTANTS
  Runners = {r1, r2}
  None = None
  CrashAt <- Nowhere
  r1 = r1
  r2 = r2
  r3 = r3
INVARIANT OneRunner
