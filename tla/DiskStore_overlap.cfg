\* As DiskStore_alone.cfg, with `cache clean` and `template rm` beside the others.
SPECIFICATION Spec
SYMMETRY Symmetry
CONSTANTS
  Procs = {p1, p2}
  VMs = {v1, v2}
  Urls = {u1}
  Templates = {t1}
  None = None
  Unchecked = {}
  Overlap = TRUE
  p1 = p1
  p2 = p2
  v1 = v1
  v2 = v2
  u1 = u1
  t1 = t1
INVARIANT BackingKept
