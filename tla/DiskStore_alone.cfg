\* `cache clean` and `template rm` run on their own; everything else overlaps.
SPECIFICATION Spec
SYMMETRY Symmetry
CONSTANTS
  Procs = {p1, p2}
  VMs = {v1, v2}
  Urls = {u1}
  Templates = {t1}
  None = None
  Unchecked = {}
  Overlap = FALSE
  p1 = p1
  p2 = p2
  v1 = v1
  v2 = v2
  u1 = u1
  t1 = t1
INVARIANTS BackingKept MadeOfWholeBytes FetchedOnce
PROPERTY ImplementsStore
