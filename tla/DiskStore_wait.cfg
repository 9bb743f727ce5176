\* Two creates at one image, with nothing else in the way.
SPECIFICATION FairSpec
CONSTANTS
  Procs = {p1, p2}
  VMs = {v1, v2}
  Urls = {u1}
  Templates = {}
  None = None
  Unchecked = {}
  Overlap = FALSE
  p1 = p1
  p2 = p2
  v1 = v1
  v2 = v2
  u1 = u1
  t1 = t1
PROPERTY WaitersProceed
