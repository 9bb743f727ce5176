CONSTANTS
  none = none
  nokey = nokey
  bare = bare
  top = top
  Top = top
  NoKey = nokey
  Bare = bare
  Word <- MCWord
  Letter <- MCLetter
  Units <- MCUnits
  Destroys <- MCDestroys
  Boots <- MCBoots
  None = none
  Alias <- MCAlias
  Specs <- MCSpecs
  Backends <- MCBackends
  DefaultBackend <- MCDefaultBackend
  BadSizes <- MCBadSizes
  BadNames <- MCBadNames
  Creates <- MCCreates
  LeaseFiles <- MCLeaseFiles
  Host <- MCHost
  Mac <- MCMac
  Listings <- MCListings
  MachineAlias <- MCMachineAlias
  NoIp = none
  NoName = none
SPECIFICATION Spec
INVARIANT CircularMeansCycle
CHECK_DEADLOCK FALSE
