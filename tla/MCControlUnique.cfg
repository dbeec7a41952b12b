SPECIFICATION CPSpec
CONSTANTS
  v0 = v0
  v1 = v1
  r1 = r1
  r2 = r2
  None = None
  Services <- MCTwoServices
  Hosts <- MCHosts
  Versions <- MCVersions
  NoPolicy = v0
  Slots <- MCSlots
  MaxRequests = 4
SYMMETRY Symm
INVARIANT
  GlobalIDUnique
CHECK_DEADLOCK FALSE
