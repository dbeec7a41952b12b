SPECIFICATION CPSpec
CONSTANTS
  v0 = v0
  v1 = v1
  r1 = r1
  r2 = r2
  None = None
  Services <- MCServices
  Hosts <- MCHosts
  Versions <- MCVersions
  NoPolicy = v0
  Slots <- MCOneSlot
  MaxRequests = 4
INVARIANT
  GlobalUpdateSent
CHECK_DEADLOCK FALSE
