SPECIFICATION HttpSpec
CONSTANTS
  h1 = h1
  i4 = i4
  la = la
  p80 = p80
  p1 = p1
  r1 = r1
  r2 = r2
  None = None
  Hosts <- MCHosts
  Ips <- MCIps
  IPv4 <- MCIps
  Labels <- MCLabels
  Ports <- MCPorts
  HttpPolicies <- MCHttpPolicies
  TcpPolicies <- MCTcpPolicies
  Ingress <- MCIngress
  Requests <- MCRequests
  Clients <- MCClients
  Targets <- MCTargets
  LocalHosts <- MCHosts
  Port80 = p80
  MaxConnections = 2
  MaxOps = 3
INVARIANTS
  HttpTypeOK
  NothingUnchecked
  MismatchOnlyAfterUpdate
  NumbersUnique
  CacheCoherent
  PolicyViewsAgree
PROPERTIES
  Mediates
  Answered
CHECK_DEADLOCK FALSE
