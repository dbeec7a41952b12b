SPECIFICATION TcpSpec
CONSTANTS
  i4 = i4
  p1 = p1
  p2 = p2
  c1 = c1
  c2 = c2
  None = None
  Hosts <- MCHosts
  Ips <- MCIps
  IPv4 <- MCIps
  Labels <- MCLabels
  Ports <- MCPorts
  HttpPolicies <- MCHttpPolicies
  TcpPolicies <- MCTcpPolicies
  Ingress <- MCIngress
  Conns <- MCOneConn
  Peers <- MCPeers
  Destinations <- MCDestinations
  LocalIps <- MCIps
  MAX_SPEED = 0
  ChunkSizes <- MCChunkSizes
  MaxBytes = 1
  MaxConnections = 2
  MaxOps = 4
INVARIANT
  PolicyCheckedBeforehand
CHECK_DEADLOCK FALSE
