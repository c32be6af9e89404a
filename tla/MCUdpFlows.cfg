SPECIFICATION Spec
CONSTANTS
  local1 = local1
  local2 = local2
  remote = remote
  client_port = client_port
  service1 = service1
  service2 = service2
  proxy_port = proxy_port
  IP <- MCIP
  Port <- MCPort
  ProxyPorts <- MCProxyPorts
  Sent <- MCSent
  Local <- MCLocal
  UDP_TIMEOUT = 2
  CLEANUP_PERIOD = 2
  MaxInFlight = 2
  MaxSessions = 2
  Ambiguous = Ambiguous
  Unspecified = Unspecified
SYMMETRY Symmetry
INVARIANTS TypeOK PeerIndexExact QueryFaithful ReplyFaithful
PROPERTIES ImplementsTable
