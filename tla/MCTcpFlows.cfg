SPECIFICATION Spec
CONSTANTS
  c1 = c1
  c2 = c2
  c3 = c3
  c4 = c4
  local = local
  host1 = host1
  host2 = host2
  client_port = client_port
  service1 = service1
  service2 = service2
  proxy1 = proxy1
  proxy2 = proxy2
  Nothing = Nothing
  Conns <- MCConns
  IP <- MCIP
  Port <- MCPort
  Header <- MCHeader
  Owner <- MCOwner
SYMMETRY Symmetry
\* Every connection is opened once.
CHECK_DEADLOCK FALSE
INVARIANTS TypeOK DestinationCurrent NoStaleMapping MappingHeld
