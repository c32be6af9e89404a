SPECIFICATION Spec
CONSTANTS
  udp = udp
  bound = bound
  wildcard = wildcard
  pid1 = pid1
  pid2 = pid2
  proxied = proxied
  other = other
  Table = {udp}
  Socket = {bound, wildcard}
  TableOf <- MCTableOf
  Wildcard <- MCWildcard
  Pid = {pid1, pid2}
  Program = {proxied, other}
  SESSION_CACHE_MAX_AGE = 1
  PROCESS_CACHE_TTL = 1
  PROCESS_CACHE_MAX = 1
  Nobody = Nobody
SYMMETRY Symmetry
INVARIANTS TypeOK OwnerRecent OpenSocketFound PathsBounded
PROPERTIES SettledOwner
