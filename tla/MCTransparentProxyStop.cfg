SPECIFICATION FairSpec
CONSTANTS
  Keys = {k1}
  Assocs = {a1}
  UDP_QUEUE_SIZE = 1
  MAX_UDP_ASSOCIATIONS = 1
  MaxRelays = 1
  NoKey = NoKey
  NoAssoc = NoAssoc
\* The proxy stops for good after stop().
CHECK_DEADLOCK FALSE
PROPERTIES StopTerminates
