SPECIFICATION Spec
CONSTANTS
  Keys = {k1, k2}
  Assocs = {a1, a2}
  UDP_QUEUE_SIZE = 1
  MAX_UDP_ASSOCIATIONS = 1
  MaxRelays = 2
  NoKey = NoKey
  NoAssoc = NoAssoc
SYMMETRY Symmetry
\* The proxy stops for good after stop().
CHECK_DEADLOCK FALSE
INVARIANTS
  TypeOK BuffersBounded AssociationsBounded NoOrphanEntry
  StopComplete
