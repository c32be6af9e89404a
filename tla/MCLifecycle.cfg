SPECIFICATION FairSpec
CONSTANTS
  Adapters = {a1, a2}
  MaxChanges = 2
  Nothing = Nothing
  MaxProxies = 3
  MAX_STATIC_FILTERS = 9
\* The program ends.
CHECK_DEADLOCK FALSE
INVARIANTS TypeOK CallbackHasContext PacketsHaveProxies ClosedClean
PROPERTIES QuitFinishes
