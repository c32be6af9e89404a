SPECIFICATION FairSpec
CONSTANTS
  Adapters = {a1, a2}
  MaxChanges = 3
  Nothing = Nothing
\* The loop ends.
CHECK_DEADLOCK FALSE
INVARIANTS TypeOK RestartOwed TunnelOnlyOpen NameCurrent
PROPERTIES FollowsName ShutdownEndsLoop
