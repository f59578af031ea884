SPECIFICATION FairSpec
CONSTANTS
  Client = {c1, c2}
  Edit = {e1, e2, e3}
  Scrambled = scrambled
  Shared = FALSE
  Fault = {}
  MaxFaults = 0
  MaxLoads = 1
PROPERTIES
  AttachedEditsCommit
  CommittedEditsArrive
CHECK_DEADLOCK FALSE
