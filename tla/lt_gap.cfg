SPECIFICATION Spec
CONSTANTS
  Client = {c1, c2}
  Edit = {e1}
  Scrambled = scrambled
  Shared = FALSE
  Fault = {}
  MaxFaults = 0
  MaxLoads = 1
INVARIANT JoinedClientsConverge
CHECK_DEADLOCK FALSE
