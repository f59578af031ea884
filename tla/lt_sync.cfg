SPECIFICATION Spec
CONSTANTS
  Client = {c1, c2}
  Edit = {e1, e2, e3, e4}
  Scrambled = scrambled
  Shared = FALSE
  Fault = {}
  MaxFaults = 0
  MaxLoads = 1
SYMMETRY Symmetry
INVARIANTS
  ExactReplica
  AttachedClientsConverge
PROPERTIES
  AttachedStaysAttached
  KeepsThePromise
CHECK_DEADLOCK FALSE
