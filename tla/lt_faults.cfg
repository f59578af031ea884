SPECIFICATION Spec
CONSTANTS
  Client = {c1, c2}
  Edit = {e1, e2, e3}
  Scrambled = scrambled
  Shared = TRUE
  Fault = {"quota", "unauthorized", "disconnect", "crash"}
  MaxFaults = 2
  MaxLoads = 2
SYMMETRY Symmetry
INVARIANTS
  TypeOK
  ExactReplica
  ChangesLandWhereMeant
  EditInOnePlace
PROPERTIES
  KeepsThePromise
CHECK_DEADLOCK FALSE
