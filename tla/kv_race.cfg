\* Two clients write one field at the same time.
SPECIFICATION Spec
CONSTANTS
  Client = {c1, c2}
  Field = {title}
  Nested = {}
  Val = {v1, v2}
  Absent = Absent
  Shared = FALSE
  MaxPatches = 2
  MaxFaults = 0
CHECK_DEADLOCK FALSE
INVARIANT ReplicasConverge
