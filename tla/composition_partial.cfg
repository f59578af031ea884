\* A user, two records that are created and two facts; nothing else happens at the same time.
SPECIFICATION CompSpec
CONSTANTS
  User = {u}
  NewRecord = {n1, n2}
  Grouped = {n1}
  Owned = {}
  MaxFacts = 2
CHECK_DEADLOCK FALSE
INVARIANT AllOrNothing
