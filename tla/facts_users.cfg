\* A group of two users and a record of one of them; one request at a time.
SPECIFICATION Spec
CONSTANTS
  User = {u1, u2}
  Record = {r1, r2}
  Predicate = {"$isAccountableFor", "$isMemberOf"}
  MaxRequests = 5
  MaxAtOnce = 1
CHECK_DEADLOCK FALSE
INVARIANT OnlyCreatorsOrGroups
