\* Requests about who is accountable for a record, two at the same time.
SPECIFICATION Spec
CONSTANTS
  User = {u1}
  Record = {r1, r2, r3}
  Predicate = {"$isAccountableFor"}
  MaxRequests = 5
  MaxAtOnce = 2
CHECK_DEADLOCK FALSE
INVARIANT OneAccountable
