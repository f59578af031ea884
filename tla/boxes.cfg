\* Three users, one request at a time, or two users, two at a time; two records.
SPECIFICATION MCSpec
CONSTANTS
  User = {u1, u2, u3}
  Record = {r1, r2}
  Predicate = {"$isAccountableFor", "$isMemberOf", "isA"}
  UserGroups = TRUE
  MaxRequests = 5
  MaxAtOnce = 2
  AtATime = 4
SYMMETRY Symmetry
CHECK_DEADLOCK FALSE
INVARIANTS TypeOK UncontestedInOnePlace ScopeLosesNothing
PROPERTIES ChangesAreNotified BoxesGoUnnoticed OnlyOwnersLetIn BoxesAllowNothingMore
