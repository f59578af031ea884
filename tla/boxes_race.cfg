\* Two users, a group and a document; two requests at a time, whatever they are about.
SPECIFICATION Spec
CONSTANTS
  User = {u1, u2}
  Record = {r1, r2}
  Predicate = {"$isAccountableFor", "$isMemberOf", "$canAccess"}
  UserGroups = FALSE
  MaxRequests = 4
  MaxAtOnce = 2
CHECK_DEADLOCK FALSE
INVARIANT MembersHaveAccess
