\* Two users and two records, groups among them; two requests at a time. A composition of up to
\* two records and two facts. Two subscriptions of a user and an organization. Two processes
\* with caches.
SPECIFICATION ServerSpec
CONSTANTS
  User = {u1, u2}
  Record = {r1, r2}
  Predicate = {"$isAccountableFor", "$isMemberOf"}
  MaxRequests = 5
  MaxAtOnce = 2
  NewRecord = {n1, n2}
  Grouped = {n1}
  Owned = {g1}
  MaxFacts = 2
  Customer = {p, o}
  Personal = {p}
  Amount = {2}
  FreeTotal = 1
  MaxTime = 2
  MaxSubscriptions = 2
  MaxRepeats = 1
  Process = {s1, s2}
  Whole = {scope}
  Positive = {roles}
  Answer = {yes}
  MaxChanges = 2
  MaxReads = 1
SYMMETRY Symmetry
CHECK_DEADLOCK FALSE
INVARIANTS
  TypeOK UncontestedHaveOne
  CompTypeOK StoredIsAccountable AnswerTellsTheTruth
  PaymentTypeOK QuotaFollowsSubscription
  CacheTypeOK StaleOnlyIfExcused
PROPERTY UncontestedStayWithGroups
