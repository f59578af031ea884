\* Two clients of a key-value record; a page on the bus; two pages with a query; queries
\* over two records with up to three writes; a user, an organization and a server with up to
\* seven uploads, two of them at once, or four and a quota event.
SPECIFICATION PagesSpec
CONSTANTS
  Client = {c1, c2}
  Field = {title, status}
  Nested = {status}
  Val = {v1, v2}
  Absent = Absent
  Shared = FALSE
  MaxPatches = 2
  MaxFaults = 1
  Channel = {x, y}
  MaxCalls = 2
  MaxBroadcasts = 3
  MaxBreaks = 1
  Instance = {i1, i2}
  Page = {p1, p2}
  MaxResults = 1
  MaxFetches = 2
  MaxMishaps = 1
  Entity = {a, b}
  Term = {t}
  Loadable = {a, b}
  KeyValue = {a}
  Relation = {isA, state}
  Transitive = {isA}
  MaxWrites = 3
  Payer = {p}
  Org = {o}
  Server = {s}
  DefaultTotal = 1
  Plan = {2}
  Slack = 1
  MaxBytes = 1
  MaxUploads = 7
  MaxParallel = 2
  MaxEvents = 1
  UploadsWithEvents = 4
SYMMETRY Symmetry
CHECK_DEADLOCK FALSE
INVARIANTS
  TypeOK NoLostUpdate UnracedFieldsAgree
  BusTypeOK InOrderOnce
  LiveTypeOK ResultsArrive
  QueryTypeOK LatestIsNewest AnswersMeanWhatTheySay
  QuotaTypeOK OvershootBounded
