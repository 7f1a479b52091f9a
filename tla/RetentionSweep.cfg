\* The constants of Customer.cfg; only the audit log moves.  No call fails, so
\* that a sweep can only go on.
CONSTANTS
  Checks = {c1, c2}
  Percents = {4, 20, 28, 100}
  ThresholdSets <- MCThresholdSets
  MaxChanges = 5
  Replicas = {p1, p2}
  Hooks = {h1, h2}
  MaxJobAttempts = 2
  MaxLogs = 1
  MaxDeliveries = 2
  MaxRestarts = 1
  Absent = Absent
  Memberships = {o1, o2}
  MaxTokens = 4
  MaxItems = 2
  MaxAttempts = 2
  Editors = {m1, m2}
  Details = {x, y}
  Empty = Empty
  Preset = x
  MaxEdits = 3
  MaxSaves = 2
  Rows = {1, 2, 3, 4}
  CreatedAt <- MCCreatedAt
  RowsPerPage = 2
  MaxLimit = 100
  MaxRemoved = 1
  Addresses = {u1, u2, u3}
  Fragment = Fragment
  Enforced = {u2, u3}
  Emergency = {u3}
  NoNotice = NoNotice
  MaxTyped = 4
  o1 = o1
  r1 = r1
  Nothing = Nothing
  Orgs = {o1}
  OrgOrder <- MCOrder
  MaxNow = 2
  MaxEvents = 3
  ResultWindow = 2
  Faults = {}
  Admins = {r1, r2}
  Workers = {w1, w2}
  Spans = {1, 3}
  MinSpan = 1
  MaxSpan = 2
  DefaultSpan = 1
  SavedBefore <- MCSavedBefore
  BatchSize = 1
  MaxRuns = 1
  Exports = {x1}
  Ranges <- MCRanges
  SyncMax = 2
  PageSize = 1
  Attempts = 2
SPECIFICATION SweepSpec
\* The bounds are reached.
CHECK_DEADLOCK FALSE
PROPERTIES SweepEnds
