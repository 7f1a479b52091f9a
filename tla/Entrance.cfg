\* Two requests at a time in each part; windows of three and four ticks on two
\* clocks; three secrets of an API key; settings saved twice.
CONSTANTS
  c1 = c1
  c2 = c2
  None = None
  Calls = {c1, c2}
  Passages <- MCPassages
  Requests = {c1, c2}
  Bodies <- MCBodies
  Tenants = {"o1", "public"}
  Users = {"u1", "anon"}
  Endpoints = {"/api/users", "/api/search"}
  Instances <- MCInstances
  Ahead <- MCAhead
  Window <- MCWindow
  Max <- MCMax
  ExpensiveMax = 1
  Skew = 1
  Delay = 1
  MaxClock = 5
  MaxSeconds = 4
  MaxSecrets = 3
  MaxVersions = 2
  Handlers = {c1, c2}
  PolicyBodies <- MCPolicyBodies
  SamlBodies <- MCSamlBodies
  OidcBodies <- MCOidcBodies
  SamlBefore <- MCSamlBefore
  EnvKey = TRUE
  MaxEnrolments = 2
  MaxSaves = 2
  MaxTime = 1
  MaxMails = 2
  MaxStates = 1
SYMMETRY Symmetry
SPECIFICATION MCSpec
\* The bounds are reached.
CHECK_DEADLOCK FALSE
INVARIANTS LimitsAreKept HandledMeansAllowed EnrolmentHolds RefusalsAreNotFaults SignInIsGuarded
PROPERTIES RevokedStaysRevoked
