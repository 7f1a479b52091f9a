\* The constants of Entrance.cfg; only the enrolment of a second factor moves.
CONSTANTS
  c1 = c1
  c2 = c2
  None = None
  Calls = {c1, c2}
  Passages <- MCPassages
  Requests = {c1, c2}
  Bodies <- MCBodies
  Tenants = {"o1", "public"}
  Users = {"u1", "anon"}
  Endpoints = {"/api/users", "/api/search"}
  Instances <- MCInstances
  Ahead <- MCAhead
  Window <- MCWindow
  Max <- MCMax
  ExpensiveMax = 1
  Skew = 1
  Delay = 1
  MaxClock = 5
  MaxSeconds = 4
  MaxSecrets = 3
  MaxVersions = 2
  Handlers = {c1, c2}
  PolicyBodies <- MCPolicyBodies
  SamlBodies <- MCSamlBodies
  OidcBodies <- MCOidcBodies
  SamlBefore <- MCSamlBefore
  EnvKey = TRUE
  MaxEnrolments = 2
  MaxSaves = 2
  MaxTime = 1
  MaxMails = 2
  MaxStates = 1
SYMMETRY Symmetry
SPECIFICATION EnrolSpec
\* The bounds are reached.
CHECK_DEADLOCK FALSE
INVARIANT SmsCodeIsSent
