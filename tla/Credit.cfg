\* Two client sessions on one pool and one account, two requests on the
\* budget of an account, two on the plan of an organization.
CONSTANTS
  o1 = o1
  a1 = a1
  NoSession = NoSession
  Orgs = {o1}
  Accounts = {a1}
  OrgOf <- MCOrgOf
  Amounts = {1}
  Limits = {0, 1}
  BudgetBodies <- MCBudgetBodies
  Editors = {e1}
  MaxIssued = 2
  ValidatorStubbed = TRUE
  AddTypes = {"purchase", "refund"}
  TakeTypes = {"expiry"}
  Sessions = {s1, s2}
  Calls = {c1, c2}
  Requested = {1, 2}
  NewLimits = {0, 2}
  ValidatorAccepts = TRUE
  Org = Org
  Account = Account
  MaxAllocated = 2
  Bodies <- MCBodies
  Patches <- MCPatches
  Requests = {r1, r2}
  Kinds = {"create", "change", "subscribe"}
  Tiers = {"starter", "pro"}
  MaxAccounts <- MCMaxAccounts
  FirstTier = "starter"
  MaxObjects = 3
  MaxCrashes = 1
  Clerks = {k1, k2}
  Work = {"signal", "action"}
  DefaultRates <- MCDefaultRates
  RateBodies <- MCRateBodies
  MaxRateChanges = 3
SYMMETRY Symmetry
SPECIFICATION MCSpec
\* The bounds on issued credits and created objects are reached.
CHECK_DEADLOCK FALSE
INVARIANTS ReservedIsCovered LedgerReconciles RecordsExplainAccounts AccountsFitThePlan
PROPERTIES AllocationRespectsLimit ImplementsLedger ImplementsFlow AnsweredChangeAgrees
