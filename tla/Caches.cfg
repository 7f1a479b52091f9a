\* Two overlapping requests about one user and one custom role, while a server
\* seeds the last of the system roles; two requests for two cached routes,
\* filed under two organizations, whose data change twice in the memory of two
\* replicas, and a failure or a restart.
CONSTANTS
  u1 = u1
  r1 = r1
  r2 = r2
  Users = {u1}
  RoleIds = {1}
  RoleNames = {"auditor"}
  Requests = {r1, r2}
  Places = {1, 2}
  Groups = {"g"}
  AssignedRoles = {"org_admin", "dept_user"}
  PermissionLists <- MCLists
  Levels = {1, 4}
  OldPermissions <- MCOld
  None = None
  Claim <- MCClaim
  Mappings <- MCMappings
  SeededBefore = 4
  Calls = {r1, r2}
  Replicas = {p1, p2}
  List = List
  Own = Own
  Other = Other
  Deliveries = Deliveries
  MaxVersion = 2
  MaxFailures = 1
SYMMETRY Symmetry
SPECIFICATION MCSpec
INVARIANTS SettledPermissionsAreFresh RolesStayUnderTheirCeiling SettledIsCoherent
