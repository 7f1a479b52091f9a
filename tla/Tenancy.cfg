\* Two overlapping requests, three in all, of one workload.
CONSTANTS
  o1 = o1
  o2 = o2
  a1 = a1
  a2 = a2
  d1 = d1
  d2 = d2
  None = None
  Orgs = {o1, o2}
  Accounts = {a1, a2}
  Depts = {d1, d2}
  Emails = {e1, e2, e3}
  Users = {u1, u2, u3}
  OrgOf <- MCOrgOf
  DeptOf <- MCDeptOf
  MaxUsers = 1
  Requests = {r1, r2}
  MaxRequests = 3
  Workloads <- MCWorkloads
SYMMETRY Symmetry
SPECIFICATION TenancySpec
\* The bound on requests is reached.
CHECK_DEADLOCK FALSE
INVARIANTS TenantIsolation ProvisioningHolds
