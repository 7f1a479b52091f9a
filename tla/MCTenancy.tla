------------------------------ MODULE MCTenancy ------------------------------
(* Tenancy with two organizations of one account and one department each;  *)
(* the requests that overlap are of one workload at a time.                *)
EXTENDS Tenancy, TLC

CONSTANTS o1, o2, a1, a2, d1, d2

MCOrgOf == a1 :> o1 @@ a2 :> o2
MCDeptOf == d1 :> a1 @@ d2 :> a2
MCWorkloads == {
  {"create", "deptCreate", "deptRemove", "accountRemove"},
  {"scimConfig", "scimCreate"},
  {"jitConfig", "ssoLogin"}, {"deptUpdate", "deptRemove", "ssoLogin"},
  {"create", "scimCreate", "ssoLogin"},
  {"update", "scimPatch", "scimDelete", "ssoLogin"},
  {"remove", "rename", "scimPatch", "scimPut"},
  {"groupCreate", "groupUpdate", "groupDelete", "scimDelete"},
  {"orgUpdate", "orgCreate", "orgRemove"}}
Swap == o1 :> o2 @@ o2 :> o1 @@ a1 :> a2 @@ a2 :> a1 @@ d1 :> d2 @@ d2 :> d1
Symmetry == Permutations(Users) \cup Permutations(Emails) \cup Permutations(Requests) \cup {Swap}
=============================================================================
