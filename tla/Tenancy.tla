------------------------------- MODULE Tenancy -------------------------------
(***************************************************************************)
(* Organizations, their accounts, departments and users, and the three     *)
(* ways a user comes to be: the REST API, SCIM provisioning by an identity *)
(* provider, and just-in-time provisioning at an SSO login.                *)
(*                                                                         *)
(* A request is a sequence of stages, one per await of its handler: the    *)
(* hierarchy checks, the reads of a configuration or of the row, the count *)
(* of users against the plan, and the write.  Stages of different requests *)
(* interleave; nothing is locked and no transaction is used.               *)
(***************************************************************************)
EXTENDS Naturals, Sequences, FiniteSets

CONSTANTS
  Orgs, Accounts, Depts, Emails,
  Users,            \* ids of user rows; an id is used once
  OrgOf,            \* the organization an account was created under
  DeptOf,           \* the departments there are at the start, with their account
  None,
  MaxUsers,         \* max_users of the plan
  Requests,         \* request slots: how many requests overlap
  MaxRequests,      \* bound: requests in one behaviour
  Workloads         \* bound: the kinds of requests that come together

ASSUME TenancyAssumption ==
  /\ OrgOf \in [Accounts -> Orgs]
  /\ DOMAIN DeptOf \subseteq Depts
  /\ \A d \in DOMAIN DeptOf : DeptOf[d] \in Accounts
  /\ None \notin Orgs \cup Accounts \cup Depts \cup Emails \cup Users
  /\ MaxUsers \in Nat \ {0} /\ MaxRequests \in Nat
  /\ IsFiniteSet(Users) /\ IsFiniteSet(Requests) /\ Requests # {}

VARIABLES
  org,       \* status of an organization, None before and "gone" after its life
  account,   \* "live" or "deleted"
  dept,      \* a department's account and status, None before it is created
  user,      \* user rows, None before they are created
  scim, jit, \* the provisioning configuration of an organization
  group,     \* the members of the SCIM group of an organization
  req,       \* what each request slot is doing
  sent,      \* requests received
  mix,       \* the kinds of requests of this behaviour
  off        \* history: a user was switched off on request

docs == <<org, account, dept, user, scim, jit, group>>
tenancyVars == <<docs, req, sent, mix, off>>

OrgStatuses == {"trial", "active", "suspended"}
UserStatuses == {"active", "inactive", "pending"}
Places == [acc : Accounts, dep : Depts]

(* The persisted documents, with the fields the handlers decide on.        *)
OrgDocs == OrgStatuses \cup {"gone"}
AccountDocs == {"live", "deleted"}
DeptDocs == [acc : Accounts, status : {"active", "inactive"}, is_deleted : BOOLEAN]
UserDocs == [org : Orgs, place : Places, email : Emails, status : UserStatuses,
             is_deleted : BOOLEAN]
ScimConfigs == [enabled : BOOLEAN, place : Places]
SsoMappings == [jit_enabled : BOOLEAN, acc : Accounts \cup {None}, dep : Depts \cup {None}]
Groups == SUBSET Users

-----------------------------------------------------------------------------
(* What requests may ask: bodies that passed validation, on the tenant of  *)
(* the caller's token, with an account and department from query or header.*)

OrgOps == [kind : {"orgUpdate"}, org : Orgs, status : OrgStatuses]
          \cup [kind : {"orgCreate"}, org : Orgs, status : {"trial", "active"}]
          \cup [kind : {"orgRemove"}, org : Orgs]
DeptCreateOps == [kind : {"deptCreate"}, org : Orgs, acc : Accounts, dep : Depts]
DeptOps == [kind : {"deptRemove"}, org : Orgs, acc : Accounts, dep : Depts]
           \cup [kind : {"deptUpdate"}, org : Orgs, acc : Accounts, dep : Depts,
                 status : {"active", "inactive"}]
AccountOps == [kind : {"accountRemove"}, org : Orgs, acc : Accounts]
CreateOps == [kind : {"create"}, org : Orgs, acc : Accounts, dep : Depts, email : Emails,
              status : {"active", "pending"}]
UpdateOps == [kind : {"update"}, org : Orgs, acc : Accounts, dep : Depts, user : Users,
              status : UserStatuses]
             \cup [kind : {"rename"}, org : Orgs, acc : Accounts, dep : Depts, user : Users,
                   email : Emails]
RemoveOps == [kind : {"remove"}, org : Orgs, acc : Accounts, dep : Depts, user : Users]

(* The bearer token of a SCIM request has been resolved to an organization.*)
(* Nothing validates the body: `active` may be a boolean, other JSON, or   *)
(* left out.                                                               *)
ActiveValues == {"true", "false", "text", "absent"}
ScimUserOps == [kind : {"scimCreate"}, org : Orgs, email : Emails, active : BOOLEAN]
               \cup [kind : {"scimPut"}, org : Orgs, user : Users, email : Emails,
                     active : ActiveValues]
               \cup [kind : {"scimDelete"}, org : Orgs, user : Users]
(* A PATCH replaces the name or `active`.                                  *)
ScimPatchOps == [kind : {"scimPatch"}, org : Orgs, user : Users,
                 active : ActiveValues]
ScimGroupOps == [kind : {"groupCreate", "groupUpdate"}, org : Orgs, members : SUBSET Users]
                \cup [kind : {"groupDelete"}, org : Orgs]

ScimConfigOps == [kind : {"scimConfig"}, org : Orgs, acc : Accounts, dep : Depts,
                  enabled : BOOLEAN]
JitConfigOps == [kind : {"jitConfig"}, org : Orgs, acc : Accounts \cup {None},
                 dep : Depts \cup {None}, enabled : BOOLEAN]
LoginOps == [kind : {"ssoLogin"}, org : Orgs, email : Emails]

Ops == OrgOps \cup DeptCreateOps \cup DeptOps \cup AccountOps \cup CreateOps \cup UpdateOps \cup RemoveOps \cup ScimUserOps
       \cup ScimPatchOps \cup ScimGroupOps \cup ScimConfigOps \cup JitConfigOps \cup LoginOps

ASSUME NoneAssumption == None \notin UserDocs \cup DeptDocs \cup Ops

(* The awaits of each handler, in order.                                   *)
UserRoute(kind) ==
  CASE kind = "create" -> <<"account", "dept", "count", "write">>
    [] kind \in {"update", "rename"} -> <<"account", "dept", "read", "write">>
    [] kind = "remove" -> <<"account", "dept", "write">>
HierarchyRoute(kind) ==
  CASE kind \in {"deptCreate", "deptRemove"} -> <<"account", "write">>
    [] kind = "deptUpdate" -> <<"account", "read", "write">>
    [] kind = "orgUpdate" -> <<"read", "write">>
    [] kind \in {"orgCreate", "orgRemove", "accountRemove"} -> <<"write">>
ScimRoute(kind) ==
  CASE kind = "scimCreate" -> <<"config", "exists", "count", "write">>
    [] kind \in {"scimPut", "scimPatch"} -> <<"config", "read", "write">>
    [] kind = "groupCreate" -> <<"config", "members", "write">>
    [] kind = "groupUpdate" -> <<"config", "read", "members", "write">>
    [] kind \in {"scimDelete", "groupDelete"} -> <<"config", "write">>
    [] kind = "scimConfig" -> <<"account", "dept", "write">>
SsoRoute(kind) ==
  CASE kind = "jitConfig" -> <<"read", "account", "dept", "write">>
    [] kind = "ssoLogin" -> <<"mapping", "exists", "count", "resolve", "account", "dept", "write">>

UserKinds == {"create", "update", "rename", "remove"}
HierarchyKinds == {"deptCreate", "deptRemove", "deptUpdate", "orgUpdate", "orgCreate",
                   "orgRemove", "accountRemove"}
SsoKinds == {"jitConfig", "ssoLogin"}
Route(kind) == CASE kind \in UserKinds -> UserRoute(kind)
                 [] kind \in HierarchyKinds -> HierarchyRoute(kind)
                 [] kind \in SsoKinds -> SsoRoute(kind)
                 [] OTHER -> ScimRoute(kind)

NoRequest == [op |-> None, todo |-> <<>>, place |-> None, saw |-> None]

At(r, stage) == req[r].todo # <<>> /\ Head(req[r].todo) = stage
Op(r) == req[r].op

(* The handler goes on to its next await, or answers an error.             *)
Goes(r, place, saw) ==
  req' = [req EXCEPT ![r] = [op |-> Op(r), todo |-> Tail(req[r].todo),
                             place |-> place, saw |-> saw]]
Skips(r, n, place, saw) ==
  req' = [req EXCEPT ![r] = [op |-> Op(r), place |-> place, saw |-> saw,
                             todo |-> SubSeq(req[r].todo, n + 1, Len(req[r].todo))]]
Ends(r) == req' = [req EXCEPT ![r] = NoRequest]

-----------------------------------------------------------------------------
(* Receiving                                                               *)

Receive(r) ==
  /\ req[r] = NoRequest
  /\ sent < MaxRequests
  /\ sent' = sent + 1
  /\ \E op \in Ops :
       /\ op.kind \in mix
       /\ req' = [req EXCEPT ![r] = [NoRequest EXCEPT !.op = op, !.todo = Route(op.kind)]]
  /\ UNCHANGED <<docs, mix, off>>

-----------------------------------------------------------------------------
(* Checks and reads                                                        *)

AccountInOrg(a, o) == account[a] = "live" /\ OrgOf[a] = o
(* Mutant: the department is looked up by its id alone.                    *)
DeptInScope_AnyAccount(d, a) == dept[d] # None /\ ~dept[d].is_deleted
DeptInScope(d, a) == dept[d] # None /\ dept[d].acc = a /\ ~dept[d].is_deleted

(* The account and department a request names: those of the query, or the  *)
(* defaults of the mapping it has read.                                    *)
Target(r) == IF Op(r).kind \in SsoKinds THEN req[r].saw
             ELSE [acc |-> Op(r).acc, dep |-> IF Op(r).kind \in {"deptCreate", "deptRemove",
                                                                 "deptUpdate"}
                                              THEN None ELSE Op(r).dep]

CheckAccount(r) ==
  /\ At(r, "account")
  /\ IF AccountInOrg(Target(r).acc, Op(r).org)
     THEN Goes(r, req[r].place, req[r].saw) ELSE Ends(r)
  /\ UNCHANGED <<docs, sent, mix, off>>

CheckDept(r) ==
  /\ At(r, "dept")
  /\ IF DeptInScope(Target(r).dep, Target(r).acc)
     THEN Goes(r, Target(r), req[r].saw) ELSE Ends(r)
  /\ UNCHANGED <<docs, sent, mix, off>>

LiveUser(u) == user[u] # None /\ ~user[u].is_deleted
Counted(o) == {u \in Users : LiveUser(u) /\ user[u].org = o}
HasEmail(o, e) == \E u \in Counted(o) : user[u].email = e

MayAddUser(o) == Cardinality(Counted(o)) < MaxUsers

CountUsers(r) ==
  /\ At(r, "count")
  /\ IF MayAddUser(Op(r).org) THEN Goes(r, req[r].place, req[r].saw) ELSE Ends(r)
  /\ UNCHANGED <<docs, sent, mix, off>>

(* requireConfig: the defaults are kept for the rest of the request.       *)
RequireScim(r) ==
  /\ At(r, "config")
  /\ LET c == scim[Op(r).org]
     IN IF c # None /\ c.enabled THEN Goes(r, c.place, None) ELSE Ends(r)
  /\ UNCHANGED <<docs, sent, mix, off>>

FindByEmail(r) ==
  /\ At(r, "exists")
  /\ LET found == HasEmail(Op(r).org, Op(r).email)
     IN CASE Op(r).kind = "scimCreate" /\ found -> Ends(r)
          [] Op(r).kind = "ssoLogin" /\ found -> Skips(r, 2, req[r].place, req[r].saw)
          [] OTHER -> Goes(r, req[r].place, req[r].saw)
  /\ UNCHANGED <<docs, sent, mix, off>>

InScope(u, place, o) == LiveUser(u) /\ user[u].org = o /\ user[u].place = place

(* The row a handler reads before it writes: what it saw is what it will   *)
(* decide on.                                                              *)
ReadRow(r) ==
  /\ At(r, "read")
  /\ LET op == Op(r) IN
     \/ /\ op.kind \in {"update", "rename"}
        /\ IF InScope(op.user, req[r].place, op.org)
           THEN Goes(r, req[r].place, user[op.user].status) ELSE Ends(r)
     \/ /\ op.kind \in {"scimPut", "scimPatch"}
        /\ IF op.user \in Counted(op.org)
           THEN Goes(r, None, [status |-> user[op.user].status,
                               email |-> user[op.user].email])
           ELSE Ends(r)
     \/ /\ op.kind = "groupUpdate"
        /\ IF group[op.org] # None THEN Goes(r, req[r].place, None) ELSE Ends(r)
     \/ /\ op.kind = "orgUpdate"
        /\ IF org[op.org] \in OrgStatuses THEN Goes(r, None, org[op.org]) ELSE Ends(r)
     \/ /\ op.kind = "deptUpdate"
        /\ IF DeptInScope(op.dep, op.acc) THEN Goes(r, None, None) ELSE Ends(r)
     \/ /\ op.kind = "jitConfig"
        /\ LET m == jit[op.org]
               old == IF m = None THEN [acc |-> None, dep |-> None]
                      ELSE [acc |-> m.acc, dep |-> m.dep]
               new == [acc |-> IF op.acc # None THEN op.acc ELSE old.acc,
                       dep |-> IF op.dep # None THEN op.dep ELSE old.dep]
           IN \/ ~op.enabled /\ Skips(r, 3, None, new)
              \/ op.enabled /\ None \in {new.acc, new.dep} /\ Ends(r)
              \/ op.enabled /\ None \notin {new.acc, new.dep} /\ Goes(r, None, new)
  /\ UNCHANGED <<docs, sent, mix, off>>

(* The members that are users of the organization.                         *)
ResolveMembers(r) ==
  /\ At(r, "members")
  /\ Goes(r, req[r].place, Op(r).members \cap Counted(Op(r).org))
  /\ UNCHANGED <<docs, sent, mix, off>>

(* Without just-in-time provisioning the login needs an active user and    *)
(* touches nothing but the time of the last login.                         *)
ReadMapping(r) ==
  /\ At(r, "mapping")
  /\ LET m == jit[Op(r).org] IN
     IF m = None \/ ~m.jit_enabled \/ m.acc = None \/ m.dep = None THEN Ends(r)
     ELSE Goes(r, None, [acc |-> m.acc, dep |-> m.dep])
  /\ UNCHANGED <<docs, sent, mix, off>>

(* The department is the default of the mapping, or the active one of the  *)
(* default account that the profile names.                                 *)
ResolveDept(r) ==
  /\ At(r, "resolve")
  /\ LET acc == req[r].saw.acc IN
     \E d \in {req[r].saw.dep}
              \cup {x \in Depts : DeptInScope(x, acc) /\ dept[x].status = "active"} :
       Goes(r, None, [acc |-> acc, dep |-> d])
  /\ UNCHANGED <<docs, sent, mix, off>>

-----------------------------------------------------------------------------
(* Writes                                                                  *)

Writes(r, kinds) == At(r, "write") /\ Op(r).kind \in kinds

(* Other requests that read the user before this write and decide on it.   *)
Crossing(r, u) == \E s \in Requests \ {r} :
                    /\ Op(s) # None
                    /\ Op(s).kind = "scimPatch" /\ Op(s).user = u /\ At(s, "write")

(* History: the user was set to a status on request.                       *)
Records(r, u, status) ==
  off' = [off EXCEPT ![u] = IF status = "active" THEN "no"
                            ELSE IF Crossing(r, u) THEN "crossed" ELSE "held"]

(* The unique index on organization and email refuses a second live row.   *)
InsertRow(r, status) ==
  /\ IF HasEmail(Op(r).org, Op(r).email) THEN UNCHANGED user
     ELSE \E u \in Users :
            /\ user[u] = None
            /\ user' = [user EXCEPT ![u] =
                 [org |-> Op(r).org, place |-> req[r].place, email |-> Op(r).email,
                  status |-> status, is_deleted |-> FALSE]]
  /\ Ends(r)
  /\ UNCHANGED <<org, account, dept, scim, jit, group, sent, mix, off>>

CreateUser(r) == Writes(r, {"create"}) /\ InsertRow(r, Op(r).status)

(* The new user is placed where the configuration said when it was read.   *)
ScimCreateUser(r) == /\ Writes(r, {"scimCreate"})
                     /\ InsertRow(r, IF Op(r).active THEN "active" ELSE "inactive")

UpdateUser(r) ==
  /\ Writes(r, {"update"})
  /\ LET op == Op(r) IN
     IF InScope(op.user, req[r].place, op.org)
     THEN /\ user' = [user EXCEPT ![op.user].status = op.status]
          /\ Records(r, op.user, op.status)
     ELSE UNCHANGED <<user, off>>
  /\ Ends(r)
  /\ UNCHANGED <<org, account, dept, scim, jit, group, sent, mix>>

RenameUser(r) ==
  /\ Writes(r, {"rename"})
  /\ LET op == Op(r) IN
     IF InScope(op.user, req[r].place, op.org) /\ ~HasEmail(op.org, op.email)
     THEN user' = [user EXCEPT ![op.user].email = op.email]
     ELSE UNCHANGED user
  /\ Ends(r)
  /\ UNCHANGED <<org, account, dept, scim, jit, group, sent, mix, off>>

RemoveUser(r) ==
  /\ Writes(r, {"remove"})
  /\ IF InScope(Op(r).user, req[r].place, Op(r).org)
     THEN user' = [user EXCEPT ![Op(r).user].is_deleted = TRUE] ELSE UNCHANGED user
  /\ Ends(r)
  /\ UNCHANGED <<org, account, dept, scim, jit, group, sent, mix, off>>

(* Mutant: a patch that does not mention `active` activates.               *)
Activated_Default(op, saw) == op.active # "false"

(* A patch of something else.  A PUT is never silent: it replaces the      *)
(* resource, and what it leaves out is not carried over.                   *)
Silent(op) == op.kind = "scimPatch" /\ op.active = "absent"

(* What `active` becomes: a silent patch writes back what it has read, the *)
(* e-mail address too; whatever else is not false counts as true, in a PUT *)
(* without `active` as well.                                               *)
Activated(op, saw) ==
  IF Silent(op) THEN saw.status = "active" ELSE op.active # "false"

ScimUpdateUser(r) ==
  /\ Writes(r, {"scimPut", "scimPatch"})
  /\ LET op == Op(r)
         status == IF Activated(op, req[r].saw) THEN "active" ELSE "inactive"
         email == IF op.kind = "scimPut" THEN op.email ELSE req[r].saw.email
         taken == \E u \in Counted(op.org) \ {op.user} : user[u].email = email
     IN IF op.user \in Counted(op.org) /\ ~taken
        THEN /\ user' = [user EXCEPT ![op.user].status = status, ![op.user].email = email]
             /\ IF Silent(op) THEN UNCHANGED off ELSE Records(r, op.user, status)
        ELSE UNCHANGED <<user, off>>
  /\ Ends(r)
  /\ UNCHANGED <<org, account, dept, scim, jit, group, sent, mix>>

ScimDeactivateUser(r) ==
  /\ Writes(r, {"scimDelete"})
  /\ LET u == Op(r).user IN
     IF LiveUser(u) /\ user[u].org = Op(r).org
     THEN /\ user' = [user EXCEPT ![u].status = "inactive", ![u].is_deleted = TRUE]
          /\ off' = [off EXCEPT ![u] = "held"]
     ELSE UNCHANGED <<user, off>>
  /\ Ends(r)
  /\ UNCHANGED <<org, account, dept, scim, jit, group, sent, mix>>

(* The update names first_name, status and more both in $set and in        *)
(* $setOnInsert, which MongoDB refuses: the login fails, nothing changes.  *)
JitUpsert(r) ==
  /\ Writes(r, {"ssoLogin"})
  /\ Ends(r)
  /\ UNCHANGED <<docs, sent, mix, off>>

SaveScimConfig(r) ==
  /\ Writes(r, {"scimConfig"})
  /\ scim' = [scim EXCEPT ![Op(r).org] = [enabled |-> Op(r).enabled, place |-> req[r].place]]
  /\ Ends(r)
  /\ UNCHANGED <<org, account, dept, user, jit, group, sent, mix, off>>

(* Only the fields of the body are written over the stored mapping.        *)
SaveJitMapping(r) ==
  /\ Writes(r, {"jitConfig"})
  /\ LET op == Op(r)
         old == IF jit[op.org] = None THEN [acc |-> None, dep |-> None] ELSE jit[op.org]
     IN jit' = [jit EXCEPT ![op.org] =
                  [jit_enabled |-> op.enabled,
                   acc |-> IF op.acc # None THEN op.acc ELSE old.acc,
                   dep |-> IF op.dep # None THEN op.dep ELSE old.dep]]
  /\ Ends(r)
  /\ UNCHANGED <<org, account, dept, user, scim, group, sent, mix, off>>

SaveGroup(r) ==
  /\ Writes(r, {"groupCreate", "groupUpdate", "groupDelete"})
  /\ LET op == Op(r)
         exists == group[op.org] # None
     IN group' = [group EXCEPT ![op.org] =
                    CASE op.kind = "groupCreate" /\ ~exists -> req[r].saw
                      [] op.kind = "groupUpdate" /\ exists -> req[r].saw
                      [] op.kind = "groupDelete" -> None
                      [] OTHER -> @]
  /\ Ends(r)
  /\ UNCHANGED <<org, account, dept, user, scim, jit, sent, mix, off>>

(* Policy: from each status, the statuses it may change to.                *)
AllowedStatus(from) == CASE from = "trial" -> {"active", "suspended"}
                         [] from = "active" -> {"suspended"}
                         [] from = "suspended" -> {"active"}

(* The change is checked against the status the handler read.              *)
UpdateOrg(r) ==
  /\ Writes(r, {"orgUpdate"})
  /\ LET op == Op(r) IN
     org' = [org EXCEPT ![op.org] =
               IF @ \in OrgStatuses /\ (op.status = req[r].saw \/ op.status \in AllowedStatus(req[r].saw))
               THEN op.status ELSE @]
  /\ Ends(r)
  /\ UNCHANGED <<account, dept, user, scim, jit, group, sent, mix, off>>

(* An organization is deleted for good and its documents stay behind.      *)
CreateOrRemoveOrg(r) ==
  /\ Writes(r, {"orgCreate", "orgRemove"})
  /\ LET op == Op(r) IN
     org' = [org EXCEPT ![op.org] = CASE op.kind = "orgRemove" /\ @ # None -> "gone"
                                      [] op.kind = "orgCreate" /\ @ = None -> op.status
                                      [] OTHER -> @]
  /\ Ends(r)
  /\ UNCHANGED <<account, dept, user, scim, jit, group, sent, mix, off>>

CreateDept(r) ==
  /\ Writes(r, {"deptCreate"})
  /\ dept' = [dept EXCEPT ![Op(r).dep] =
                IF @ = None THEN [acc |-> Op(r).acc, status |-> "active", is_deleted |-> FALSE]
                ELSE @]
  /\ Ends(r)
  /\ UNCHANGED <<org, account, user, scim, jit, group, sent, mix, off>>

(* A department or an account is marked deleted; what is under it is not.  *)
ChangeDept(r) ==
  /\ Writes(r, {"deptUpdate", "deptRemove"})
  /\ LET op == Op(r) IN
     IF DeptInScope(op.dep, op.acc)
     THEN dept' = [dept EXCEPT ![op.dep] = IF op.kind = "deptUpdate"
                                           THEN [@ EXCEPT !.status = op.status]
                                           ELSE [@ EXCEPT !.is_deleted = TRUE]]
     ELSE UNCHANGED dept
  /\ Ends(r)
  /\ UNCHANGED <<org, account, user, scim, jit, group, sent, mix, off>>

RemoveAccount(r) ==
  /\ Writes(r, {"accountRemove"})
  /\ account' = [account EXCEPT ![Op(r).acc] =
                   IF OrgOf[Op(r).acc] = Op(r).org THEN "deleted" ELSE @]
  /\ Ends(r)
  /\ UNCHANGED <<org, dept, user, scim, jit, group, sent, mix, off>>

-----------------------------------------------------------------------------
Check(r) == CheckAccount(r) \/ CheckDept(r) \/ CountUsers(r) \/ RequireScim(r)
            \/ FindByEmail(r) \/ ReadRow(r) \/ ResolveMembers(r) \/ ReadMapping(r)
            \/ ResolveDept(r)
Write(r) == CreateUser(r) \/ ScimCreateUser(r) \/ UpdateUser(r) \/ RenameUser(r) \/ RemoveUser(r)
            \/ ScimUpdateUser(r) \/ ScimDeactivateUser(r) \/ JitUpsert(r)
            \/ SaveScimConfig(r) \/ SaveJitMapping(r) \/ SaveGroup(r) \/ UpdateOrg(r)
            \/ CreateOrRemoveOrg(r) \/ CreateDept(r) \/ ChangeDept(r) \/ RemoveAccount(r)

Row(o, place, e) == [org |-> o, place |-> place, email |-> e, status |-> "active",
                     is_deleted |-> FALSE]
DefaultPlaces(o) == {[acc |-> DeptOf[d], dep |-> d] : d \in {x \in DOMAIN DeptOf :
                                                            OrgOf[DeptOf[x]] = o}}

(* Provisioning is configured when a behaviour is not about configuring it,*)
(* and there may be a user already.                                        *)
TenancyInit ==
  /\ mix \in Workloads
  /\ org \in [Orgs -> IF "orgCreate" \in mix THEN {None, "trial"} ELSE {"active"}]
  /\ account = [a \in Accounts |-> "live"]
  /\ dept = [d \in Depts |-> IF d \in DOMAIN DeptOf
                             THEN [acc |-> DeptOf[d], status |-> "active", is_deleted |-> FALSE]
                             ELSE None]
  /\ \E o \in Orgs, place \in Places, u \in Users, e \in Emails :
       user \in {[x \in Users |-> None]}
               \cup IF place \in DefaultPlaces(o)
                    THEN {[x \in Users |-> IF x = u THEN Row(o, place, e) ELSE None]} ELSE {}
  /\ scim \in [Orgs -> {None} \cup [enabled : {TRUE}, place : Places]]
  /\ jit \in [Orgs -> {None} \cup [jit_enabled : {TRUE}, acc : Accounts, dep : Depts]]
  /\ \A o \in Orgs : /\ IF DefaultPlaces(o) = {} \/ "scimConfig" \in mix THEN scim[o] = None
                         ELSE scim[o] # None /\ scim[o].place \in DefaultPlaces(o)
                      /\ IF DefaultPlaces(o) = {} \/ "jitConfig" \in mix THEN jit[o] = None
                         ELSE jit[o] # None /\ [acc |-> jit[o].acc, dep |-> jit[o].dep]
                                               \in DefaultPlaces(o)
  /\ group = [o \in Orgs |-> None]
  /\ req = [r \in Requests |-> NoRequest]
  /\ sent = 0
  /\ off = [u \in Users |-> "no"]

TenancyNext == \E r \in Requests : Receive(r) \/ Check(r) \/ Write(r)

TenancySpec == TenancyInit /\ [][TenancyNext]_tenancyVars

-----------------------------------------------------------------------------
(* Properties                                                              *)

(* A place is a department of that account and the account is one of that  *)
(* organization: what assertUserHierarchy establishes for a moment.        *)
PlaceIn(place, o) == /\ OrgOf[place.acc] = o
                     /\ dept[place.dep] # None
                     /\ dept[place.dep].acc = place.acc

UsersPlaced == \A u \in Users : user[u] # None => PlaceIn(user[u].place, user[u].org)
ConfigsPlaced == \A o \in Orgs : scim[o] # None => PlaceIn(scim[o].place, o)
MembersInOrg == \A o \in Orgs : group[o] # None =>
                  \A u \in group[o] : user[u] # None /\ user[u].org = o

(* Whichever way they came about and whatever happened between check and   *)
(* write, users, provisioning defaults and group members stay inside their *)
(* organization, and a department belongs to the account it is named with. *)
TenantIsolation == UsersPlaced /\ ConfigsPlaced /\ MembersInOrg

(* The plan limit is checked by counting and kept by nobody: overlapping   *)
(* creations pass together, but no more than there are requests.           *)
UserOverrunIsBounded ==
  \A o \in Orgs : Cardinality(Counted(o)) <= MaxUsers + Cardinality(Requests) - 1

(* Once a user has been switched off, and no request is under way that has *)
(* read it before, only a request that asks for it switches it on again,   *)
(* or a PUT, which asks for it by leaving `active` out: neither a patch of *)
(* something else nor a login does.                                        *)
DeactivationHolds ==
  \A u \in Users : off[u] = "held" => user[u].status # "active"

(* Provisioning adds no more users than it may and revives none.           *)
ProvisioningHolds == UserOverrunIsBounded /\ DeactivationHolds

=============================================================================
