---------------------------- MODULE TenancyProofs ----------------------------
(***************************************************************************)
(* The requests of Tenancy check first and write later, and other requests *)
(* write in between; they still keep everybody inside one organization.    *)
(* What a request has established about a place is never undone, because   *)
(* an account never changes its organization, nor a department its         *)
(* account, nor a row its place: the invariant says of each request, by    *)
(* the stages it has left, what it has established.                        *)
(***************************************************************************)
EXTENDS Tenancy, FiniteSetTheorems, TLAPS

PlaceKinds == {"create", "scimCreate", "scimConfig"}
PatchKinds == {"scimPut", "scimPatch"}
GroupKinds == {"groupCreate", "groupUpdate"}

(* PlaceIn and membership, of the documents passed.                        *)
Settled(place, o, depts) ==
  /\ place \in Places /\ OrgOf[place.acc] = o
  /\ depts[place.dep] # None /\ depts[place.dep].acc = place.acc
Belong(members, o, users) ==
  members \subseteq Users /\ \A u \in members : users[u] # None /\ users[u].org = o

(* What a request x of each kind has established by the stages it has      *)
(* left.                                                                   *)
CreateReady(x, depts) ==
  \/ x.todo = <<"account", "dept", "count", "write">>
  \/ x.todo = <<"dept", "count", "write">> /\ OrgOf[x.op.acc] = x.op.org
  \/ x.todo \in {<<"count", "write">>, <<"write">>} /\ Settled(x.place, x.op.org, depts)
ConfigReady(x, depts) ==
  \/ x.todo = <<"account", "dept", "write">>
  \/ x.todo = <<"dept", "write">> /\ OrgOf[x.op.acc] = x.op.org
  \/ x.todo = <<"write">> /\ Settled(x.place, x.op.org, depts)
ProvisionReady(x, depts) ==
  \/ x.todo = <<"config", "exists", "count", "write">>
  \/ /\ x.todo \in {<<"exists", "count", "write">>, <<"count", "write">>, <<"write">>}
     /\ Settled(x.place, x.op.org, depts)
PatchReady(x) ==
  \/ x.todo \in {<<"config", "read", "write">>, <<"read", "write">>}
  \/ x.todo = <<"write">> /\ x.saw \in [status : UserStatuses, email : Emails]
GroupReady(x, users) ==
  \/ x.todo \in {<<"config", "members", "write">>, <<"config", "read", "members", "write">>,
                 <<"read", "members", "write">>, <<"members", "write">>}
  \/ x.todo = <<"write">> /\ Belong(x.saw, x.op.org, users)

Ready(x, depts, users) ==
  /\ x.op.kind = "create" => CreateReady(x, depts)
  /\ x.op.kind = "scimConfig" => ConfigReady(x, depts)
  /\ x.op.kind = "scimCreate" => ProvisionReady(x, depts)
  /\ x.op.kind \in PatchKinds => PatchReady(x)
  /\ x.op.kind \in GroupKinds => GroupReady(x, users)

DocsTyped ==
  /\ user \in [Users -> UserDocs \cup {None}]
  /\ dept \in [Depts -> DeptDocs \cup {None}]
  /\ scim = [o \in Orgs |-> scim[o]]
  /\ group = [o \in Orgs |-> group[o]]
  /\ \A o \in Orgs : scim[o] # None => scim[o].place \in Places
  /\ \A o \in Orgs : group[o] # None => group[o] \subseteq Users

RequestsReady ==
  /\ req = [r \in Requests |-> req[r]]
  /\ \A r \in Requests :
       req[r] = NoRequest \/ (req[r].op \in Ops /\ Ready(req[r], dept, user))

TenancyInv == DocsTyped /\ RequestsReady /\ TenantIsolation

-----------------------------------------------------------------------------
(* The requests                                                            *)

LEMMA OpTyped ==
  ASSUME NEW op \in Ops
  PROVE  /\ op.org \in Orgs
         /\ op.kind \in {"create", "scimConfig"} => op.acc \in Accounts /\ op.dep \in Depts
         /\ op.kind \in {"create", "scimCreate", "rename", "scimPut"} => op.email \in Emails
         /\ op.kind = "create" => op.status \in UserStatuses
         /\ op.kind = "update" => op.status \in UserStatuses
         /\ op.kind \in {"update", "rename", "remove"} => op.user \in Users
         /\ op.kind \in PatchKinds => op.user \in Users
         /\ op.kind = "scimDelete" => op.user \in Users
         /\ op.kind \in {"deptCreate", "deptRemove", "deptUpdate"} =>
              op.acc \in Accounts /\ op.dep \in Depts
         /\ op.kind = "deptUpdate" => op.status \in {"active", "inactive"}
BY DEF Ops, OrgOps, DeptCreateOps, DeptOps, AccountOps, CreateOps, UpdateOps, RemoveOps,
       ScimUserOps, ScimPatchOps, ScimGroupOps, ScimConfigOps, JitConfigOps, LoginOps,
       PatchKinds, UserStatuses

LEMMA Routes ==
  /\ Route("create") = <<"account", "dept", "count", "write">>
  /\ Route("scimConfig") = <<"account", "dept", "write">>
  /\ Route("scimCreate") = <<"config", "exists", "count", "write">>
  /\ \A k \in PatchKinds : Route(k) = <<"config", "read", "write">>
  /\ Route("groupCreate") = <<"config", "members", "write">>
  /\ Route("groupUpdate") = <<"config", "read", "members", "write">>
<1>1. Route("create") = <<"account", "dept", "count", "write">>
  <2>1. Route("create") = UserRoute("create")
    <3>1. "create" \in UserKinds
      BY DEF UserKinds
    <3>2. "create" \notin HierarchyKinds /\ "create" \notin SsoKinds
      BY DEF HierarchyKinds, SsoKinds
    <3> QED BY <3>1, <3>2 DEF Route
  <2>2. UserRoute("create") = <<"account", "dept", "count", "write">>
    BY DEF UserRoute
  <2> QED BY <2>1, <2>2
<1>2. Route("scimConfig") = <<"account", "dept", "write">>
  BY DEF Route, ScimRoute, UserKinds, HierarchyKinds, SsoKinds
<1>3. Route("scimCreate") = <<"config", "exists", "count", "write">>
  BY DEF Route, ScimRoute, UserKinds, HierarchyKinds, SsoKinds
<1>4. /\ Route("scimPut") = <<"config", "read", "write">>
      /\ Route("scimPatch") = <<"config", "read", "write">>
  BY DEF Route, ScimRoute, UserKinds, HierarchyKinds, SsoKinds
<1>5. Route("groupCreate") = <<"config", "members", "write">>
  BY DEF Route, ScimRoute, UserKinds, HierarchyKinds, SsoKinds
<1>6. Route("groupUpdate") = <<"config", "read", "members", "write">>
  BY DEF Route, ScimRoute, UserKinds, HierarchyKinds, SsoKinds
<1> QED BY <1>1, <1>2, <1>3, <1>4, <1>5, <1>6 DEF PatchKinds

(* The stages a route goes through, and what is left after each of them.   *)
First(todo) == Head(todo)
Rest(todo) == Tail(todo)

LEMMA Stages ==
  /\ First(<<"account", "dept", "count", "write">>) = "account"
  /\ First(<<"account", "dept", "write">>) = "account"
  /\ First(<<"dept", "count", "write">>) = "dept" /\ First(<<"dept", "write">>) = "dept"
  /\ First(<<"count", "write">>) = "count" /\ First(<<"write">>) = "write"
  /\ First(<<"config", "exists", "count", "write">>) = "config"
  /\ First(<<"exists", "count", "write">>) = "exists"
  /\ First(<<"config", "read", "write">>) = "config" /\ First(<<"read", "write">>) = "read"
  /\ First(<<"config", "members", "write">>) = "config"
  /\ First(<<"config", "read", "members", "write">>) = "config"
  /\ First(<<"read", "members", "write">>) = "read" /\ First(<<"members", "write">>) = "members"
BY DEF First

LEMMA Rests ==
  /\ Rest(<<"account", "dept", "count", "write">>) = <<"dept", "count", "write">>
  /\ Rest(<<"account", "dept", "write">>) = <<"dept", "write">>
  /\ Rest(<<"dept", "count", "write">>) = <<"count", "write">>
  /\ Rest(<<"dept", "write">>) = <<"write">> /\ Rest(<<"count", "write">>) = <<"write">>
  /\ Rest(<<"config", "exists", "count", "write">>) = <<"exists", "count", "write">>
  /\ Rest(<<"exists", "count", "write">>) = <<"count", "write">>
  /\ Rest(<<"config", "read", "write">>) = <<"read", "write">>
  /\ Rest(<<"read", "write">>) = <<"write">>
  /\ Rest(<<"config", "members", "write">>) = <<"members", "write">>
  /\ Rest(<<"config", "read", "members", "write">>) = <<"read", "members", "write">>
  /\ Rest(<<"read", "members", "write">>) = <<"members", "write">>
  /\ Rest(<<"members", "write">>) = <<"write">>
BY DEF Rest

(* At a stage there is a request.                                          *)
LEMMA Busy ==
  ASSUME RequestsReady, NEW r \in Requests, NEW stage, At(r, stage)
  PROVE  /\ Op(r) \in Ops /\ Ready(req[r], dept, user)
         /\ First(req[r].todo) = stage
BY DEF RequestsReady, At, NoRequest, Op, First

-----------------------------------------------------------------------------
(* What no step undoes                                                     *)

Kept(depts, users) ==
  /\ \A d \in Depts : dept[d] # None => depts[d] # None /\ depts[d].acc = dept[d].acc
  /\ \A u \in Users : user[u] # None =>
       users[u] # None /\ users[u].org = user[u].org /\ users[u].place = user[u].place

LEMMA ReadyKept ==
  ASSUME NEW depts, NEW users, Kept(depts, users), NEW x, Ready(x, dept, user)
  PROVE  Ready(x, depts, users)
<1>1. \A p, o : Settled(p, o, dept) => Settled(p, o, depts)
  BY DEF Kept, Settled, Places
<1>2. \A m, o : Belong(m, o, user) => Belong(m, o, users)
  BY DEF Kept, Belong
<1> QED BY <1>1, <1>2 DEF Ready, CreateReady, ConfigReady, ProvisionReady, GroupReady

LEMMA IsolationKept ==
  ASSUME DocsTyped, TenantIsolation, Kept(dept', user'),
         scim' = scim, group' = group,
         \A u \in Users : user[u] = None /\ user'[u] # None =>
           Settled(user'[u].place, user'[u].org, dept')
  PROVE  TenantIsolation'
<1>1. \A p \in Places, o \in Orgs : PlaceIn(p, o) => PlaceIn(p, o)'
  BY DEF PlaceIn, Kept, Places
<1>2. UsersPlaced'
  BY <1>1 DEF TenantIsolation, UsersPlaced, Kept, DocsTyped, UserDocs, Settled, PlaceIn
<1>3. ConfigsPlaced'
  BY <1>1 DEF TenantIsolation, ConfigsPlaced, DocsTyped
<1>4. MembersInOrg'
  BY DEF TenantIsolation, MembersInOrg, Kept, DocsTyped
<1> QED BY <1>2, <1>3, <1>4 DEF TenantIsolation

-----------------------------------------------------------------------------
(* The steps of a request that write no document                           *)

LEMMA Advance ==
  ASSUME RequestsReady, NEW r \in Requests, NEW x, Kept(dept', user'),
         req' = [req EXCEPT ![r] = x],
         x = NoRequest \/ (x.op \in Ops /\ Ready(x, dept', user'))
  PROVE  RequestsReady'
<1>1. /\ req'[r] = x /\ \A s \in Requests \ {r} : req'[s] = req[s]
      /\ req' = [s \in Requests |-> req'[s]]
  BY DEF RequestsReady
<1>2. \A s \in Requests : req'[s] = NoRequest \/ (req'[s].op \in Ops /\ Ready(req'[s], dept', user'))
  BY <1>1, ReadyKept DEF RequestsReady
<1> QED BY <1>1, <1>2 DEF RequestsReady

LEMMA Finish ==
  ASSUME RequestsReady, NEW r \in Requests, Kept(dept', user'), Ends(r)
  PROVE  RequestsReady'
BY Advance DEF Ends

(* The request as it goes on with a place and what it saw.                 *)
Next1(r, place, saw) ==
  [op |-> Op(r), todo |-> Tail(req[r].todo), place |-> place, saw |-> saw]

LEMMA NextFields ==
  ASSUME NEW r, NEW place, NEW saw
  PROVE  LET x == Next1(r, place, saw)
         IN /\ x.op = Op(r) /\ x.todo = Rest(req[r].todo)
            /\ x.place = place /\ x.saw = saw
BY DEF Next1, Rest

LEMMA StartIsReady ==
  ASSUME NEW op \in Ops
  PROVE  LET x == [NoRequest EXCEPT !.op = op, !.todo = Route(op.kind)]
         IN x.op = op /\ Ready(x, dept, user)
<1> DEFINE x == [NoRequest EXCEPT !.op = op, !.todo = Route(op.kind)]
<1>1. x.op = op /\ x.todo = Route(op.kind)
  BY DEF NoRequest
<1> HIDE DEF x
<1>2. op.kind = "create" => CreateReady(x, dept)
  BY <1>1, Routes DEF CreateReady
<1>3. op.kind = "scimConfig" => ConfigReady(x, dept)
  BY <1>1, Routes DEF ConfigReady
<1>4. op.kind = "scimCreate" => ProvisionReady(x, dept)
  BY <1>1, Routes DEF ProvisionReady
<1>5. op.kind \in PatchKinds => PatchReady(x)
  BY <1>1, Routes DEF PatchReady
<1>6. op.kind \in GroupKinds => GroupReady(x, user)
  BY <1>1, Routes DEF GroupReady, GroupKinds
<1>7. Ready(x, dept, user)
  BY <1>1, <1>2, <1>3, <1>4, <1>5, <1>6 DEF Ready
<1> QED BY <1>1, <1>7 DEF x

LEMMA AccountPassed ==
  ASSUME RequestsReady, NEW r \in Requests, At(r, "account"),
         AccountInOrg(Target(r).acc, Op(r).org), NEW place, NEW saw
  PROVE  Ready(Next1(r, place, saw), dept, user)
<1> DEFINE x == Next1(r, place, saw)
<1>1. /\ Op(r) \in Ops /\ Ready(req[r], dept, user) /\ Op(r) = req[r].op
      /\ First(req[r].todo) = "account"
      /\ x.op = Op(r) /\ x.todo = Rest(req[r].todo)
  BY Busy, NextFields DEF Op
<1> HIDE DEF x
<1>2. Op(r).kind \in {"create", "scimConfig"} => OrgOf[Op(r).acc] = Op(r).org
  BY DEF Target, SsoKinds, AccountInOrg
<1>3. Op(r).kind = "create" => CreateReady(x, dept)
  BY <1>1, <1>2, Stages, Rests DEF Ready, CreateReady
<1>4. Op(r).kind = "scimConfig" => ConfigReady(x, dept)
  BY <1>1, <1>2, Stages, Rests DEF Ready, ConfigReady
<1>5. Op(r).kind \notin {"scimCreate"} \cup PatchKinds \cup GroupKinds
  BY <1>1, Stages, Rests DEF Ready, ProvisionReady, PatchReady, GroupReady
<1> QED BY <1>1, <1>3, <1>4, <1>5 DEF Ready, x

LEMMA DeptPassed ==
  ASSUME RequestsReady, NEW r \in Requests, At(r, "dept"),
         DeptInScope(Target(r).dep, Target(r).acc), NEW saw
  PROVE  Ready(Next1(r, Target(r), saw), dept, user)
<1> DEFINE x == Next1(r, Target(r), saw)
<1>1. /\ Op(r) \in Ops /\ Ready(req[r], dept, user) /\ Op(r) = req[r].op
      /\ First(req[r].todo) = "dept"
      /\ x.op = Op(r) /\ x.todo = Rest(req[r].todo) /\ x.place = Target(r)
  BY Busy, NextFields DEF Op
<1> HIDE DEF x
<1>2. Op(r).kind \in {"create", "scimConfig"} =>
        /\ Target(r) = [acc |-> Op(r).acc, dep |-> Op(r).dep]
        /\ Op(r).acc \in Accounts /\ Op(r).dep \in Depts
  BY <1>1, OpTyped DEF Target, SsoKinds
<1>3. Op(r).kind = "create" => CreateReady(x, dept)
  BY <1>1, <1>2, Stages, Rests DEF Ready, CreateReady, Settled, Places, DeptInScope
<1>4. Op(r).kind = "scimConfig" => ConfigReady(x, dept)
  BY <1>1, <1>2, Stages, Rests DEF Ready, ConfigReady, Settled, Places, DeptInScope
<1>5. Op(r).kind \notin {"scimCreate"} \cup PatchKinds \cup GroupKinds
  BY <1>1, Stages, Rests DEF Ready, ProvisionReady, PatchReady, GroupReady
<1> QED BY <1>1, <1>3, <1>4, <1>5 DEF Ready, x

LEMMA CountPassed ==
  ASSUME RequestsReady, NEW r \in Requests, At(r, "count") \/ At(r, "exists"), NEW saw
  PROVE  Ready(Next1(r, req[r].place, saw), dept, user)
<1> DEFINE x == Next1(r, req[r].place, saw)
<1>1. /\ Op(r) \in Ops /\ Ready(req[r], dept, user) /\ Op(r) = req[r].op
      /\ First(req[r].todo) \in {"count", "exists"}
      /\ x.op = Op(r) /\ x.todo = Rest(req[r].todo) /\ x.place = req[r].place
  BY Busy, NextFields DEF Op
<1> HIDE DEF x
<1>2. Op(r).kind = "create" => CreateReady(x, dept)
  BY <1>1, Stages, Rests DEF Ready, CreateReady
<1>3. Op(r).kind = "scimCreate" => ProvisionReady(x, dept)
  BY <1>1, Stages, Rests DEF Ready, ProvisionReady
<1>4. Op(r).kind \notin {"scimConfig"} \cup PatchKinds \cup GroupKinds
  BY <1>1, Stages, Rests DEF Ready, ConfigReady, PatchReady, GroupReady
<1> QED BY <1>1, <1>2, <1>3, <1>4 DEF Ready, x

LEMMA ConfigPassed ==
  ASSUME DocsTyped, ConfigsPlaced, RequestsReady, NEW r \in Requests, At(r, "config"),
         scim[Op(r).org] # None
  PROVE  Ready(Next1(r, scim[Op(r).org].place, None), dept, user)
<1> DEFINE place == scim[Op(r).org].place
           x == Next1(r, place, None)
<1>1. /\ Op(r) \in Ops /\ Ready(req[r], dept, user) /\ Op(r) = req[r].op
      /\ First(req[r].todo) = "config"
      /\ x.op = Op(r) /\ x.todo = Rest(req[r].todo) /\ x.place = place
  BY Busy, NextFields DEF Op
<1> HIDE DEF x
<1>2. Settled(place, Op(r).org, dept)
  BY <1>1, OpTyped DEF DocsTyped, ConfigsPlaced, PlaceIn, Settled
<1> HIDE DEF place
<1>3. Op(r).kind = "scimCreate" => ProvisionReady(x, dept)
  BY <1>1, <1>2, Stages, Rests DEF Ready, ProvisionReady
<1>4. Op(r).kind \in PatchKinds => PatchReady(x)
  BY <1>1, Stages, Rests DEF Ready, PatchReady
<1>5. Op(r).kind \in GroupKinds => GroupReady(x, user)
  BY <1>1, Stages, Rests DEF Ready, GroupReady
<1>6. Op(r).kind \notin {"create", "scimConfig"}
  BY <1>1, Stages, Rests DEF Ready, ConfigReady, CreateReady
<1> QED BY <1>1, <1>3, <1>4, <1>5, <1>6 DEF Ready, x, place

LEMMA ReadPassed ==
  ASSUME RequestsReady, NEW r \in Requests, At(r, "read"), NEW place, NEW saw,
         Op(r).kind \in PatchKinds => saw \in [status : UserStatuses, email : Emails]
  PROVE  Ready(Next1(r, place, saw), dept, user)
<1> DEFINE x == Next1(r, place, saw)
<1>1. /\ Op(r) \in Ops /\ Ready(req[r], dept, user) /\ Op(r) = req[r].op
      /\ First(req[r].todo) = "read"
      /\ x.op = Op(r) /\ x.todo = Rest(req[r].todo) /\ x.saw = saw
  BY Busy, NextFields DEF Op
<1> HIDE DEF x
<1>2. Op(r).kind \in PatchKinds => PatchReady(x)
  BY <1>1, Stages, Rests DEF Ready, PatchReady
<1>3. Op(r).kind \in GroupKinds => GroupReady(x, user)
  BY <1>1, Stages, Rests DEF Ready, GroupReady
<1>4. Op(r).kind \notin {"create", "scimConfig", "scimCreate"}
  BY <1>1, Stages, Rests DEF Ready, ConfigReady, CreateReady, ProvisionReady
<1> QED BY <1>1, <1>2, <1>3, <1>4 DEF Ready, x

LEMMA MembersPassed ==
  ASSUME RequestsReady, NEW r \in Requests, At(r, "members"), NEW place
  PROVE  Ready(Next1(r, place, Op(r).members \cap Counted(Op(r).org)), dept, user)
<1> DEFINE saw == Op(r).members \cap Counted(Op(r).org)
           x == Next1(r, place, saw)
<1>1. /\ Op(r) \in Ops /\ Ready(req[r], dept, user) /\ Op(r) = req[r].op
      /\ First(req[r].todo) = "members"
      /\ x.op = Op(r) /\ x.todo = Rest(req[r].todo) /\ x.saw = saw
  BY Busy, NextFields DEF Op
<1>2. Belong(saw, Op(r).org, user)
  BY DEF Belong, Counted, LiveUser
<1> HIDE DEF x, saw
<1>3. Op(r).kind \in GroupKinds => GroupReady(x, user)
  BY <1>1, <1>2, Stages, Rests DEF Ready, GroupReady
<1>4. Op(r).kind \notin {"create", "scimConfig", "scimCreate"} \cup PatchKinds
  BY <1>1, Stages, Rests DEF Ready, ConfigReady, CreateReady, ProvisionReady, PatchReady
<1> QED BY <1>1, <1>3, <1>4 DEF Ready, x, saw

(* A request of any other kind has nothing to establish.                   *)
Tracked == PlaceKinds \cup PatchKinds \cup GroupKinds

LEMMA Untracked ==
  ASSUME NEW x, x.op.kind \notin Tracked, NEW depts, NEW users
  PROVE  Ready(x, depts, users)
BY DEF Ready, Tracked, PlaceKinds

LEMMA SsoPassed ==
  ASSUME RequestsReady, NEW r \in Requests, At(r, "mapping") \/ At(r, "resolve")
  PROVE  Op(r) \in Ops /\ Op(r).kind \notin Tracked
<1>1. /\ Op(r) \in Ops /\ Ready(req[r], dept, user) /\ Op(r) = req[r].op
      /\ First(req[r].todo) \in {"mapping", "resolve"}
  BY Busy DEF Op
<1>2. Op(r).kind \notin PlaceKinds
  BY <1>1, Stages DEF Ready, PlaceKinds, CreateReady, ConfigReady, ProvisionReady
<1>3. Op(r).kind \notin PatchKinds /\ Op(r).kind \notin GroupKinds
  BY <1>1, Stages DEF Ready, PatchReady, GroupReady
<1> QED BY <1>1, <1>2, <1>3 DEF Tracked

LEMMA GoesOn ==
  ASSUME RequestsReady, NEW r \in Requests, NEW place, NEW saw, UNCHANGED docs,
         Op(r) \in Ops, Ready(Next1(r, place, saw), dept, user), Goes(r, place, saw)
  PROVE  RequestsReady'
<1> DEFINE x == Next1(r, place, saw)
<1>1. req' = [req EXCEPT ![r] = x]
  BY DEF Goes, Next1
<1>2. x.op \in Ops /\ Ready(x, dept', user')
  BY NextFields DEF docs
<1>3. Kept(dept', user')
  BY DEF Kept, docs
<1> HIDE DEF x
<1> QED BY <1>1, <1>2, <1>3, Advance

LEMMA SkipsOn ==
  ASSUME RequestsReady, NEW r \in Requests, NEW n, NEW place, NEW saw, UNCHANGED docs,
         Op(r) \in Ops, Op(r).kind \notin Tracked, Skips(r, n, place, saw)
  PROVE  RequestsReady'
<1> DEFINE x == [op |-> Op(r), place |-> place, saw |-> saw,
                 todo |-> SubSeq(req[r].todo, n + 1, Len(req[r].todo))]
<1>1. req' = [req EXCEPT ![r] = x]
  BY DEF Skips
<1>2. x.op = Op(r)
  OBVIOUS
<1>3. Kept(dept', user')
  BY DEF Kept, docs
<1> HIDE DEF x
<1>4. Ready(x, dept', user')
  BY <1>2, Untracked
<1> QED BY <1>1, <1>2, <1>3, <1>4, Advance

LEMMA EndsIdle ==
  ASSUME RequestsReady, NEW r \in Requests, UNCHANGED docs, Ends(r)
  PROVE  RequestsReady'
BY Finish DEF Kept, docs

LEMMA Unwritten ==
  ASSUME TenancyInv, UNCHANGED docs, RequestsReady'
  PROVE  TenancyInv'
BY DEF TenancyInv, DocsTyped, TenantIsolation, UsersPlaced, ConfigsPlaced, MembersInOrg,
       PlaceIn, docs

LEMMA ReceiveStep ==
  ASSUME TenancyInv, NEW r \in Requests, Receive(r)
  PROVE  TenancyInv'
<1> PICK op \in Ops :
      req' = [req EXCEPT ![r] = [NoRequest EXCEPT !.op = op, !.todo = Route(op.kind)]]
  BY DEF Receive
<1> DEFINE x == [NoRequest EXCEPT !.op = op, !.todo = Route(op.kind)]
<1>1. req' = [req EXCEPT ![r] = x] /\ UNCHANGED docs
  BY DEF Receive
<1>2. x.op = op /\ Ready(x, dept', user')
  BY <1>1, StartIsReady DEF docs
<1>3. Kept(dept', user')
  BY <1>1 DEF Kept, docs
<1> HIDE DEF x
<1>4. RequestsReady'
  BY <1>1, <1>2, <1>3, Advance DEF TenancyInv
<1> QED BY <1>1, <1>4, Unwritten

LEMMA ReadRowStep ==
  ASSUME TenancyInv, NEW r \in Requests, ReadRow(r)
  PROVE  RequestsReady'
<1> DEFINE op == Op(r)
<1>1. /\ DocsTyped /\ RequestsReady /\ At(r, "read") /\ UNCHANGED docs
      /\ op \in Ops
  BY Busy DEF TenancyInv, ReadRow
<1>2. \A place, saw : op.kind \notin PatchKinds /\ Goes(r, place, saw) => RequestsReady'
  BY <1>1, ReadPassed, GoesOn
<1>3. Ends(r) => RequestsReady'
  BY <1>1, EndsIdle
<1>4. CASE op.kind \in PatchKinds
  <2> DEFINE saw == [status |-> user[op.user].status, email |-> user[op.user].email]
  <2>1. Ends(r) \/ (op.user \in Counted(op.org) /\ Goes(r, None, saw))
    BY <1>4 DEF ReadRow, PatchKinds
  <2>2. op.user \in Counted(op.org) => saw \in [status : UserStatuses, email : Emails]
    BY <1>1 DEF Counted, LiveUser, DocsTyped, UserDocs
  <2> HIDE DEF saw
  <2> QED BY <1>1, <1>3, <2>1, <2>2, ReadPassed, GoesOn
<1>5. CASE op.kind = "jitConfig"
  <2>1. PICK place, saw : Skips(r, 3, place, saw) \/ Ends(r) \/ Goes(r, place, saw)
    BY <1>5 DEF ReadRow
  <2>2. op.kind \notin Tracked
    BY <1>5 DEF Tracked, PlaceKinds, PatchKinds, GroupKinds
  <2> QED BY <1>1, <1>2, <1>3, <2>1, <2>2, SkipsOn DEF Tracked
<1>6. CASE op.kind \notin PatchKinds \cup {"jitConfig"}
  <2>1. PICK place, saw : Ends(r) \/ Goes(r, place, saw)
    BY <1>6 DEF ReadRow, PatchKinds
  <2> QED BY <1>2, <1>3, <1>6, <2>1
<1> QED BY <1>4, <1>5, <1>6

(* The stages that check or read change no document.                       *)
LEMMA CheckStep ==
  ASSUME TenancyInv, NEW r \in Requests, Check(r)
  PROVE  TenancyInv'
<1>1. DocsTyped /\ RequestsReady /\ ConfigsPlaced
  BY DEF TenancyInv, TenantIsolation
<1>2. UNCHANGED docs
  BY DEF Check, CheckAccount, CheckDept, CountUsers, RequireScim, FindByEmail, ReadRow,
         ResolveMembers, ReadMapping, ResolveDept
<1> SUFFICES RequestsReady'
  BY <1>2, Unwritten
<1>3. Ends(r) => RequestsReady'
  BY <1>1, <1>2, EndsIdle
<1>4. \A stage, place, saw :
        At(r, stage) /\ Ready(Next1(r, place, saw), dept, user) /\ Goes(r, place, saw)
          => RequestsReady'
  BY <1>1, <1>2, Busy, GoesOn
<1>5. CASE CheckAccount(r)
  <2>1. CASE AccountInOrg(Target(r).acc, Op(r).org)
    <3>1. At(r, "account") /\ Goes(r, req[r].place, req[r].saw)
      BY <1>5, <2>1 DEF CheckAccount
    <3>2. Ready(Next1(r, req[r].place, req[r].saw), dept, user)
      BY <1>1, <2>1, <3>1, AccountPassed
    <3> QED BY <1>4, <3>1, <3>2
  <2>2. CASE ~AccountInOrg(Target(r).acc, Op(r).org)
    BY <1>3, <1>5, <2>2 DEF CheckAccount
  <2> QED BY <2>1, <2>2
<1>6. CASE CheckDept(r)
  <2>1. CASE DeptInScope(Target(r).dep, Target(r).acc)
    <3>1. At(r, "dept") /\ Goes(r, Target(r), req[r].saw)
      BY <1>6, <2>1 DEF CheckDept
    <3>2. Ready(Next1(r, Target(r), req[r].saw), dept, user)
      BY <1>1, <2>1, <3>1, DeptPassed
    <3> QED BY <1>4, <3>1, <3>2
  <2>2. CASE ~DeptInScope(Target(r).dep, Target(r).acc)
    BY <1>3, <1>6, <2>2 DEF CheckDept
  <2> QED BY <2>1, <2>2
<1>7. CASE CountUsers(r)
  <2>1. At(r, "count") /\ (Ends(r) \/ Goes(r, req[r].place, req[r].saw))
    BY <1>7 DEF CountUsers
  <2>2. Ready(Next1(r, req[r].place, req[r].saw), dept, user)
    BY <1>1, <2>1, CountPassed
  <2> QED BY <1>3, <1>4, <2>1, <2>2
<1>8. CASE RequireScim(r)
  <2>1. /\ At(r, "config")
        /\ Ends(r) \/ (scim[Op(r).org] # None /\ Goes(r, scim[Op(r).org].place, None))
    BY <1>8 DEF RequireScim
  <2>2. scim[Op(r).org] # None => Ready(Next1(r, scim[Op(r).org].place, None), dept, user)
    BY <1>1, <2>1, ConfigPassed
  <2> QED BY <1>3, <1>4, <2>1, <2>2
<1>9. CASE FindByEmail(r)
  <2>1. At(r, "exists")
    BY <1>9 DEF FindByEmail
  <2>2. Goes(r, req[r].place, req[r].saw) => RequestsReady'
    <3>1. Ready(Next1(r, req[r].place, req[r].saw), dept, user)
      BY <1>1, <2>1, CountPassed
    <3> QED BY <1>4, <2>1, <3>1
  <2>3. CASE Op(r).kind = "ssoLogin"
    <3>1. Op(r) \in Ops /\ Op(r).kind \notin Tracked
      BY <1>1, <2>1, <2>3, Busy DEF Tracked, PlaceKinds, PatchKinds, GroupKinds
    <3>2. Skips(r, 2, req[r].place, req[r].saw) \/ Goes(r, req[r].place, req[r].saw)
      BY <1>9, <2>3 DEF FindByEmail
    <3>3. Skips(r, 2, req[r].place, req[r].saw) => RequestsReady'
      BY <1>1, <1>2, <3>1, SkipsOn
    <3> QED BY <2>2, <3>2, <3>3
  <2>4. CASE Op(r).kind # "ssoLogin"
    <3>1. Ends(r) \/ Goes(r, req[r].place, req[r].saw)
      BY <1>9, <2>4 DEF FindByEmail
    <3> QED BY <1>3, <2>2, <3>1
  <2> QED BY <2>3, <2>4
<1>10. CASE ReadRow(r)
  BY <1>10, ReadRowStep
<1>11. CASE ResolveMembers(r)
  <2> DEFINE saw == Op(r).members \cap Counted(Op(r).org)
  <2>1. At(r, "members") /\ Goes(r, req[r].place, saw)
    BY <1>11 DEF ResolveMembers
  <2>2. Ready(Next1(r, req[r].place, saw), dept, user)
    BY <1>1, <2>1, MembersPassed
  <2> HIDE DEF saw
  <2> QED BY <1>4, <2>1, <2>2
<1>12. CASE ReadMapping(r) \/ ResolveDept(r)
  <2>1. At(r, "mapping") \/ At(r, "resolve")
    BY <1>12 DEF ReadMapping, ResolveDept
  <2>2. Op(r) \in Ops /\ Op(r).kind \notin Tracked
    BY <1>1, <2>1, SsoPassed
  <2>3. \A place, saw : Ready(Next1(r, place, saw), dept, user)
    BY <2>2, Untracked, NextFields
  <2>4. PICK place, saw : Ends(r) \/ Goes(r, place, saw)
    BY <1>12 DEF ReadMapping, ResolveDept
  <2> QED BY <1>3, <1>4, <2>1, <2>3, <2>4
<1> QED BY <1>5, <1>6, <1>7, <1>8, <1>9, <1>10, <1>11, <1>12 DEF Check

-----------------------------------------------------------------------------
(* The steps that write                                                    *)

(* What a request has established when it comes to write.                  *)
LEMMA WriteReady ==
  ASSUME RequestsReady, NEW r \in Requests, At(r, "write")
  PROVE  /\ Op(r) \in Ops
         /\ Op(r).kind \in PlaceKinds => Settled(req[r].place, Op(r).org, dept)
         /\ Op(r).kind \in PatchKinds =>
              req[r].saw \in [status : UserStatuses, email : Emails]
         /\ Op(r).kind \in GroupKinds => Belong(req[r].saw, Op(r).org, user)
<1>1. /\ Op(r) \in Ops /\ Ready(req[r], dept, user) /\ Op(r) = req[r].op
      /\ First(req[r].todo) = "write"
  BY Busy DEF Op
<1>2. Op(r).kind = "create" => Settled(req[r].place, Op(r).org, dept)
  BY <1>1, Stages DEF Ready, CreateReady
<1>3. Op(r).kind = "scimConfig" => Settled(req[r].place, Op(r).org, dept)
  BY <1>1, Stages DEF Ready, ConfigReady
<1>4. Op(r).kind = "scimCreate" => Settled(req[r].place, Op(r).org, dept)
  BY <1>1, Stages DEF Ready, ProvisionReady
<1>5. Op(r).kind \in PatchKinds => req[r].saw \in [status : UserStatuses, email : Emails]
  BY <1>1, Stages DEF Ready, PatchReady
<1>6. Op(r).kind \in GroupKinds => Belong(req[r].saw, Op(r).org, user)
  BY <1>1, Stages DEF Ready, GroupReady
<1> QED BY <1>1, <1>2, <1>3, <1>4, <1>5, <1>6 DEF PlaceKinds

(* A step that writes no row of interest, and one that writes a user row.  *)
LEMMA NoRowWritten ==
  ASSUME TenancyInv, NEW r \in Requests, Ends(r), UNCHANGED <<dept, user, scim, group>>
  PROVE  TenancyInv'
<1>1. RequestsReady'
  BY Finish DEF TenancyInv, Kept
<1> QED BY <1>1 DEF TenancyInv, DocsTyped, TenantIsolation, UsersPlaced, ConfigsPlaced,
                    MembersInOrg, PlaceIn

(* A row that is there keeps its organization and its place.               *)
LEMMA RowChanged ==
  ASSUME TenancyInv, NEW r \in Requests, Ends(r), UNCHANGED <<dept, scim, group>>,
         NEW u \in Users, user[u] # None, NEW row \in UserDocs,
         row.org = user[u].org, row.place = user[u].place,
         user' = [user EXCEPT ![u] = row]
  PROVE  TenancyInv'
<1>1. DocsTyped /\ RequestsReady /\ TenantIsolation
  BY DEF TenancyInv
<1>2. /\ user'[u] = row /\ \A v \in Users \ {u} : user'[v] = user[v]
      /\ user' \in [Users -> UserDocs \cup {None}]
  BY <1>1 DEF DocsTyped
<1>3. row # None
  BY NoneAssumption
<1>4. Kept(dept', user')
  BY <1>2, <1>3 DEF Kept
<1>5. DocsTyped'
  BY <1>1, <1>2 DEF DocsTyped
<1>6. TenantIsolation'
  BY <1>1, <1>2, <1>4, IsolationKept
<1> QED BY <1>1, <1>4, <1>5, <1>6, Finish DEF TenancyInv

LEMMA InsertStep ==
  ASSUME TenancyInv, NEW r \in Requests, At(r, "write"), NEW status \in UserStatuses,
         Op(r).kind \in {"create", "scimCreate"}, InsertRow(r, status)
  PROVE  TenancyInv'
<1>1. /\ DocsTyped /\ RequestsReady /\ TenantIsolation /\ Ends(r)
      /\ dept' = dept /\ scim' = scim /\ group' = group
  BY DEF TenancyInv, InsertRow
<1>2. /\ Op(r) \in Ops /\ Op(r).org \in Orgs /\ Op(r).email \in Emails
      /\ Settled(req[r].place, Op(r).org, dept)
  BY <1>1, WriteReady, OpTyped DEF PlaceKinds
<1>3. CASE HasEmail(Op(r).org, Op(r).email)
  BY <1>1, <1>3, NoRowWritten DEF InsertRow
<1>4. CASE ~HasEmail(Op(r).org, Op(r).email)
  <2> DEFINE row == [org |-> Op(r).org, place |-> req[r].place, email |-> Op(r).email,
                     status |-> status, is_deleted |-> FALSE]
  <2>1. PICK u \in Users : user[u] = None /\ user' = [user EXCEPT ![u] = row]
    BY <1>4 DEF InsertRow
  <2>2. row \in UserDocs /\ row.org = Op(r).org /\ row.place = req[r].place
    BY <1>2 DEF UserDocs, Settled
  <2> HIDE DEF row
  <2>3. /\ user'[u] = row /\ \A v \in Users \ {u} : user'[v] = user[v]
        /\ user' \in [Users -> UserDocs \cup {None}]
    BY <1>1, <2>1, <2>2 DEF DocsTyped
  <2>4. Kept(dept', user')
    BY <1>1, <2>1, <2>3 DEF Kept
  <2>5. DocsTyped'
    BY <1>1, <2>3 DEF DocsTyped
  <2>6. \A v \in Users : user[v] = None /\ user'[v] # None =>
          Settled(user'[v].place, user'[v].org, dept')
    BY <1>1, <1>2, <2>1, <2>2, <2>3
  <2>7. TenantIsolation'
    BY <1>1, <2>4, <2>6, IsolationKept
  <2> QED BY <1>1, <2>4, <2>5, <2>7, Finish DEF TenancyInv
<1> QED BY <1>3, <1>4

(* What the updates of a user do to its row.                               *)
LEMMA RowRewritten ==
  ASSUME TenancyInv, NEW r \in Requests, ~UNCHANGED <<user, off>>,
         UpdateUser(r) \/ RenameUser(r) \/ RemoveUser(r) \/ ScimUpdateUser(r)
           \/ ScimDeactivateUser(r)
  PROVE  LET u == Op(r).user
         IN /\ u \in Users /\ LiveUser(u)
            /\ \E row \in UserDocs : /\ row.org = user[u].org /\ row.place = user[u].place
                                     /\ user' = [user EXCEPT ![u] = row]
<1> DEFINE u == Op(r).user
<1>1. /\ DocsTyped /\ RequestsReady /\ At(r, "write")
  BY DEF TenancyInv, UpdateUser, RenameUser, RemoveUser, ScimUpdateUser,
         ScimDeactivateUser, Writes
<1>2. /\ Op(r) \in Ops
      /\ Op(r).kind \in PatchKinds => req[r].saw.email \in Emails
  BY <1>1, WriteReady
<1>4. LiveUser(u) /\ u \in Users => user[u] \in UserDocs
  BY <1>1 DEF DocsTyped, LiveUser
<1>5. CASE UpdateUser(r)
  <2>1. /\ Op(r).kind = "update" /\ LiveUser(u)
        /\ user' = [user EXCEPT ![u].status = Op(r).status]
    BY <1>5 DEF UpdateUser, Writes, InScope
  <2>2. u \in Users /\ Op(r).status \in UserStatuses
    BY <1>2, <2>1, OpTyped
  <2> DEFINE row == [user[u] EXCEPT !.status = Op(r).status]
  <2>3. user' = [user EXCEPT ![u] = row]
    BY <1>1, <2>1, <2>2 DEF DocsTyped
  <2>4. row \in UserDocs /\ row.org = user[u].org /\ row.place = user[u].place
    BY <1>4, <2>1, <2>2 DEF UserDocs
  <2> HIDE DEF row
  <2> QED BY <2>1, <2>2, <2>3, <2>4
<1>6. CASE RenameUser(r)
  <2>1. /\ Op(r).kind = "rename" /\ LiveUser(u)
        /\ user' = [user EXCEPT ![u].email = Op(r).email]
    BY <1>6 DEF RenameUser, Writes, InScope
  <2>2. u \in Users /\ Op(r).email \in Emails
    BY <1>2, <2>1, OpTyped
  <2> DEFINE row == [user[u] EXCEPT !.email = Op(r).email]
  <2>3. user' = [user EXCEPT ![u] = row]
    BY <1>1, <2>1, <2>2 DEF DocsTyped
  <2>4. row \in UserDocs /\ row.org = user[u].org /\ row.place = user[u].place
    BY <1>4, <2>1, <2>2 DEF UserDocs
  <2> HIDE DEF row
  <2> QED BY <2>1, <2>2, <2>3, <2>4
<1>7. CASE RemoveUser(r)
  <2>1. /\ Op(r).kind = "remove" /\ LiveUser(u)
        /\ user' = [user EXCEPT ![u].is_deleted = TRUE]
    BY <1>7 DEF RemoveUser, Writes, InScope
  <2>2. u \in Users
    BY <1>2, <2>1, OpTyped
  <2> DEFINE row == [user[u] EXCEPT !.is_deleted = TRUE]
  <2>3. user' = [user EXCEPT ![u] = row]
    BY <1>1, <2>1, <2>2 DEF DocsTyped
  <2>4. row \in UserDocs /\ row.org = user[u].org /\ row.place = user[u].place
    BY <1>4, <2>1, <2>2 DEF UserDocs
  <2> HIDE DEF row
  <2> QED BY <2>1, <2>2, <2>3, <2>4
<1>8. CASE ScimUpdateUser(r)
  <2>1. PICK status, email :
          /\ status \in UserStatuses /\ Op(r).kind \in PatchKinds /\ LiveUser(u)
          /\ email = IF Op(r).kind = "scimPut" THEN Op(r).email ELSE req[r].saw.email
          /\ user' = [user EXCEPT ![u].status = status, ![u].email = email]
    BY <1>8 DEF ScimUpdateUser, Writes, Counted, PatchKinds, UserStatuses
  <2>2. u \in Users /\ email \in Emails
    BY <1>2, <2>1, OpTyped
  <2> DEFINE row == [user[u] EXCEPT !.status = status, !.email = email]
  <2>3. user' = [user EXCEPT ![u] = row]
    BY <1>1, <2>1, <2>2 DEF DocsTyped
  <2>4. row \in UserDocs /\ row.org = user[u].org /\ row.place = user[u].place
    BY <1>4, <2>1, <2>2 DEF UserDocs
  <2> HIDE DEF row
  <2> QED BY <2>1, <2>2, <2>3, <2>4
<1>9. CASE ScimDeactivateUser(r)
  <2>1. /\ Op(r).kind = "scimDelete" /\ LiveUser(u)
        /\ user' = [user EXCEPT ![u].status = "inactive", ![u].is_deleted = TRUE]
    BY <1>9 DEF ScimDeactivateUser, Writes
  <2>2. u \in Users
    BY <1>2, <2>1, OpTyped
  <2> DEFINE row == [user[u] EXCEPT !.status = "inactive", !.is_deleted = TRUE]
  <2>3. user' = [user EXCEPT ![u] = row]
    BY <1>1, <2>1, <2>2 DEF DocsTyped
  <2>4. row \in UserDocs /\ row.org = user[u].org /\ row.place = user[u].place
    BY <1>4, <2>1, <2>2 DEF UserDocs, UserStatuses
  <2> HIDE DEF row
  <2> QED BY <2>1, <2>2, <2>3, <2>4
<1> QED BY <1>5, <1>6, <1>7, <1>8, <1>9

LEMMA UpdateStep ==
  ASSUME TenancyInv, NEW r \in Requests,
         UpdateUser(r) \/ RenameUser(r) \/ RemoveUser(r) \/ ScimUpdateUser(r)
           \/ ScimDeactivateUser(r)
  PROVE  TenancyInv'
<1>1. Ends(r) /\ UNCHANGED <<dept, scim, group>>
  BY DEF UpdateUser, RenameUser, RemoveUser, ScimUpdateUser, ScimDeactivateUser
<1>2. CASE user' = user
  BY <1>1, <1>2, NoRowWritten
<1>3. CASE user' # user
  <2>1. ~UNCHANGED <<user, off>>
    BY <1>3
  <2> QED BY <1>1, <2>1, RowRewritten, RowChanged DEF LiveUser
<1> QED BY <1>2, <1>3

LEMMA SaveConfigStep ==
  ASSUME TenancyInv, NEW r \in Requests, SaveScimConfig(r)
  PROVE  TenancyInv'
<1> DEFINE o == Op(r).org
           config == [enabled |-> Op(r).enabled, place |-> req[r].place]
<1>1. /\ DocsTyped /\ RequestsReady /\ TenantIsolation
      /\ At(r, "write") /\ Op(r).kind = "scimConfig" /\ Ends(r)
      /\ UNCHANGED <<dept, user, group>> /\ scim' = [scim EXCEPT ![o] = config]
  BY DEF TenancyInv, SaveScimConfig, Writes
<1>2. o \in Orgs /\ Settled(req[r].place, o, dept)
  BY <1>1, WriteReady, OpTyped DEF PlaceKinds
<1>3. config.place = req[r].place
  OBVIOUS
<1> HIDE DEF config, o
<1>4. /\ scim'[o] = config /\ \A p \in Orgs \ {o} : scim'[p] = scim[p]
      /\ scim' = [p \in Orgs |-> scim'[p]]
  BY <1>1, <1>2 DEF DocsTyped
<1>5. DocsTyped'
  BY <1>1, <1>2, <1>3, <1>4 DEF DocsTyped, Settled
<1>6. ConfigsPlaced'
  BY <1>1, <1>2, <1>3, <1>4 DEF TenantIsolation, ConfigsPlaced, PlaceIn, Settled
<1>7. TenantIsolation'
  BY <1>1, <1>6 DEF TenantIsolation, UsersPlaced, MembersInOrg, PlaceIn
<1>8. RequestsReady'
  BY <1>1, Finish DEF Kept
<1> QED BY <1>5, <1>7, <1>8 DEF TenancyInv

LEMMA SaveGroupStep ==
  ASSUME TenancyInv, NEW r \in Requests, SaveGroup(r)
  PROVE  TenancyInv'
<1> DEFINE o == Op(r).org
<1>1. /\ DocsTyped /\ RequestsReady /\ TenantIsolation /\ At(r, "write") /\ Ends(r)
      /\ UNCHANGED <<dept, user, scim>>
  BY DEF TenancyInv, SaveGroup, Writes
<1>2. /\ o \in Orgs
      /\ Op(r).kind \in GroupKinds => Belong(req[r].saw, o, user)
  BY <1>1, WriteReady, OpTyped
<1>3. PICK members : /\ group' = [group EXCEPT ![o] = members]
                     /\ members # None => members = group[o] \/ Belong(members, o, user)
  <2>1. CASE Op(r).kind = "groupDelete"
    <3>1. group' = [group EXCEPT ![o] = None]
      BY <2>1 DEF SaveGroup
    <3> QED BY <3>1
  <2>2. CASE Op(r).kind \in GroupKinds
    <3>1. group' = [group EXCEPT ![o] = req[r].saw] \/ group' = [group EXCEPT ![o] = group[o]]
      <4>1. CASE Op(r).kind = "groupCreate" /\ group[o] = None
        BY <4>1 DEF SaveGroup
      <4>2. CASE Op(r).kind = "groupUpdate" /\ group[o] # None
        BY <4>2 DEF SaveGroup
      <4>3. CASE ~(Op(r).kind = "groupCreate" /\ group[o] = None)
                 /\ ~(Op(r).kind = "groupUpdate" /\ group[o] # None)
        BY <2>2, <4>3 DEF SaveGroup, GroupKinds
      <4> QED BY <4>1, <4>2, <4>3
    <3> QED BY <1>2, <2>2, <3>1
  <2> QED BY <2>1, <2>2 DEF SaveGroup, Writes, GroupKinds
<1> HIDE DEF o
<1>4. /\ group'[o] = members /\ \A p \in Orgs \ {o} : group'[p] = group[p]
      /\ group' = [p \in Orgs |-> group'[p]]
  BY <1>1, <1>2, <1>3 DEF DocsTyped
<1>5. DocsTyped'
  BY <1>1, <1>2, <1>3, <1>4 DEF DocsTyped, Belong
<1>6. MembersInOrg'
  BY <1>1, <1>2, <1>3, <1>4 DEF TenantIsolation, MembersInOrg, Belong
<1>7. TenantIsolation'
  BY <1>1, <1>6 DEF TenantIsolation, UsersPlaced, ConfigsPlaced, PlaceIn
<1>8. RequestsReady'
  BY <1>1, Finish DEF Kept
<1> QED BY <1>5, <1>7, <1>8 DEF TenancyInv

LEMMA CreateDeptStep ==
  ASSUME TenancyInv, NEW r \in Requests, CreateDept(r)
  PROVE  TenancyInv'
<1> DEFINE d == Op(r).dep
           row == [acc |-> Op(r).acc, status |-> "active", is_deleted |-> FALSE]
<1>1. /\ DocsTyped /\ RequestsReady /\ TenantIsolation
      /\ At(r, "write") /\ Op(r).kind = "deptCreate" /\ Ends(r)
      /\ user' = user /\ scim' = scim /\ group' = group
      /\ dept' = [dept EXCEPT ![d] = IF @ = None THEN row ELSE @]
  BY DEF TenancyInv, CreateDept, Writes
<1>2. d \in Depts /\ row \in DeptDocs
  BY <1>1, WriteReady, OpTyped DEF DeptDocs
<1> HIDE DEF d, row
<1>3. /\ dept'[d] = (IF dept[d] = None THEN row ELSE dept[d])
      /\ \A e \in Depts \ {d} : dept'[e] = dept[e]
      /\ dept' \in [Depts -> DeptDocs \cup {None}]
  BY <1>1, <1>2 DEF DocsTyped
<1>4. Kept(dept', user')
  BY <1>1, <1>3 DEF Kept
<1>5. TenantIsolation'
  BY <1>1, <1>4, IsolationKept
<1>6. DocsTyped'
  BY <1>1, <1>3 DEF DocsTyped
<1> QED BY <1>1, <1>4, <1>5, <1>6, Finish DEF TenancyInv

LEMMA ChangeDeptStep ==
  ASSUME TenancyInv, NEW r \in Requests, ChangeDept(r)
  PROVE  TenancyInv'
<1> DEFINE d == Op(r).dep
<1>1. /\ DocsTyped /\ RequestsReady /\ TenantIsolation
      /\ At(r, "write") /\ Op(r).kind \in {"deptUpdate", "deptRemove"} /\ Ends(r)
      /\ user' = user /\ scim' = scim /\ group' = group
  BY DEF TenancyInv, ChangeDept, Writes
<1>2. /\ d \in Depts
      /\ Op(r).kind = "deptUpdate" => Op(r).status \in {"active", "inactive"}
  BY <1>1, WriteReady, OpTyped
<1>3. CASE ~DeptInScope(d, Op(r).acc)
  BY <1>1, <1>3, NoRowWritten DEF ChangeDept
<1>4. CASE DeptInScope(d, Op(r).acc)
  <2>1. dept[d] # None /\ dept[d] \in DeptDocs
    BY <1>1, <1>2, <1>4 DEF DeptInScope, DocsTyped
  <2>2. PICK row \in DeptDocs : row.acc = dept[d].acc /\ dept' = [dept EXCEPT ![d] = row]
    <3>1. CASE Op(r).kind = "deptUpdate"
      <4> DEFINE row == [dept[d] EXCEPT !.status = Op(r).status]
      <4>1. dept' = [dept EXCEPT ![d] = row]
        BY <1>4, <3>1 DEF ChangeDept
      <4>2. row \in DeptDocs /\ row.acc = dept[d].acc
        BY <1>2, <2>1, <3>1 DEF DeptDocs
      <4> HIDE DEF row
      <4> QED BY <4>1, <4>2
    <3>2. CASE Op(r).kind # "deptUpdate"
      <4> DEFINE row == [dept[d] EXCEPT !.is_deleted = TRUE]
      <4>1. dept' = [dept EXCEPT ![d] = row]
        BY <1>4, <3>2 DEF ChangeDept
      <4>2. row \in DeptDocs /\ row.acc = dept[d].acc
        BY <2>1 DEF DeptDocs
      <4> HIDE DEF row
      <4> QED BY <4>1, <4>2
    <3> QED BY <3>1, <3>2
  <2> HIDE DEF d
  <2>3. /\ dept'[d] = row /\ \A e \in Depts \ {d} : dept'[e] = dept[e]
        /\ dept' \in [Depts -> DeptDocs \cup {None}]
    BY <1>1, <1>2, <2>2 DEF DocsTyped
  <2>4. row # None
    BY NoneAssumption
  <2>5. Kept(dept', user')
    BY <1>1, <2>2, <2>3, <2>4 DEF Kept
  <2>6. TenantIsolation'
    BY <1>1, <2>5, IsolationKept
  <2>7. DocsTyped'
    BY <1>1, <2>3 DEF DocsTyped
  <2> QED BY <1>1, <2>5, <2>6, <2>7, Finish DEF TenancyInv
<1> QED BY <1>3, <1>4

LEMMA WriteStep ==
  ASSUME TenancyInv, NEW r \in Requests, Write(r)
  PROVE  TenancyInv'
<1>1. CASE CreateUser(r)
  <2>1. At(r, "write") /\ Op(r).kind = "create" /\ InsertRow(r, Op(r).status)
    BY <1>1 DEF CreateUser, Writes
  <2>2. Op(r).status \in UserStatuses
    BY <2>1, WriteReady, OpTyped DEF TenancyInv
  <2> QED BY <2>1, <2>2, InsertStep
<1>2. CASE ScimCreateUser(r)
  <2>1. /\ At(r, "write") /\ Op(r).kind = "scimCreate"
        /\ InsertRow(r, IF Op(r).active THEN "active" ELSE "inactive")
    BY <1>2 DEF ScimCreateUser, Writes
  <2>2. (IF Op(r).active THEN "active" ELSE "inactive") \in UserStatuses
    BY DEF UserStatuses
  <2> QED BY <2>1, <2>2, InsertStep
<1>3. CASE \/ UpdateUser(r) \/ RenameUser(r) \/ RemoveUser(r) \/ ScimUpdateUser(r)
           \/ ScimDeactivateUser(r)
  BY <1>3, UpdateStep
<1>4. CASE \/ JitUpsert(r) \/ SaveJitMapping(r) \/ UpdateOrg(r) \/ CreateOrRemoveOrg(r)
           \/ RemoveAccount(r)
  <2>1. Ends(r) /\ UNCHANGED <<dept, user, scim, group>>
    BY <1>4 DEF JitUpsert, SaveJitMapping, UpdateOrg, CreateOrRemoveOrg, RemoveAccount, docs
  <2> QED BY <2>1, NoRowWritten
<1>5. CASE SaveScimConfig(r)
  BY <1>5, SaveConfigStep
<1>6. CASE SaveGroup(r)
  BY <1>6, SaveGroupStep
<1>7. CASE CreateDept(r)
  BY <1>7, CreateDeptStep
<1>8. CASE ChangeDept(r)
  BY <1>8, ChangeDeptStep
<1> QED BY <1>1, <1>2, <1>3, <1>4, <1>5, <1>6, <1>7, <1>8 DEF Write

-----------------------------------------------------------------------------
(* The theorem                                                             *)

LEMMA Initially == TenancyInit => TenancyInv
<1> SUFFICES ASSUME TenancyInit PROVE TenancyInv
  OBVIOUS
<1>1. dept \in [Depts -> DeptDocs \cup {None}]
  BY TenancyAssumption DEF TenancyInit, DeptDocs
<1>2. \A o \in Orgs : \A p \in DefaultPlaces(o) : p \in Places /\ PlaceIn(p, o)
  <2> SUFFICES ASSUME NEW o \in Orgs, NEW d \in DOMAIN DeptOf, OrgOf[DeptOf[d]] = o
               PROVE  LET p == [acc |-> DeptOf[d], dep |-> d]
                      IN p \in Places /\ PlaceIn(p, o)
    BY DEF DefaultPlaces
  <2>1. d \in Depts /\ DeptOf[d] \in Accounts
    BY TenancyAssumption
  <2>2. dept[d] = [acc |-> DeptOf[d], status |-> "active", is_deleted |-> FALSE]
    BY <2>1 DEF TenancyInit
  <2>3. dept[d] # None /\ dept[d].acc = DeptOf[d]
    <3>1. dept[d] \in DeptDocs /\ dept[d].acc = DeptOf[d]
      BY <2>1, <2>2 DEF DeptDocs
    <3> QED BY <3>1, NoneAssumption
  <2> QED BY <2>1, <2>3 DEF Places, PlaceIn
<1>3. user \in [Users -> UserDocs \cup {None}] /\ UsersPlaced
  <2>1. PICK o \in Orgs, place \in Places, u \in Users, e \in Emails :
          user \in {[x \in Users |-> None]}
                   \cup IF place \in DefaultPlaces(o)
                        THEN {[x \in Users |-> IF x = u THEN Row(o, place, e) ELSE None]}
                        ELSE {}
    BY DEF TenancyInit
  <2>2. CASE user = [x \in Users |-> None]
    BY <2>2 DEF UsersPlaced
  <2>3. CASE /\ place \in DefaultPlaces(o)
             /\ user = [x \in Users |-> IF x = u THEN Row(o, place, e) ELSE None]
    <3>1. /\ Row(o, place, e) \in UserDocs
          /\ Row(o, place, e).org = o /\ Row(o, place, e).place = place
      BY DEF Row, UserDocs, UserStatuses
    <3>2. PlaceIn(place, o)
      BY <1>2, <2>3
    <3> QED BY <2>3, <3>1, <3>2 DEF UsersPlaced
  <2> QED BY <2>1, <2>2, <2>3
<1>4. /\ scim = [o \in Orgs |-> scim[o]]
      /\ \A o \in Orgs : scim[o] # None => scim[o].place \in Places
      /\ ConfigsPlaced
  BY <1>2 DEF TenancyInit, ConfigsPlaced
<1>5. /\ group = [o \in Orgs |-> group[o]]
      /\ \A o \in Orgs : group[o] # None => group[o] \subseteq Users
      /\ MembersInOrg
  BY DEF TenancyInit, MembersInOrg
<1>6. RequestsReady
  BY DEF TenancyInit, RequestsReady
<1> QED BY <1>1, <1>3, <1>4, <1>5, <1>6 DEF TenancyInv, DocsTyped, TenantIsolation

LEMMA Preserved == TenancyInv /\ [TenancyNext]_tenancyVars => TenancyInv'
<1> SUFFICES ASSUME TenancyInv, [TenancyNext]_tenancyVars PROVE TenancyInv'
  OBVIOUS
<1>1. CASE TenancyNext
  BY <1>1, ReceiveStep, CheckStep, WriteStep DEF TenancyNext
<1>2. CASE UNCHANGED tenancyVars
  <2>1. UNCHANGED docs /\ req' = req
    BY <1>2 DEF tenancyVars
  <2>2. RequestsReady'
    BY <2>1 DEF TenancyInv, RequestsReady, docs
  <2> QED BY <2>1, <2>2, Unwritten
<1> QED BY <1>1, <1>2

(* Whatever requests of the REST API, of SCIM and of logins overlap, users, *)
(* provisioning defaults and group members stay in one organization: the    *)
(* checks of assertUserHierarchy, made awaits before the write, still hold  *)
(* of it when it comes, as nothing moves a department, an account or a user.*)
THEOREM TenantsStayApart == TenancySpec => []TenantIsolation
<1>1. TenancyInv => TenantIsolation
  BY DEF TenancyInv
<1> QED BY Initially, Preserved, <1>1, PTL DEF TenancySpec

-----------------------------------------------------------------------------
(* The limit of the plan: a user who has passed the count and is not       *)
(* written yet counts as one.                                              *)

CreateKinds == {"create", "scimCreate"}
Passed(o, reqs) == {r \in Requests : /\ reqs[r].todo = <<"write">>
                                     /\ reqs[r].op.kind \in CreateKinds
                                     /\ reqs[r].op.org = o}
OverrunInv == \A o \in Orgs : Cardinality(Counted(o)) + Cardinality(Passed(o, req))
                                <= MaxUsers + Cardinality(Requests) - 1

LEMMA Sizes ==
  ASSUME NEW o \in Orgs
  PROVE  /\ IsFiniteSet(Counted(o)) /\ Cardinality(Counted(o)) \in Nat
         /\ IsFiniteSet(Passed(o, req)) /\ Cardinality(Passed(o, req)) \in Nat
         /\ Cardinality(Passed(o, req)) <= Cardinality(Requests)
         /\ Cardinality(Requests) \in Nat \ {0}
         /\ MaxUsers \in Nat \ {0}
<1>1. Counted(o) \in SUBSET Users /\ Passed(o, req) \in SUBSET Requests
  BY DEF Counted, Passed
<1>2. IsFiniteSet(Users) /\ IsFiniteSet(Requests) /\ Requests # {} /\ MaxUsers \in Nat \ {0}
  BY TenancyAssumption
<1>3. IsFiniteSet(Counted(o)) /\ IsFiniteSet(Passed(o, req))
  BY <1>1, <1>2, FS_Subset
<1>4. Cardinality(Passed(o, req)) <= Cardinality(Requests)
  BY <1>1, <1>2, FS_Subset
<1>5. Cardinality(Requests) # 0
  BY <1>2, FS_EmptySet
<1> QED BY <1>2, <1>3, <1>4, <1>5, FS_CardinalityType

LEMMA SizesAfter ==
  ASSUME NEW o \in Orgs
  PROVE  /\ IsFiniteSet(Counted(o)') /\ Cardinality(Counted(o)') \in Nat
         /\ IsFiniteSet(Passed(o, req')) /\ Cardinality(Passed(o, req')) \in Nat
         /\ Cardinality(Passed(o, req')) <= Cardinality(Requests)
<1>1. Counted(o)' \in SUBSET Users /\ Passed(o, req') \in SUBSET Requests
  BY DEF Counted, Passed
<1>2. IsFiniteSet(Users) /\ IsFiniteSet(Requests)
  BY TenancyAssumption
<1>3. IsFiniteSet(Counted(o)') /\ IsFiniteSet(Passed(o, req'))
  BY <1>1, <1>2, FS_Subset
<1>4. Cardinality(Passed(o, req')) <= Cardinality(Requests)
  BY <1>1, <1>2, FS_Subset
<1> QED BY <1>3, <1>4, FS_CardinalityType

(* Neither the users nor the requests past the count become more.          *)
LEMMA OverrunKept ==
  ASSUME NEW o \in Orgs, Counted(o)' \subseteq Counted(o),
         Passed(o, req') \subseteq Passed(o, req),
         Cardinality(Counted(o)) + Cardinality(Passed(o, req))
           <= MaxUsers + Cardinality(Requests) - 1
  PROVE  Cardinality(Counted(o)') + Cardinality(Passed(o, req'))
           <= MaxUsers + Cardinality(Requests) - 1
<1>1. /\ Cardinality(Counted(o)') <= Cardinality(Counted(o))
      /\ Cardinality(Passed(o, req')) <= Cardinality(Passed(o, req))
  BY Sizes, FS_Subset
<1> QED BY <1>1, Sizes, SizesAfter

LEMMA NotPassed ==
  ASSUME RequestsReady, NEW r \in Requests, NEW x, req' = [req EXCEPT ![r] = x],
         x.todo # <<"write">> \/ x.op.kind \notin CreateKinds, NEW o
  PROVE  Passed(o, req') \subseteq Passed(o, req) \ {r}
<1>1. req'[r] = x /\ \A s \in Requests \ {r} : req'[s] = req[s]
  BY DEF RequestsReady
<1> QED BY <1>1 DEF Passed

LEMMA EndsUnpassed ==
  ASSUME RequestsReady, NEW r \in Requests, Ends(r), NEW o
  PROVE  Passed(o, req') \subseteq Passed(o, req) \ {r}
<1>1. NoRequest.todo = <<>>
  BY DEF NoRequest
<1>2. <<>> # <<"write">>
  OBVIOUS
<1> QED BY <1>1, <1>2, NotPassed DEF Ends

(* Only the count leads a request to the write of a user.                  *)
LEMMA GoesUnpassed ==
  ASSUME RequestsReady, NEW r \in Requests, NEW stage, At(r, stage), stage # "count",
         NEW place, NEW saw, Goes(r, place, saw), NEW o
  PROVE  Passed(o, req') \subseteq Passed(o, req)
<1> DEFINE x == Next1(r, place, saw)
<1>1. /\ Ready(req[r], dept, user) /\ Op(r) = req[r].op /\ First(req[r].todo) = stage
      /\ x.op = Op(r) /\ x.todo = Rest(req[r].todo)
  BY Busy, NextFields DEF Op
<1>2. req' = [req EXCEPT ![r] = x]
  BY DEF Goes, Next1
<1> HIDE DEF x
<1>3. CASE stage = "write" /\ Op(r).kind \in CreateKinds
  <2>1. req[r].todo = <<"write">>
    BY <1>1, <1>3, Stages DEF Ready, CreateReady, ProvisionReady, CreateKinds
  <2>2. Rest(<<"write">>) # <<"write">>
    BY DEF Rest
  <2> QED BY <1>1, <1>2, <2>1, <2>2, NotPassed
<1>4. CASE stage # "write" /\ Op(r).kind \in CreateKinds
  <2>1. req[r].todo \in {<<"account", "dept", "count", "write">>, <<"dept", "count", "write">>,
                         <<"config", "exists", "count", "write">>, <<"exists", "count", "write">>}
    BY <1>1, <1>4, Stages DEF Ready, CreateReady, ProvisionReady, CreateKinds
  <2>2. /\ <<"dept", "count", "write">> # <<"write">> /\ <<"count", "write">> # <<"write">>
        /\ <<"exists", "count", "write">> # <<"write">>
    OBVIOUS
  <2>3. Rest(req[r].todo) # <<"write">>
    BY <2>1, <2>2, Rests
  <2> QED BY <1>1, <1>2, <2>3, NotPassed
<1>5. CASE Op(r).kind \notin CreateKinds
  BY <1>1, <1>2, <1>5, NotPassed
<1> QED BY <1>3, <1>4, <1>5

LEMMA SkipsUnpassed ==
  ASSUME RequestsReady, NEW r \in Requests, NEW n, NEW place, NEW saw,
         Skips(r, n, place, saw), Op(r).kind \notin CreateKinds, NEW o
  PROVE  Passed(o, req') \subseteq Passed(o, req)
<1> DEFINE x == [op |-> Op(r), place |-> place, saw |-> saw,
                 todo |-> SubSeq(req[r].todo, n + 1, Len(req[r].todo))]
<1>1. req' = [req EXCEPT ![r] = x] /\ x.op = Op(r)
  BY DEF Skips
<1> HIDE DEF x
<1> QED BY <1>1, NotPassed

(* A check goes on, goes on further, or ends.                              *)
LEMMA CheckShape ==
  ASSUME NEW r \in Requests, Check(r)
  PROVE  \E stage, place, saw :
           /\ At(r, stage) /\ stage # "write"
           /\ stage = "count" => CountUsers(r)
           /\ stage = "read" => ReadRow(r)
           /\ \/ Ends(r) \/ Goes(r, place, saw)
              \/ \E n : Skips(r, n, place, saw) /\ Op(r).kind \notin Tracked
<1>1. CASE CheckAccount(r)
  BY <1>1 DEF CheckAccount
<1>2. CASE CheckDept(r)
  BY <1>2 DEF CheckDept
<1>3. CASE RequireScim(r)
  BY <1>3 DEF RequireScim
<1>4. CASE FindByEmail(r)
  <2>1. At(r, "exists")
    BY <1>4 DEF FindByEmail
  <2>2. CASE Op(r).kind = "ssoLogin"
    <3>1. Skips(r, 2, req[r].place, req[r].saw) \/ Goes(r, req[r].place, req[r].saw)
      BY <1>4, <2>2 DEF FindByEmail
    <3>2. Op(r).kind \notin Tracked
      BY <2>2 DEF Tracked, PlaceKinds, PatchKinds, GroupKinds
    <3> QED BY <2>1, <3>1, <3>2
  <2>3. CASE Op(r).kind # "ssoLogin"
    <3>1. Ends(r) \/ Goes(r, req[r].place, req[r].saw)
      BY <1>4, <2>3 DEF FindByEmail
    <3> QED BY <2>1, <3>1
  <2> QED BY <2>2, <2>3
<1>5. CASE ReadRow(r)
  <2>1. At(r, "read")
    BY <1>5 DEF ReadRow
  <2>2. CASE Op(r).kind = "jitConfig"
    <3>1. PICK place, saw : Skips(r, 3, place, saw) \/ Ends(r) \/ Goes(r, place, saw)
      BY <1>5, <2>2 DEF ReadRow
    <3>2. Op(r).kind \notin Tracked
      BY <2>2 DEF Tracked, PlaceKinds, PatchKinds, GroupKinds
    <3> QED BY <1>5, <2>1, <3>1, <3>2
  <2>3. CASE Op(r).kind # "jitConfig"
    <3>1. PICK place, saw : Ends(r) \/ Goes(r, place, saw)
      BY <1>5, <2>3 DEF ReadRow
    <3> QED BY <1>5, <2>1, <3>1
  <2> QED BY <2>2, <2>3
<1>6. CASE ResolveMembers(r)
  BY <1>6 DEF ResolveMembers
<1>7. CASE ReadMapping(r)
  BY <1>7 DEF ReadMapping
<1>8. CASE ResolveDept(r)
  BY <1>8 DEF ResolveDept
<1>9. CASE CountUsers(r)
  BY <1>9 DEF CountUsers
<1> QED BY <1>1, <1>2, <1>3, <1>4, <1>5, <1>6, <1>7, <1>8, <1>9 DEF Check

LEMMA CheckOverrun ==
  ASSUME TenancyInv, OverrunInv, NEW r \in Requests, Check(r)
  PROVE  OverrunInv'
<1>1. RequestsReady /\ UNCHANGED user
  BY DEF TenancyInv, Check, CheckAccount, CheckDept, CountUsers, RequireScim, FindByEmail,
         ReadRow, ResolveMembers, ReadMapping, ResolveDept, docs
<1>2. \A o : Counted(o)' = Counted(o)
  BY <1>1 DEF Counted, LiveUser
<1>3. CASE CountUsers(r)
  <2>1. CASE MayAddUser(Op(r).org)
    <3>1. Goes(r, req[r].place, req[r].saw) /\ At(r, "count")
      BY <1>3, <2>1 DEF CountUsers
    <3>2. \A o \in Orgs \ {Op(r).org} : Passed(o, req') \subseteq Passed(o, req)
      <4> DEFINE x == Next1(r, req[r].place, req[r].saw)
      <4>1. req' = [req EXCEPT ![r] = x] /\ x.op = Op(r)
        BY <3>1, NextFields DEF Goes, Next1
      <4> HIDE DEF x
      <4>2. req'[r].op = Op(r) /\ \A s \in Requests \ {r} : req'[s] = req[s]
        BY <1>1, <4>1 DEF RequestsReady
      <4> QED BY <4>2 DEF Passed
    <3>3. \A o \in Orgs \ {Op(r).org} :
            Cardinality(Counted(o)') + Cardinality(Passed(o, req'))
              <= MaxUsers + Cardinality(Requests) - 1
      BY <1>2, <3>2, OverrunKept DEF OverrunInv
    <3>4. ASSUME NEW o \in Orgs, o = Op(r).org
          PROVE  Cardinality(Counted(o)') + Cardinality(Passed(o, req'))
                   <= MaxUsers + Cardinality(Requests) - 1
      <4>1. Cardinality(Counted(o)) < MaxUsers
        BY <2>1, <3>4 DEF MayAddUser
      <4> QED BY <1>2, <4>1, Sizes, SizesAfter
    <3> QED BY <3>3, <3>4 DEF OverrunInv
  <2>2. CASE ~MayAddUser(Op(r).org)
    <3>1. Ends(r)
      BY <1>3, <2>2 DEF CountUsers
    <3> QED BY <1>1, <1>2, <3>1, EndsUnpassed, OverrunKept DEF OverrunInv
  <2> QED BY <2>1, <2>2
<1>4. CASE ~CountUsers(r)
  <2>1. \A o \in Orgs : Ends(r) => Passed(o, req') \subseteq Passed(o, req)
    BY <1>1, EndsUnpassed
  <2>2. PICK stage, place, saw :
          /\ At(r, stage) /\ stage # "count"
          /\ \/ Ends(r) \/ Goes(r, place, saw)
             \/ \E n : Skips(r, n, place, saw) /\ Op(r).kind \notin CreateKinds
    BY <1>4, CheckShape DEF Tracked, PlaceKinds, CreateKinds
  <2>3. \A o \in Orgs : Passed(o, req') \subseteq Passed(o, req)
    BY <1>1, <2>1, <2>2, GoesUnpassed, SkipsUnpassed
  <2> QED BY <1>2, <2>3, OverrunKept DEF OverrunInv
<1> QED BY <1>3, <1>4

LEMMA ReceiveOverrun ==
  ASSUME TenancyInv, OverrunInv, NEW r \in Requests, Receive(r)
  PROVE  OverrunInv'
<1> PICK op \in Ops :
      req' = [req EXCEPT ![r] = [NoRequest EXCEPT !.op = op, !.todo = Route(op.kind)]]
  BY DEF Receive
<1> DEFINE x == [NoRequest EXCEPT !.op = op, !.todo = Route(op.kind)]
<1>1. req' = [req EXCEPT ![r] = x] /\ UNCHANGED user /\ RequestsReady
  BY DEF Receive, docs, TenancyInv
<1>2. x.op = op /\ x.todo = Route(op.kind)
  BY DEF NoRequest
<1> HIDE DEF x
<1>3. op.kind \in CreateKinds => x.todo # <<"write">>
  <2>1. /\ <<"account", "dept", "count", "write">> # <<"write">>
        /\ <<"config", "exists", "count", "write">> # <<"write">>
    OBVIOUS
  <2> QED BY <1>2, <2>1, Routes DEF CreateKinds
<1>4. \A o \in Orgs : Passed(o, req') \subseteq Passed(o, req)
  BY <1>1, <1>2, <1>3, NotPassed
<1>5. \A o : Counted(o)' = Counted(o)
  BY <1>1 DEF Counted, LiveUser
<1> QED BY <1>4, <1>5, OverrunKept DEF OverrunInv

(* The row takes the place of the request in the count.                    *)
LEMMA InsertOverrun ==
  ASSUME TenancyInv, OverrunInv, NEW r \in Requests, NEW status \in UserStatuses,
         At(r, "write"), Op(r).kind \in CreateKinds, InsertRow(r, status)
  PROVE  OverrunInv'
<1>1. DocsTyped /\ RequestsReady /\ Ends(r)
  BY DEF TenancyInv, InsertRow
<1>2. \A o \in Orgs : Passed(o, req') \subseteq Passed(o, req) \ {r}
  BY <1>1, EndsUnpassed
<1>3. CASE HasEmail(Op(r).org, Op(r).email)
  <2>1. \A o : Counted(o)' = Counted(o)
    BY <1>3 DEF InsertRow, Counted, LiveUser
  <2> QED BY <1>2, <2>1, OverrunKept DEF OverrunInv
<1>4. CASE ~HasEmail(Op(r).org, Op(r).email)
  <2> DEFINE row == [org |-> Op(r).org, place |-> req[r].place, email |-> Op(r).email,
                     status |-> status, is_deleted |-> FALSE]
  <2>1. PICK u \in Users : user[u] = None /\ user' = [user EXCEPT ![u] = row]
    BY <1>4 DEF InsertRow
  <2>2. row.org = Op(r).org /\ ~row.is_deleted
    OBVIOUS
  <2> HIDE DEF row
  <2>3. user'[u] = row /\ \A v \in Users \ {u} : user'[v] = user[v]
    BY <1>1, <2>1 DEF DocsTyped
  <2>4. ASSUME NEW o \in Orgs
        PROVE  Cardinality(Counted(o)') + Cardinality(Passed(o, req'))
                 <= MaxUsers + Cardinality(Requests) - 1
    <3>1. CASE o # Op(r).org
      <4>1. Counted(o)' \subseteq Counted(o)
        BY <2>2, <2>3, <3>1 DEF Counted, LiveUser
      <4> QED BY <1>2, <4>1, OverrunKept DEF OverrunInv
    <3>2. CASE o = Op(r).org
      <4>1. Counted(o)' \subseteq Counted(o) \cup {u}
        BY <2>3 DEF Counted, LiveUser
      <4>2. Cardinality(Counted(o)') <= Cardinality(Counted(o)) + 1
        <5>1. /\ IsFiniteSet(Counted(o) \cup {u})
              /\ Cardinality(Counted(o) \cup {u}) <= Cardinality(Counted(o)) + 1
          <6> DEFINE counted == Counted(o)
          <6>1. IsFiniteSet(counted) /\ Cardinality(counted) \in Nat
            BY Sizes
          <6> HIDE DEF counted
          <6>2. /\ IsFiniteSet(counted \cup {u})
                /\ Cardinality(counted \cup {u}) \in {Cardinality(counted), Cardinality(counted) + 1}
            BY <6>1, FS_AddElement
          <6> QED BY <6>1, <6>2 DEF counted
        <5>2. Cardinality(Counted(o)') <= Cardinality(Counted(o) \cup {u})
          BY <4>1, <5>1, FS_Subset
        <5>3. Cardinality(Counted(o) \cup {u}) \in Nat
          BY <5>1, FS_CardinalityType
        <5> QED BY <5>1, <5>2, <5>3, Sizes, SizesAfter
      <4>3. r \in Passed(o, req)
        <5>1. Ready(req[r], dept, user) /\ Op(r) = req[r].op /\ First(req[r].todo) = "write"
          BY <1>1, Busy DEF Op
        <5>2. req[r].todo = <<"write">>
          BY <5>1, Stages DEF Ready, CreateReady, ProvisionReady, CreateKinds
        <5> QED BY <3>2, <5>1, <5>2 DEF Passed
      <4>4. Cardinality(Passed(o, req')) <= Cardinality(Passed(o, req)) - 1
        <5>1. /\ IsFiniteSet(Passed(o, req) \ {r})
              /\ Cardinality(Passed(o, req) \ {r}) = Cardinality(Passed(o, req)) - 1
          BY <4>3, Sizes, FS_RemoveElement
        <5>2. Cardinality(Passed(o, req')) <= Cardinality(Passed(o, req) \ {r})
          BY <1>2, <5>1, FS_Subset
        <5> QED BY <5>1, <5>2
      <4>5. Cardinality(Counted(o)) + Cardinality(Passed(o, req))
              <= MaxUsers + Cardinality(Requests) - 1
        BY DEF OverrunInv
      <4> QED BY <4>2, <4>4, <4>5, Sizes, SizesAfter
    <3> QED BY <3>1, <3>2
  <2> QED BY <2>4 DEF OverrunInv
<1> QED BY <1>3, <1>4

LEMMA WriteOverrun ==
  ASSUME TenancyInv, OverrunInv, NEW r \in Requests, Write(r)
  PROVE  OverrunInv'
<1>1. RequestsReady /\ DocsTyped
  BY DEF TenancyInv
<1>2. ASSUME Ends(r), \A o \in Orgs : Counted(o)' \subseteq Counted(o)
      PROVE  OverrunInv'
  BY <1>1, <1>2, EndsUnpassed, OverrunKept DEF OverrunInv
<1>3. CASE CreateUser(r)
  <2>1. /\ At(r, "write") /\ Op(r).kind = "create" /\ InsertRow(r, Op(r).status)
    BY <1>3 DEF CreateUser, Writes
  <2>2. Op(r).status \in UserStatuses /\ Op(r).kind \in CreateKinds
    BY <1>1, <2>1, WriteReady, OpTyped DEF CreateKinds
  <2> QED BY <2>1, <2>2, InsertOverrun
<1>4. CASE ScimCreateUser(r)
  <2>1. /\ At(r, "write") /\ Op(r).kind \in CreateKinds
        /\ InsertRow(r, IF Op(r).active THEN "active" ELSE "inactive")
    BY <1>4 DEF ScimCreateUser, Writes, CreateKinds
  <2>2. (IF Op(r).active THEN "active" ELSE "inactive") \in UserStatuses
    BY DEF UserStatuses
  <2> QED BY <2>1, <2>2, InsertOverrun
<1>5. CASE UNCHANGED user /\ Ends(r)
  BY <1>2, <1>5 DEF Counted, LiveUser
<1>6. CASE \/ UpdateUser(r) \/ RenameUser(r) \/ RemoveUser(r) \/ ScimUpdateUser(r)
           \/ ScimDeactivateUser(r)
  <2>1. Ends(r)
    BY <1>6 DEF UpdateUser, RenameUser, RemoveUser, ScimUpdateUser, ScimDeactivateUser
  <2>2. CASE user' # user
    <3>1. PICK u \in Users, row \in UserDocs :
            LiveUser(u) /\ row.org = user[u].org /\ user' = [user EXCEPT ![u] = row]
      <4>1. ~UNCHANGED <<user, off>>
        BY <2>2
      <4> QED BY <1>6, <4>1, RowRewritten
    <3>2. user'[u] = row /\ \A v \in Users \ {u} : user'[v] = user[v]
      BY <1>1, <3>1 DEF DocsTyped
    <3>3. \A o \in Orgs : Counted(o)' \subseteq Counted(o)
      BY <3>1, <3>2 DEF Counted, LiveUser
    <3> QED BY <1>2, <2>1, <3>3
  <2> QED BY <1>5, <2>1, <2>2
<1>7. CASE \/ JitUpsert(r) \/ SaveJitMapping(r) \/ UpdateOrg(r) \/ CreateOrRemoveOrg(r)
           \/ RemoveAccount(r) \/ SaveScimConfig(r) \/ SaveGroup(r) \/ CreateDept(r)
           \/ ChangeDept(r)
  <2>1. Ends(r) /\ UNCHANGED user
    BY <1>7 DEF JitUpsert, SaveJitMapping, UpdateOrg, CreateOrRemoveOrg, RemoveAccount, docs,
                SaveScimConfig, SaveGroup, CreateDept, ChangeDept
  <2> QED BY <1>5, <2>1
<1> QED BY <1>3, <1>4, <1>6, <1>7 DEF Write

-----------------------------------------------------------------------------
(* Users that are switched off                                             *)

(* The patch x of another field of u read u while it was active, and will  *)
(* write that back.                                                        *)
Carries(x, u) == /\ x.todo = <<"write">> /\ x.op.kind = "scimPatch" /\ x.op.user = u
                 /\ x.op.active = "absent" /\ x.saw.status = "active"

HeldInv ==
  /\ off = [u \in Users |-> off[u]]
  /\ DeactivationHolds
  /\ \A u \in Users : user[u] = None => off[u] = "no"
  /\ \A r \in Requests, u \in Users : Carries(req[r], u) => off[u] # "held" \/ ~LiveUser(u)

ProvisioningInv == TenancyInv /\ OverrunInv /\ HeldInv

(* A step that leaves the users alone and starts no such patch.            *)
LEMMA HeldKept ==
  ASSUME RequestsReady, HeldInv, NEW r \in Requests, NEW x, req' = [req EXCEPT ![r] = x],
         UNCHANGED <<user, off>>,
         \A u \in Users : Carries(x, u) => off[u] # "held" \/ ~LiveUser(u)
  PROVE  HeldInv'
<1>1. req'[r] = x /\ \A s \in Requests \ {r} : req'[s] = req[s]
  BY DEF RequestsReady
<1>2. \A s \in Requests, u \in Users : Carries(req'[s], u) => off[u] # "held" \/ ~LiveUser(u)
  BY <1>1 DEF HeldInv
<1> QED BY <1>2 DEF HeldInv, DeactivationHolds, LiveUser

LEMMA EndsHeld ==
  ASSUME RequestsReady, HeldInv, NEW r \in Requests, Ends(r), UNCHANGED <<user, off>>
  PROVE  HeldInv'
<1>1. NoRequest.todo # <<"write">>
  BY DEF NoRequest
<1> QED BY <1>1, HeldKept DEF Ends, Carries

LEMMA CheckHeld ==
  ASSUME TenancyInv, HeldInv, NEW r \in Requests, Check(r)
  PROVE  HeldInv'
<1>1. RequestsReady /\ DocsTyped /\ UNCHANGED <<user, off>>
  BY DEF TenancyInv, Check, CheckAccount, CheckDept, CountUsers, RequireScim, FindByEmail,
         ReadRow, ResolveMembers, ReadMapping, ResolveDept, docs
<1>2. PICK stage, place, saw :
        /\ At(r, stage) /\ stage # "write"
        /\ stage = "read" => ReadRow(r)
        /\ \/ Ends(r) \/ Goes(r, place, saw)
           \/ \E n : Skips(r, n, place, saw) /\ Op(r).kind \notin Tracked
  BY CheckShape
<1>3. CASE Ends(r)
  BY <1>1, <1>3, EndsHeld
<1>4. CASE Goes(r, place, saw) /\ ~(stage = "read" /\ Op(r).kind = "scimPatch")
  <2> DEFINE x == Next1(r, place, saw)
  <2>1. /\ Ready(req[r], dept, user) /\ Op(r) = req[r].op /\ First(req[r].todo) = stage
        /\ x.op = Op(r) /\ x.todo = Rest(req[r].todo)
    BY <1>1, <1>2, Busy, NextFields DEF Op
  <2>2. req' = [req EXCEPT ![r] = x]
    BY <1>4 DEF Goes, Next1
  <2> HIDE DEF x
  <2>3. Op(r).kind = "scimPatch" => req[r].todo = <<"config", "read", "write">>
    BY <1>2, <1>4, <2>1, Stages DEF Ready, PatchReady, PatchKinds
  <2>4. <<"read", "write">> # <<"write">>
    OBVIOUS
  <2>5. \A u \in Users : ~Carries(x, u)
    BY <2>1, <2>3, <2>4, Rests DEF Carries
  <2> QED BY <1>1, <2>2, <2>5, HeldKept
<1>5. CASE stage = "read" /\ Op(r).kind = "scimPatch"
  <2> DEFINE v == Op(r).user
             seen == [status |-> user[v].status, email |-> user[v].email]
             x == Next1(r, None, seen)
  <2>1. Ends(r) \/ (v \in Counted(Op(r).org) /\ Goes(r, None, seen))
    BY <1>2, <1>5 DEF ReadRow
  <2>2. x.op = Op(r) /\ x.saw = seen /\ seen.status = user[v].status
    BY NextFields
  <2>3. Goes(r, None, seen) => req' = [req EXCEPT ![r] = x]
    BY DEF Goes, Next1
  <2> HIDE DEF x, seen
  <2>4. v \in Counted(Op(r).org) =>
          \A u \in Users : Carries(x, u) => off[u] # "held" \/ ~LiveUser(u)
    BY <2>2 DEF Carries, HeldInv, DeactivationHolds
  <2> QED BY <1>1, <1>3, <2>1, <2>3, <2>4, HeldKept
<1>6. ASSUME NEW n, Skips(r, n, place, saw), Op(r).kind \notin Tracked
      PROVE  HeldInv'
  <2> DEFINE x == [op |-> Op(r), place |-> place, saw |-> saw,
                   todo |-> SubSeq(req[r].todo, n + 1, Len(req[r].todo))]
  <2>1. req' = [req EXCEPT ![r] = x] /\ x.op = Op(r)
    BY <1>6 DEF Skips
  <2> HIDE DEF x
  <2>2. \A u \in Users : ~Carries(x, u)
    BY <1>6, <2>1 DEF Carries, Tracked, PatchKinds
  <2> QED BY <1>1, <2>1, <2>2, HeldKept
<1> QED BY <1>2, <1>3, <1>4, <1>5, <1>6

LEMMA ReceiveHeld ==
  ASSUME TenancyInv, HeldInv, NEW r \in Requests, Receive(r)
  PROVE  HeldInv'
<1> PICK op \in Ops :
      req' = [req EXCEPT ![r] = [NoRequest EXCEPT !.op = op, !.todo = Route(op.kind)]]
  BY DEF Receive
<1> DEFINE x == [NoRequest EXCEPT !.op = op, !.todo = Route(op.kind)]
<1>1. req' = [req EXCEPT ![r] = x] /\ UNCHANGED <<user, off>> /\ RequestsReady
  BY DEF Receive, docs, TenancyInv
<1>2. x.op = op /\ x.todo = Route(op.kind)
  BY DEF NoRequest
<1> HIDE DEF x
<1>3. <<"config", "read", "write">> # <<"write">>
  OBVIOUS
<1>4. \A u \in Users : ~Carries(x, u)
  BY <1>2, <1>3, Routes DEF Carries, PatchKinds
<1> QED BY <1>1, <1>4, HeldKept

(* A live row is written, and the history with it.                         *)
LEMMA RowHeld ==
  ASSUME TenancyInv, HeldInv, NEW r \in Requests, Ends(r),
         NEW u \in Users, LiveUser(u), NEW row \in UserDocs, NEW mark,
         user' = [user EXCEPT ![u] = row], off' = [off EXCEPT ![u] = mark],
         mark = "held" => row.status # "active",
         mark = "held" => row.is_deleted \/ \A s \in Requests \ {r} : ~Carries(req[s], u)
  PROVE  HeldInv'
<1>1. DocsTyped /\ RequestsReady
  BY DEF TenancyInv
<1>2. /\ user'[u] = row /\ \A v \in Users \ {u} : user'[v] = user[v]
      /\ off'[u] = mark /\ \A v \in Users \ {u} : off'[v] = off[v]
      /\ off' = [v \in Users |-> off'[v]]
  BY <1>1 DEF DocsTyped, HeldInv
<1>3. req'[r] = NoRequest /\ \A s \in Requests \ {r} : req'[s] = req[s]
  BY <1>1 DEF RequestsReady, Ends
<1>4. row # None /\ user[u] # None
  BY NoneAssumption DEF LiveUser
<1>5. DeactivationHolds'
  BY <1>2 DEF HeldInv, DeactivationHolds
<1>6. \A v \in Users : user'[v] = None => off'[v] = "no"
  BY <1>2, <1>4 DEF HeldInv
<1>7. \A v \in Users : ~Carries(NoRequest, v)
  BY DEF Carries, NoRequest
<1>8. ASSUME NEW s \in Requests, NEW v \in Users, Carries(req'[s], v)
      PROVE  off'[v] # "held" \/ ~LiveUser(v)'
  <2>1. s # r /\ Carries(req[s], v)
    BY <1>3, <1>7, <1>8
  <2> QED BY <1>2, <2>1 DEF HeldInv, LiveUser
<1> QED BY <1>2, <1>5, <1>6, <1>8 DEF HeldInv

(* Who reads the user before the write and patches it after is known.      *)
LEMMA CrossingCarries ==
  ASSUME RequestsReady, NEW r \in Requests, NEW u, ~Crossing(r, u)
  PROVE  \A s \in Requests \ {r} : ~Carries(req[s], u)
<1> SUFFICES ASSUME NEW s \in Requests \ {r}, Carries(req[s], u) PROVE FALSE
  OBVIOUS
<1>1. At(s, "write")
  BY DEF Carries, At
<1>2. Op(s) \in Ops /\ Op(s) # None
  BY <1>1, Busy, NoneAssumption
<1> QED BY <1>1, <1>2 DEF Crossing, Carries, Op

LEMMA InsertHeld ==
  ASSUME TenancyInv, HeldInv, NEW r \in Requests, NEW status \in UserStatuses,
         At(r, "write"), Op(r).kind \in CreateKinds, InsertRow(r, status)
  PROVE  HeldInv'
<1>1. DocsTyped /\ RequestsReady /\ Ends(r) /\ off' = off
  BY DEF TenancyInv, InsertRow
<1>2. CASE HasEmail(Op(r).org, Op(r).email)
  BY <1>1, <1>2, EndsHeld DEF InsertRow
<1>3. CASE ~HasEmail(Op(r).org, Op(r).email)
  <2> DEFINE row == [org |-> Op(r).org, place |-> req[r].place, email |-> Op(r).email,
                     status |-> status, is_deleted |-> FALSE]
  <2>1. PICK u \in Users : user[u] = None /\ user' = [user EXCEPT ![u] = row]
    BY <1>3 DEF InsertRow
  <2> HIDE DEF row
  <2>2. user'[u] = row /\ \A v \in Users \ {u} : user'[v] = user[v]
    BY <1>1, <2>1 DEF DocsTyped
  <2>3. off[u] = "no"
    BY <2>1 DEF HeldInv
  <2>4. req'[r] = NoRequest /\ \A s \in Requests \ {r} : req'[s] = req[s]
    BY <1>1 DEF RequestsReady, Ends
  <2>5. \A v \in Users : ~Carries(NoRequest, v)
    BY DEF Carries, NoRequest
  <2>6. DeactivationHolds' /\ \A v \in Users : user'[v] = None => off'[v] = "no"
    BY <1>1, <2>2, <2>3 DEF HeldInv, DeactivationHolds
  <2>7. ASSUME NEW s \in Requests, NEW v \in Users, Carries(req'[s], v)
        PROVE  off'[v] # "held" \/ ~LiveUser(v)'
    <3>1. s # r /\ Carries(req[s], v)
      BY <2>4, <2>5, <2>7
    <3> QED BY <1>1, <2>2, <2>3, <3>1 DEF HeldInv, LiveUser
  <2> QED BY <1>1, <2>6, <2>7 DEF HeldInv
<1> QED BY <1>2, <1>3

LEMMA UpdateHeld ==
  ASSUME TenancyInv, HeldInv, NEW r \in Requests, ~UNCHANGED <<user, off>>,
         UpdateUser(r) \/ RenameUser(r) \/ RemoveUser(r)
  PROVE  HeldInv'
<1> DEFINE u == Op(r).user
<1>1. /\ DocsTyped /\ RequestsReady /\ At(r, "write") /\ Ends(r)
      /\ off = [v \in Users |-> off[v]]
  BY DEF TenancyInv, UpdateUser, RenameUser, RemoveUser, Writes, HeldInv
<1>2. u \in Users /\ LiveUser(u) /\ user[u] \in UserDocs
  <2>1. u \in Users /\ LiveUser(u)
    BY RowRewritten
  <2> QED BY <1>1, <2>1 DEF DocsTyped, LiveUser
<1>3. off[u] = "held" => /\ user[u].status # "active"
                         /\ \A s \in Requests : ~Carries(req[s], u)
  BY <1>2 DEF HeldInv, DeactivationHolds
<1>4. CASE UpdateUser(r)
  <2> DEFINE status == Op(r).status
             row == [user[u] EXCEPT !.status = status]
             mark == IF status = "active" THEN "no"
                     ELSE IF Crossing(r, u) THEN "crossed" ELSE "held"
  <2>1. /\ Op(r).kind = "update" /\ user' = [user EXCEPT ![u].status = status]
        /\ off' = [off EXCEPT ![u] = mark]
    BY <1>4 DEF UpdateUser, Writes, Records
  <2>2. status \in UserStatuses
    BY <1>1, <2>1, WriteReady, OpTyped
  <2>3. user' = [user EXCEPT ![u] = row]
    BY <1>1, <1>2, <2>1 DEF DocsTyped
  <2>4. row \in UserDocs /\ row.status = status
    BY <1>2, <2>2 DEF UserDocs
  <2>5. mark = "held" => status # "active" /\ ~Crossing(r, u)
    OBVIOUS
  <2> HIDE DEF row, mark, u
  <2> QED BY <1>1, <1>2, <2>1, <2>3, <2>4, <2>5, RowHeld, CrossingCarries
<1>5. CASE RenameUser(r)
  <2> DEFINE row == [user[u] EXCEPT !.email = Op(r).email]
  <2>1. /\ Op(r).kind = "rename" /\ user' = [user EXCEPT ![u].email = Op(r).email]
        /\ off' = off
    BY <1>5 DEF RenameUser, Writes
  <2>2. Op(r).email \in Emails
    BY <1>1, <2>1, WriteReady, OpTyped
  <2>3. user' = [user EXCEPT ![u] = row] /\ off' = [off EXCEPT ![u] = off[u]]
    BY <1>1, <1>2, <2>1 DEF DocsTyped
  <2>4. row \in UserDocs /\ row.status = user[u].status
    BY <1>2, <2>2 DEF UserDocs
  <2> HIDE DEF row, u
  <2> QED BY <1>1, <1>2, <1>3, <2>3, <2>4, RowHeld
<1>6. CASE RemoveUser(r)
  <2> DEFINE row == [user[u] EXCEPT !.is_deleted = TRUE]
  <2>1. user' = [user EXCEPT ![u].is_deleted = TRUE] /\ off' = off
    BY <1>6 DEF RemoveUser
  <2>2. user' = [user EXCEPT ![u] = row] /\ off' = [off EXCEPT ![u] = off[u]]
    BY <1>1, <1>2, <2>1 DEF DocsTyped
  <2>3. row \in UserDocs /\ row.status = user[u].status
    BY <1>2 DEF UserDocs
  <2> HIDE DEF row, u
  <2> QED BY <1>1, <1>2, <1>3, <2>2, <2>3, RowHeld
<1> QED BY <1>4, <1>5, <1>6

LEMMA ScimUpdateHeld ==
  ASSUME TenancyInv, HeldInv, NEW r \in Requests, ~UNCHANGED <<user, off>>, ScimUpdateUser(r)
  PROVE  HeldInv'
<1> DEFINE u == Op(r).user
           status == IF Activated(Op(r), req[r].saw) THEN "active" ELSE "inactive"
           mark == IF Silent(Op(r)) THEN off[u]
                   ELSE IF status = "active" THEN "no"
                   ELSE IF Crossing(r, u) THEN "crossed" ELSE "held"
<1>1. /\ DocsTyped /\ RequestsReady /\ At(r, "write") /\ Ends(r)
      /\ off = [v \in Users |-> off[v]] /\ Op(r).kind \in PatchKinds
  BY DEF TenancyInv, ScimUpdateUser, Writes, HeldInv, PatchKinds
<1>2. u \in Users /\ LiveUser(u) /\ user[u] \in UserDocs
  <2>1. u \in Users /\ LiveUser(u)
    BY RowRewritten
  <2> QED BY <1>1, <2>1 DEF DocsTyped, LiveUser
<1>3. off' = [off EXCEPT ![u] = mark]
  <2>1. CASE Silent(Op(r))
    <3>1. off' = off
      BY <2>1 DEF ScimUpdateUser
    <3> QED BY <1>1, <1>2, <2>1, <3>1
  <2>2. CASE ~Silent(Op(r))
    BY <2>2 DEF ScimUpdateUser, Records
  <2> QED BY <2>1, <2>2
<1>4. PICK row \in UserDocs : row.status = status /\ user' = [user EXCEPT ![u] = row]
  <2>1. PICK email :
          /\ email = IF Op(r).kind = "scimPut" THEN Op(r).email ELSE req[r].saw.email
          /\ user' = [user EXCEPT ![u].status = status, ![u].email = email]
    BY DEF ScimUpdateUser
  <2>2. status \in UserStatuses
    BY DEF UserStatuses
  <2> HIDE DEF status
  <2>3. email \in Emails
    BY <1>1, <2>1, WriteReady, OpTyped
  <2> DEFINE row == [user[u] EXCEPT !.status = status, !.email = email]
  <2>4. user' = [user EXCEPT ![u] = row]
    BY <1>1, <1>2, <2>1 DEF DocsTyped
  <2>5. row \in UserDocs /\ row.status = status
    BY <1>2, <2>2, <2>3 DEF UserDocs
  <2> HIDE DEF row
  <2> QED BY <2>4, <2>5
(* A patch of something else writes the status it has read.                *)
<1>5. CASE Silent(Op(r))
  <2>1. Op(r).kind = "scimPatch" /\ Op(r).active = "absent"
    BY <1>5 DEF Silent
  <2>2. req[r].todo = <<"write">>
    <3>1. Ready(req[r], dept, user) /\ Op(r) = req[r].op /\ First(req[r].todo) = "write"
      BY <1>1, Busy DEF Op
    <3> QED BY <2>1, <3>1, Stages DEF Ready, PatchReady, PatchKinds
  <2>3. mark = "held" => status # "active"
    <3>1. status = "active" => req[r].saw.status = "active"
      BY <1>5 DEF Activated
    <3>2. status = "active" => Carries(req[r], u)
      BY <2>1, <2>2, <3>1 DEF Carries, Op
    <3>3. mark = off[u]
      BY <1>5
    <3> HIDE DEF status, mark
    <3> QED BY <1>2, <3>2, <3>3 DEF HeldInv
  <2>4. mark = "held" => \A s \in Requests : ~Carries(req[s], u)
    BY <1>2, <1>5 DEF HeldInv
  <2> HIDE DEF status, mark, u
  <2> QED BY <1>1, <1>2, <1>3, <1>4, <2>3, <2>4, RowHeld
<1>6. CASE ~Silent(Op(r))
  <2>1. mark = "held" => status # "active" /\ ~Crossing(r, u)
    BY <1>6
  <2> HIDE DEF status, mark, u
  <2> QED BY <1>1, <1>2, <1>3, <1>4, <2>1, RowHeld, CrossingCarries
<1> QED BY <1>5, <1>6

LEMMA DeactivateHeld ==
  ASSUME TenancyInv, HeldInv, NEW r \in Requests, ~UNCHANGED <<user, off>>, ScimDeactivateUser(r)
  PROVE  HeldInv'
<1> DEFINE u == Op(r).user
           row == [user[u] EXCEPT !.status = "inactive", !.is_deleted = TRUE]
<1>1. DocsTyped /\ Ends(r) /\ off = [v \in Users |-> off[v]]
  BY DEF TenancyInv, ScimDeactivateUser, HeldInv
<1>2. u \in Users /\ LiveUser(u) /\ user[u] \in UserDocs
  <2>1. u \in Users /\ LiveUser(u)
    BY RowRewritten
  <2> QED BY <1>1, <2>1 DEF DocsTyped, LiveUser
<1>3. /\ user' = [user EXCEPT ![u].status = "inactive", ![u].is_deleted = TRUE]
      /\ off' = [off EXCEPT ![u] = "held"]
  BY DEF ScimDeactivateUser
<1>4. user' = [user EXCEPT ![u] = row]
  BY <1>1, <1>2, <1>3 DEF DocsTyped
<1>5. row \in UserDocs /\ row.status = "inactive" /\ row.is_deleted
  BY <1>2 DEF UserDocs, UserStatuses
<1> HIDE DEF row, u
<1> QED BY <1>1, <1>2, <1>3, <1>4, <1>5, RowHeld

LEMMA WriteHeld ==
  ASSUME TenancyInv, HeldInv, NEW r \in Requests, Write(r)
  PROVE  HeldInv'
<1>1. RequestsReady /\ DocsTyped
  BY DEF TenancyInv
<1>2. CASE CreateUser(r)
  <2>1. /\ At(r, "write") /\ Op(r).kind = "create" /\ InsertRow(r, Op(r).status)
    BY <1>2 DEF CreateUser, Writes
  <2>2. Op(r).status \in UserStatuses /\ Op(r).kind \in CreateKinds
    BY <1>1, <2>1, WriteReady, OpTyped DEF CreateKinds
  <2> QED BY <2>1, <2>2, InsertHeld
<1>3. CASE ScimCreateUser(r)
  <2>1. /\ At(r, "write") /\ Op(r).kind \in CreateKinds
        /\ InsertRow(r, IF Op(r).active THEN "active" ELSE "inactive")
    BY <1>3 DEF ScimCreateUser, Writes, CreateKinds
  <2>2. (IF Op(r).active THEN "active" ELSE "inactive") \in UserStatuses
    BY DEF UserStatuses
  <2> QED BY <2>1, <2>2, InsertHeld
<1>4. CASE \/ UpdateUser(r) \/ RenameUser(r) \/ RemoveUser(r) \/ ScimUpdateUser(r)
           \/ ScimDeactivateUser(r)
  <2>1. CASE ~UNCHANGED <<user, off>>
    BY <1>4, <2>1, UpdateHeld, ScimUpdateHeld, DeactivateHeld
  <2>2. CASE UNCHANGED <<user, off>>
    <3>1. Ends(r)
      BY <1>4 DEF UpdateUser, RenameUser, RemoveUser, ScimUpdateUser, ScimDeactivateUser
    <3> QED BY <1>1, <2>2, <3>1, EndsHeld
  <2> QED BY <2>1, <2>2
<1>5. CASE \/ JitUpsert(r) \/ SaveJitMapping(r) \/ UpdateOrg(r) \/ CreateOrRemoveOrg(r)
           \/ RemoveAccount(r) \/ SaveScimConfig(r) \/ SaveGroup(r) \/ CreateDept(r)
           \/ ChangeDept(r)
  <2>1. Ends(r) /\ UNCHANGED <<user, off>>
    BY <1>5 DEF JitUpsert, SaveJitMapping, UpdateOrg, CreateOrRemoveOrg, RemoveAccount, docs,
                SaveScimConfig, SaveGroup, CreateDept, ChangeDept
  <2> QED BY <1>1, <2>1, EndsHeld
<1> QED BY <1>2, <1>3, <1>4, <1>5 DEF Write

LEMMA ProvisioningInitially == TenancyInit => ProvisioningInv
<1> SUFFICES ASSUME TenancyInit PROVE ProvisioningInv
  OBVIOUS
<1>1. TenancyInv
  BY Initially
<1>2. OverrunInv
  <2> SUFFICES ASSUME NEW o \in Orgs
               PROVE  Cardinality(Counted(o)) + Cardinality(Passed(o, req))
                        <= MaxUsers + Cardinality(Requests) - 1
    BY DEF OverrunInv
  <2>1. Passed(o, req) = {}
    <3>1. <<>> # <<"write">>
      OBVIOUS
    <3>2. \A r \in Requests : req[r].todo = <<>>
      BY DEF TenancyInit, NoRequest
    <3> QED BY <3>1, <3>2 DEF Passed
  <2>2. \E u : Counted(o) \subseteq {u}
    BY DEF TenancyInit, Counted, LiveUser
  <2>3. Cardinality(Counted(o)) <= 1
    <3>1. PICK u : Counted(o) \subseteq {u}
      BY <2>2
    <3>2. IsFiniteSet({u}) /\ Cardinality({u}) = 1
      BY FS_Singleton
    <3> QED BY <3>1, <3>2, FS_Subset
  <2>4. Cardinality(Passed(o, req)) = 0
    BY <2>1, FS_EmptySet
  <2> QED BY <2>3, <2>4, Sizes
<1>3. HeldInv
  <2>1. <<>> # <<"write">>
    OBVIOUS
  <2>2. \A r \in Requests, u \in Users : ~Carries(req[r], u)
    BY <2>1 DEF TenancyInit, NoRequest, Carries
  <2>3. off = [u \in Users |-> "no"]
    BY DEF TenancyInit
  <2> QED BY <2>2, <2>3 DEF HeldInv, DeactivationHolds
<1> QED BY <1>1, <1>2, <1>3 DEF ProvisioningInv

LEMMA ProvisioningPreserved ==
  ProvisioningInv /\ [TenancyNext]_tenancyVars => ProvisioningInv'
<1> SUFFICES ASSUME ProvisioningInv, [TenancyNext]_tenancyVars PROVE ProvisioningInv'
  OBVIOUS
<1>1. TenancyInv /\ OverrunInv /\ HeldInv
  BY DEF ProvisioningInv
<1>2. TenancyInv'
  BY <1>1, Preserved
<1>3. CASE TenancyNext
  <2>1. OverrunInv'
    BY <1>1, <1>3, ReceiveOverrun, CheckOverrun, WriteOverrun DEF TenancyNext
  <2>2. HeldInv'
    BY <1>1, <1>3, ReceiveHeld, CheckHeld, WriteHeld DEF TenancyNext
  <2> QED BY <1>2, <2>1, <2>2 DEF ProvisioningInv
<1>4. CASE UNCHANGED tenancyVars
  <2>1. req' = req /\ user' = user /\ off' = off
    BY <1>4 DEF tenancyVars, docs
  <2>2. \A o : Counted(o)' = Counted(o) /\ Passed(o, req') = Passed(o, req)
    BY <2>1 DEF Counted, LiveUser
  <2>3. OverrunInv'
    BY <1>1, <2>2 DEF OverrunInv
  <2>4. HeldInv'
    BY <1>1, <2>1 DEF HeldInv, DeactivationHolds, LiveUser
  <2> QED BY <1>2, <2>3, <2>4 DEF ProvisioningInv
<1> QED BY <1>3, <1>4

(* The plan limit is counted before a user is written and not held, yet as *)
(* each request past the count adds at most one user, overlapping creations *)
(* overrun it by no more than the requests that overlap; and a user who was *)
(* switched off stays off until a request asks for the contrary, or a PUT   *)
(* leaves `active` out, unless a patch that had read the user before writes *)
(* its old status back.                                                     *)
THEOREM ProvisioningIsBounded == TenancySpec => []ProvisioningHolds
<1>1. ProvisioningInv => ProvisioningHolds
  <2> SUFFICES ASSUME ProvisioningInv PROVE ProvisioningHolds
    OBVIOUS
  <2>1. UserOverrunIsBounded
    BY Sizes DEF ProvisioningInv, OverrunInv, UserOverrunIsBounded
  <2>2. DeactivationHolds
    BY DEF ProvisioningInv, HeldInv
  <2> QED BY <2>1, <2>2 DEF ProvisioningHolds
<1> QED BY ProvisioningInitially, ProvisioningPreserved, <1>1, PTL DEF TenancySpec

=============================================================================
