---------------------------- MODULE Permissions ----------------------------
(* The permission algebra of modules/rbac: triples resource:action:scope,  *)
(* their normal form, the match of a grant against a requirement, the      *)
(* catalog, the system roles and their inheritance.  A permission string   *)
(* is the sequence of its parts: <<"*">>, <<"signals", "read">>,           *)
(* <<"signals", "read", "own">>.                                           *)
EXTENDS Integers, FiniteSets, Sequences

Resources ==
    {"organizations", "accounts", "departments", "users", "agents", "signals",
     "approvals", "playbooks", "credits", "contracts", "audit"}

Verbs   == {"create", "read", "update", "delete", "manage"}
Actions == Verbs \cup {"*"}

Breadths == {"own", "department", "account", "organization"}
Scopes   == Breadths \cup {"*"}

ScopeRank ==
    [s \in Scopes |-> CASE s = "own" -> 1 [] s = "department" -> 2 [] s = "account" -> 3
                        [] s = "organization" -> 4 [] OTHER -> 5]

Triples == (Resources \cup {"*"}) \X Actions \X Scopes
All     == <<"*", "*", "*">>

(* A broader granted scope satisfies a narrower required one. *)
ScopeIncludes(granted, required) ==
    IF granted = "*" \/ required = "*" THEN granted = "*"
    ELSE ScopeRank[granted] >= ScopeRank[required]

(* The shorthands of earlier versions, each with the triple it stands for. *)
LegacyPermissions ==
    { [short |-> <<"*">>,                 long |-> All],
      [short |-> <<"org", "*">>,          long |-> <<"organizations", "*", "organization">>],
      [short |-> <<"account", "*">>,      long |-> <<"accounts", "*", "account">>],
      [short |-> <<"depts", "*">>,        long |-> <<"departments", "*", "account">>],
      [short |-> <<"dept", "*">>,         long |-> <<"departments", "*", "department">>],
      [short |-> <<"agents", "read">>,    long |-> <<"agents", "read", "department">>],
      [short |-> <<"signals", "read">>,   long |-> <<"signals", "read", "own">>],
      [short |-> <<"approvals", "own">>,  long |-> <<"approvals", "read", "own">>],
      [short |-> <<"approvals", "write">>, long |-> <<"approvals", "update", "own">>],
      [short |-> <<"billing", "read">>,   long |-> <<"credits", "read", "organization">>],
      [short |-> <<"webhooks", "read">>,  long |-> <<"audit", "read", "organization">>],
      [short |-> <<"webhooks", "write">>, long |-> <<"audit", "update", "organization">>],
      [short |-> <<"files", "read">>,     long |-> <<"agents", "read", "organization">>],
      [short |-> <<"files", "write">>,    long |-> <<"agents", "update", "organization">>],
      [short |-> <<"search", "read">>,    long |-> <<"signals", "read", "organization">>],
      [short |-> <<"roles", "read">>,     long |-> <<"users", "read", "organization">>],
      [short |-> <<"roles", "write">>,    long |-> <<"users", "update", "organization">>] }

(* Two parts that are no shorthand mean the whole organization. *)
Normalize(p) ==
    IF \E l \in LegacyPermissions : l.short = p
    THEN (CHOOSE l \in LegacyPermissions : l.short = p).long
    ELSE IF Len(p) = 2 THEN Append(p, "organization") ELSE p

Parses(p) == Len(Normalize(p)) = 3

PartMatches(granted, required) == granted \in {"*", required}

ScopeMatches(granted, required) ==
    \/ granted = required
    \/ granted = "*"
    \/ required = "*"
    \/ ScopeIncludes(granted, required)

GrantMatches(g, q) ==
    /\ PartMatches(g[1], q[1])
    /\ PartMatches(g[2], q[2])
    /\ ScopeMatches(g[3], q[3])

(* Does a set of normal grants satisfy the requirement q? *)
HasPermission(grants, q) ==
    /\ Parses(q)
    /\ \/ All \in grants
       \/ \E g \in grants : Parses(g) /\ GrantMatches(Normalize(g), Normalize(q))

(* The explicit triples a grant stands for. *)
ExpandPermission(g) ==
    LET p == Normalize(g) IN
    IF ~Parses(g) THEN {}
    ELSE IF p = All THEN {All}
    ELSE { <<r, a, s>> : r \in IF p[1] = "*" THEN Resources ELSE {p[1]},
                         a \in IF p[2] = "*" THEN Verbs ELSE {p[2]},
                         s \in IF p[3] = "*" THEN Breadths ELSE {p[3]} }

ExpandPermissions(grants) ==
    UNION { ExpandPermission(g) \cup {Normalize(g)} : g \in grants }

InheritPermissions(child, parent) == { Normalize(p) : p \in child \cup parent }

IsValidTriple(p) ==
    p \in Triples

(* What a custom role may be given. *)
CatalogTemplates ==
    { <<"organizations", {"read", "update", "manage"}, {"organization"}>>,
      <<"accounts", Verbs, {"organization", "account"}>>,
      <<"departments", Verbs, {"organization", "account", "department"}>>,
      <<"users", Verbs, {"organization", "account", "department"}>>,
      <<"agents", Verbs \ {"manage"}, {"organization", "account", "department"}>>,
      <<"signals", Verbs \ {"manage"}, Breadths>>,
      <<"approvals", {"read", "update", "manage"}, Breadths>>,
      <<"playbooks", Verbs \ {"manage"}, {"organization", "account"}>>,
      <<"credits", {"read", "update", "manage"}, {"organization", "account"}>>,
      <<"contracts", {"read", "update"}, {"organization"}>>,
      <<"audit", {"read"}, {"organization", "account"}>> }

PermissionCatalog ==
    {All} \cup UNION { ({t[1]} \X t[2] \X t[3])
                         \cup ({t[1]} \X {"*"} \X {"organization", "account"})
                       : t \in CatalogTemplates }

CatalogAllows(p) ==
    \/ p \in PermissionCatalog
    \/ /\ p[2] = "*" \/ p[3] = "*"
       /\ <<p[1], "*", IF p[3] = "*" THEN "organization" ELSE p[3]>> \in PermissionCatalog

(* A role's list is accepted when it has an entry and each entry up to the *)
(* first *:*:* is in the catalog; that one stands for the whole list.      *)
AcceptsPermission(raw) ==
    /\ Parses(raw)
    /\ IsValidTriple(Normalize(raw))
    /\ Normalize(raw) = All \/ CatalogAllows(Normalize(raw))

FirstAll(raws) == { i \in DOMAIN raws : Normalize(raws[i]) = All }

ValidatedPart(raws) ==
    IF FirstAll(raws) = {} THEN DOMAIN raws
    ELSE { i \in DOMAIN raws : \A j \in FirstAll(raws) : i <= j }

RolePermissionsValid(raws) ==
    /\ raws # << >>
    /\ \A i \in ValidatedPart(raws) : AcceptsPermission(raws[i])

ValidatedPermissions(raws) ==
    IF FirstAll(raws) # {} THEN {All} ELSE { Normalize(raws[i]) : i \in DOMAIN raws }

-----------------------------------------------------------------------------

(* The chain of user roles, the most privileged first. *)
UserRoles == {"org_admin", "account_admin", "dept_manager", "dept_user"}
SystemRoleNames == UserRoles \cup {"platform_admin"}

RolePlace ==
    [r \in UserRoles |-> CASE r = "org_admin" -> 1 [] r = "account_admin" -> 2
                            [] r = "dept_manager" -> 3 [] OTHER -> 4]

(* A role and every role below it. *)
EffectiveRoleNames(r) == { s \in UserRoles : RolePlace[r] <= RolePlace[s] }

SystemPermissions ==
    [n \in SystemRoleNames |->
        CASE n = "platform_admin" -> {All}
          [] n = "org_admin" ->
               {<<"organizations", "manage", "organization">>}
                 \cup ((Resources \ {"organizations"}) \X {"*"} \X {"organization"})
          [] n = "account_admin" ->
               {<<"accounts", "manage", "account">>, <<"credits", "read", "account">>}
                 \cup ({"departments", "users", "agents", "signals", "approvals", "playbooks"}
                         \X {"*"} \X {"account"})
          [] n = "dept_manager" ->
               {<<"departments", "manage", "department">>, <<"users", "read", "department">>,
                <<"signals", "read", "department">>}
                 \cup ({"agents", "approvals"} \X {"*"} \X {"department"})
          [] OTHER -> {<<"signals", "read", "own">>, <<"approvals", "read", "own">>}]

(* The grants of a role and of those below it, from their documents. *)
GrantsOf(docs, r) == UNION { docs[n] : n \in EffectiveRoleNames(r) }

CeilingRole(level) ==
    IF level <= 1 THEN "org_admin"
    ELSE IF level = 2 THEN "account_admin"
    ELSE IF level = 3 THEN "dept_manager" ELSE "dept_user"

WithinCeiling(docs, level, perms) ==
    \A p \in perms : HasPermission(GrantsOf(docs, CeilingRole(level)), p)

(* The rank a route asks of the role in the caller's token. *)
RoleRank ==
    [r \in UserRoles |-> CASE r = "org_admin" -> 40 [] r = "account_admin" -> 30
                           [] r = "dept_manager" -> 20 [] OTHER -> 10]

HasMinimumRole(claim, minimum) == RoleRank[claim] >= RoleRank[minimum]

(* The groups a login brings are matched against the configured ones; the *)
(* highest role wins, and of its entries one that names a department.     *)
HighestRole(roles) == CHOOSE r \in roles : \A s \in roles : RolePlace[r] <= RolePlace[s]
=============================================================================
