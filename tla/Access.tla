------------------------------- MODULE Access -------------------------------
(* Who may do what: the role of each user, the role documents, and the     *)
(* permissions cached per user in Redis.  Requests of one organization     *)
(* overlap at every await: authorization fills the cache, and user         *)
(* updates, SSO group syncs, role administration and the seeding of    *)
(* the system roles at a start of the server change what it was filled     *)
(* from.                                                                   *)
EXTENDS Permissions

CONSTANTS
    Users,              \* the users of the organization
    RoleIds,            \* ids of custom role documents
    RoleNames,          \* names custom roles may be given
    Requests,           \* requests that may be in flight
    Places,             \* department placements a mapping may impose
    Groups,             \* group names the identity provider sends
    AssignedRoles,      \* roles that updates and mappings assign
    PermissionLists,    \* permission lists that role bodies carry
    Levels,             \* hierarchy levels that role bodies carry
    OldPermissions,     \* system role documents of the previous release
    Claim,              \* the role in each user's access token
    Mappings,           \* group mappings an administrator saves
    SeededBefore,       \* how many system roles the starting server has written
    None

ASSUME AccessAssumption ==
    /\ AssignedRoles \subseteq UserRoles
    /\ Levels \subseteq 1 .. 99
    /\ OldPermissions \in [SystemRoleNames -> SUBSET Triples]
    /\ Claim \in [Users -> UserRoles]
    /\ SeededBefore \in 0 .. 5
    /\ \A m \in Mappings : m.fallback_role \in UserRoles

VARIABLES
    user,       \* users: role, is_deleted, placement
    sysDocs,    \* system role documents: name -> permissions
    role,       \* custom role documents
    mapping,    \* the organization's group mapping
    cached,     \* Redis: permissions:{userId}
    seeded,     \* how many system roles a starting server has written
    req,        \* requests in flight
    raced,      \* history: users whose entry an overlap may have left stale
    topLevel    \* history: the most privileged level each custom role has had

accessVars == <<user, sysDocs, role, mapping, cached, seeded, req, raced, topLevel>>

UserDocs == [role : UserRoles, is_deleted : BOOLEAN, place : Places]
RoleDocs == [name : RoleNames, permissions : SUBSET Triples,
             hierarchy_level : 1 .. 99, is_deleted : BOOLEAN]
MappingEntries == [idp_group : Groups, role : AssignedRoles, place : Places \cup {None}]
MappingDocs ==
    [enabled : BOOLEAN, fallback_role : AssignedRoles, mappings : SUBSET MappingEntries]

-----------------------------------------------------------------------------

(* What a request asks for. *)
CreateOps == [op : {"createRole"}, id : RoleIds, name : RoleNames,
              permissions : PermissionLists, level : Levels]
UpdateOps == [op : {"updateRole"}, id : RoleIds,
              permissions : PermissionLists \cup {None}, level : Levels \cup {None}]
DeleteOps == [op : {"deleteRole"}, id : RoleIds]
UserOps   == [op : {"updateUser"}, on : Users, role : AssignedRoles \cup {None}]
SyncOps   == [op : {"sync"}, on : Users, groups : SUBSET Groups]

EmptyUpdate(o) == o.op = "updateRole" /\ o.permissions = None /\ o.level = None

Idle == [pc |-> "idle"]

Live(u)   == ~user[u].is_deleted
Exists(i) == role[i] # None /\ ~role[i].is_deleted

(* What the database says u may do now. *)
Effective(u) == IF Live(u) THEN GrantsOf(sysDocs, user[u].role) ELSE {}

(* The user a request's answer or write depends on, once it has read it. *)
Subject(r) ==
    IF req[r].pc \in {"roles", "fill"} THEN {req[r].by}
    ELSE IF req[r].pc \in {"config", "writeUser"} THEN {req[r].o.on}
    ELSE IF req[r].pc = "clear" THEN {req[r].on}
    ELSE {}

Overlapped(r, u) == \E x \in Requests \ {r} : u \in Subject(x)

Quiet(u) == \A r \in Requests : u \notin Subject(r)

Goto(r, record) == req' = [req EXCEPT ![r] = record]
Finish(r)       == req' = [req EXCEPT ![r] = Idle]

AccessInit ==
    /\ user \in [Users -> [role : AssignedRoles, is_deleted : {FALSE}, place : Places]]
    /\ sysDocs = OldPermissions
    /\ role = [i \in RoleIds |-> None]
    /\ mapping = None
    /\ cached = [u \in Users |-> None]
    /\ seeded = SeededBefore
    /\ req = [r \in Requests |-> Idle]
    /\ raced = {}
    /\ topLevel = [i \in RoleIds |-> 100]

-----------------------------------------------------------------------------
(* Authorization.  The routes of roles, audit and API keys ask the cache   *)
(* first and fill it from the database on a miss.                          *)

ManageRoles == <<"users", "update", "organization">>

(* With the permissions loaded: a read is answered; a role is written only *)
(* by a caller whose token says org_admin and who has the permission, with *)
(* a body that validates.                                                  *)
Granted(r, by, grants) ==
    \/ Finish(r)
    \/ /\ HasMinimumRole(Claim[by], "org_admin")
       /\ HasPermission(grants, ManageRoles)
       /\ \/ \E o \in CreateOps :
                /\ RolePermissionsValid(o.permissions)
                /\ Goto(r, [pc |-> "ceiling", o |-> o, level |-> o.level])
          \/ \E o \in UpdateOps \cup DeleteOps : ~EmptyUpdate(o) /\ Goto(r, [pc |-> "find", o |-> o])

Authorize(r, by) ==
    /\ req[r].pc = "idle"
    /\ IF cached[by] # None THEN Granted(r, by, cached[by])
       ELSE Goto(r, [pc |-> "load", by |-> by])
    /\ UNCHANGED <<user, sysDocs, role, mapping, cached, seeded, raced, topLevel>>

LoadUser(r) ==
    /\ req[r].pc = "load"
    /\ LET by == req[r].by IN
       IF Live(by)
       THEN Goto(r, [pc |-> "roles", by |-> by, role |-> user[by].role])
       ELSE Goto(r, [pc |-> "fill", by |-> by, grants |-> {}])
    /\ UNCHANGED <<user, sysDocs, role, mapping, cached, seeded, raced, topLevel>>

LoadRoles(r) ==
    /\ req[r].pc = "roles"
    /\ Goto(r, [pc |-> "fill", by |-> req[r].by, grants |-> GrantsOf(sysDocs, req[r].role)])
    /\ UNCHANGED <<user, sysDocs, role, mapping, cached, seeded, raced, topLevel>>

Fill(r) ==
    /\ req[r].pc = "fill"
    /\ cached' = [cached EXCEPT ![req[r].by] = req[r].grants]
    /\ Granted(r, req[r].by, req[r].grants)
    /\ UNCHANGED <<user, sysDocs, role, mapping, seeded, raced, topLevel>>

-----------------------------------------------------------------------------
(* Role administration. *)

ValidBody(o) ==
    o.op = "updateRole" /\ o.permissions # None => RolePermissionsValid(o.permissions)

FindRole(r) ==
    /\ req[r].pc = "find"
    /\ LET o == req[r].o IN
       IF Exists(o.id) /\ ValidBody(o)
       THEN Goto(r, [pc |-> IF o.op = "updateRole" /\ o.permissions # None
                            THEN "ceiling" ELSE "writeRole",
                     o |-> o, level |-> role[o.id].hierarchy_level])
       ELSE Finish(r)
    /\ UNCHANGED <<user, sysDocs, role, mapping, cached, seeded, raced, topLevel>>

CheckedLevel_Default(r) == IF req[r].o.level # None THEN req[r].o.level ELSE 1

(* The level the permissions are held against: the body's own, or the one *)
(* the role had when it was read.                                          *)
CheckedLevel(r) ==
    IF req[r].o.level # None THEN req[r].o.level ELSE req[r].level

CheckCeiling(r) ==
    /\ req[r].pc = "ceiling"
    /\ IF WithinCeiling(sysDocs, CheckedLevel(r), ValidatedPermissions(req[r].o.permissions))
       THEN Goto(r, [req[r] EXCEPT !.pc = "writeRole"])
       ELSE Finish(r)
    /\ UNCHANGED <<user, sysDocs, role, mapping, cached, seeded, raced, topLevel>>

Higher(i, level) == [topLevel EXCEPT ![i] = IF level < @ THEN level ELSE @]

(* One live role of a name: the unique index refuses a second. *)
CreateRole(r) ==
    LET o == req[r].o IN
    /\ req[r].pc = "writeRole" /\ o.op = "createRole"
    /\ IF role[o.id] # None \/ \E i \in RoleIds : Exists(i) /\ role[i].name = o.name
       THEN UNCHANGED <<role, topLevel>>
       ELSE /\ role' = [role EXCEPT ![o.id] =
                   [name |-> o.name, permissions |-> ValidatedPermissions(o.permissions),
                    hierarchy_level |-> o.level, is_deleted |-> FALSE]]
            /\ topLevel' = Higher(o.id, o.level)
    /\ Finish(r)
    /\ UNCHANGED <<user, sysDocs, mapping, cached, seeded, raced>>

UpdatedRole(doc, o) ==
    [doc EXCEPT !.permissions = IF o.permissions # None
                                THEN ValidatedPermissions(o.permissions) ELSE @,
                !.hierarchy_level = IF o.level # None THEN o.level ELSE @]

UpdateRole(r) ==
    LET o == req[r].o IN
    /\ req[r].pc = "writeRole" /\ o.op = "updateRole"
    /\ IF Exists(o.id)
       THEN /\ role' = [role EXCEPT ![o.id] = UpdatedRole(@, o)]
            /\ topLevel' = IF o.level # None THEN Higher(o.id, o.level) ELSE topLevel
            /\ Goto(r, [pc |-> "affected", id |-> o.id])
       ELSE Finish(r) /\ UNCHANGED <<role, topLevel>>
    /\ UNCHANGED <<user, sysDocs, mapping, cached, seeded, raced>>

(* The deletion comes first: invalidateForRole then finds no live role and *)
(* returns, so it clears nothing.                                          *)
DeleteRole(r) ==
    LET o == req[r].o IN
    /\ req[r].pc = "writeRole" /\ o.op = "deleteRole"
    /\ IF Exists(o.id)
       THEN /\ role' = [role EXCEPT ![o.id].is_deleted = TRUE]
            /\ Goto(r, [pc |-> "affected", id |-> o.id])
       ELSE Finish(r) /\ UNCHANGED role
    /\ UNCHANGED <<user, sysDocs, mapping, cached, seeded, raced, topLevel>>

(* invalidateForRole of a custom role: everyone in the organization. *)
Affected(r) == IF Exists(req[r].id) THEN {u \in Users : Live(u)} ELSE {}

InvalidateForRole(r) ==
    /\ req[r].pc = "affected"
    /\ cached' = [u \in Users |-> IF u \in Affected(r) THEN None ELSE cached[u]]
    /\ raced' = { u \in raced : cached'[u] # None \/ ~Quiet(u) }
    /\ Finish(r)
    /\ UNCHANGED <<user, sysDocs, role, mapping, seeded, topLevel>>

-----------------------------------------------------------------------------
(* The writers of a user's role. *)

ReadUser(r, o) ==
    /\ req[r].pc = "idle"
    /\ Live(o.on)
    /\ Goto(r, [pc |-> IF o.op = "sync" THEN "config" ELSE "writeUser", o |-> o,
                seen |-> user[o.on],
                set |-> [role |-> IF o.op = "sync" THEN None ELSE o.role, place |-> None]])
    /\ UNCHANGED <<user, sysDocs, role, mapping, cached, seeded, raced, topLevel>>

Matched(groups) == { m \in mapping.mappings : m.idp_group \in groups }

MappedRole(groups) ==
    IF Matched(groups) = {} THEN mapping.fallback_role
    ELSE HighestRole({ m.role : m \in Matched(groups) })

(* Any scoped entry of the role that won: the first in the list. *)
MappedPlaces(groups) ==
    LET scoped == { m \in Matched(groups) : m.role = MappedRole(groups) /\ m.place # None } IN
    IF scoped = {} THEN {None} ELSE { m.place : m \in scoped }

RoleChanges(seen, set) == set.role \notin {None, seen.role}
PlaceChanges(seen, set) == set.place \notin {None, seen.place}

(* The login's groups decide on a role and a placement; nothing is written *)
(* when neither differs from what was read of the user.                    *)
ReadMapping(r) ==
    /\ req[r].pc = "config"
    /\ IF mapping = None \/ (mapping # None /\ ~mapping.enabled)
       THEN Finish(r)
       ELSE \E p \in MappedPlaces(req[r].o.groups) :
              LET set == [role |-> MappedRole(req[r].o.groups), place |-> p] IN
              IF RoleChanges(req[r].seen, set) \/ PlaceChanges(req[r].seen, set)
              THEN Goto(r, [req[r] EXCEPT !.pc = "writeUser", !.set = set])
              ELSE Finish(r)
    /\ UNCHANGED <<user, sysDocs, role, mapping, cached, seeded, raced, topLevel>>

(* A sync writes by id alone, an update only a user that still exists. *)
WriteApplies(r) == req[r].o.op = "sync" \/ Live(req[r].o.on)

Stored(doc, set) ==
    [doc EXCEPT !.role = IF set.role # None THEN set.role ELSE @,
                !.place = IF set.place # None THEN set.place ELSE @]

NeedsClear_Placement(r) == PlaceChanges(req[r].seen, req[r].set)

(* The cache is told only when the role differs from the one read. *)
NeedsClear(r) == RoleChanges(req[r].seen, req[r].set)

WriteUser(r) ==
    /\ req[r].pc = "writeUser"
    /\ LET u == req[r].o.on
           next == Stored(user[u], req[r].set) IN
       IF WriteApplies(r)
       THEN /\ user' = [user EXCEPT ![u] = next]
            /\ raced' = IF next.role # user[u].role /\ Overlapped(r, u)
                        THEN raced \cup {u} ELSE raced
            /\ IF NeedsClear(r) THEN Goto(r, [pc |-> "clear", on |-> u]) ELSE Finish(r)
       ELSE Finish(r) /\ UNCHANGED <<user, raced>>
    /\ UNCHANGED <<sysDocs, role, mapping, cached, seeded, topLevel>>

(* Redis may refuse: the error is swallowed and the entry stays. *)
Invalidate(r) ==
    /\ req[r].pc = "clear"
    /\ LET u == req[r].on IN
       \/ /\ cached' = [cached EXCEPT ![u] = None]
          /\ raced' = IF Overlapped(r, u) THEN raced ELSE raced \ {u}
       \/ /\ UNCHANGED cached
          /\ raced' = raced \cup {u}
    /\ Finish(r)
    /\ UNCHANGED <<user, sysDocs, role, mapping, seeded, topLevel>>

(* A deletion does not tell the cache. *)
RemoveUser(u) ==
    /\ Live(u)
    /\ user' = [user EXCEPT ![u].is_deleted = TRUE]
    /\ raced' = raced \cup {u}
    /\ UNCHANGED <<sysDocs, role, mapping, cached, seeded, req, topLevel>>

UpsertMapping(doc) ==
    /\ mapping' = doc
    /\ UNCHANGED <<user, sysDocs, role, cached, seeded, req, raced, topLevel>>

-----------------------------------------------------------------------------
(* A server that starts writes its release's system roles one by one. The *)
(* clearing of the cache that follows finds no client: Redis is connected *)
(* only afterwards.                                                       *)

SeedOrder == <<"platform_admin", "org_admin", "account_admin", "dept_manager", "dept_user">>

SeedRole ==
    /\ seeded < Len(SeedOrder)
    /\ seeded' = seeded + 1
    /\ LET n == SeedOrder[seeded + 1] IN
       sysDocs' = [sysDocs EXCEPT ![n] = SystemPermissions[n]]
    /\ raced' = IF sysDocs' = sysDocs THEN raced ELSE raced \cup Users
    /\ UNCHANGED <<user, role, mapping, cached, req, topLevel>>

(* The five minutes of an entry are over. *)
Expire(u) ==
    /\ cached[u] # None
    /\ cached' = [cached EXCEPT ![u] = None]
    /\ raced' = IF Quiet(u) THEN raced \ {u} ELSE raced
    /\ UNCHANGED <<user, sysDocs, role, mapping, seeded, req, topLevel>>

Step(r) ==
    \/ LoadUser(r) \/ LoadRoles(r) \/ Fill(r)
    \/ FindRole(r) \/ CheckCeiling(r) \/ CreateRole(r) \/ UpdateRole(r) \/ DeleteRole(r) \/ InvalidateForRole(r)
    \/ ReadMapping(r) \/ WriteUser(r) \/ Invalidate(r)

AccessNext ==
    \/ \E r \in Requests :
          \/ \E u \in Users : Authorize(r, u)
          \/ \E o \in UserOps \cup SyncOps : ReadUser(r, o)
          \/ Step(r)
    \/ \E u \in Users : RemoveUser(u) \/ Expire(u)
    \/ \E doc \in Mappings : UpsertMapping(doc)
    \/ SeedRole

AccessSpec == AccessInit /\ [][AccessNext]_accessVars

-----------------------------------------------------------------------------

(* The permissions Redis serves for a user whom no request is changing or *)
(* loading are those of the user's role as the database has it, unless an *)
(* overlap, a lost deletion or a change the cache is never told of left   *)
(* them behind (permission-cache.service.ts, and the writers of a role).  *)
SettledPermissionsAreFresh ==
    \A u \in Users :
        Quiet(u) /\ cached[u] # None /\ u \notin raced => cached[u] = Effective(u)

TypeOK ==
    /\ user \in [Users -> UserDocs]
    /\ sysDocs \in [SystemRoleNames -> SUBSET Triples]
    /\ \A i \in RoleIds : role[i] \in RoleDocs \cup {None}
    /\ mapping \in MappingDocs \cup {None}
    /\ \A u \in Users : cached[u] \in SUBSET Triples \cup {None}
    /\ seeded \in 0 .. 5 /\ raced \subseteq Users
    /\ topLevel \in [RoleIds -> 1 .. 100]

(* However updates overlap, a custom role holds only what the ceiling of  *)
(* some level it has had allows (role.service.ts createRole, updateRole). *)
RolesStayUnderTheirCeiling ==
    \A i \in RoleIds :
        role[i] # None =>
            \A p \in role[i].permissions :
                \E docs \in {OldPermissions, SystemPermissions} :
                    HasPermission(GrantsOf(docs, CeilingRole(topLevel[i])), p)
=============================================================================
