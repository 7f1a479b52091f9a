------------------------------ MODULE MCCaches ------------------------------
(* The two caches of Redis that others' changes must reach, each on its     *)
(* own: `focus` says whether the permissions of users move, with the        *)
(* requests that read and change roles, or the responses of two routes, or  *)
(* those of one route that is asked for under two headers.                  *)
EXTENDS Access, ResponseCache, TLC

CONSTANTS u1, r1, r2

VARIABLE focus

MCLists == { << <<"signals", "read">> >>, << <<"agents", "*", "account">>, <<"billing", "read">> >> }
MCOld == [SystemPermissions EXCEPT !["dept_user"] = {<<"signals", "read", "own">>}]
MCClaim == [u \in Users |-> "org_admin"]
MCMappings ==
    { [enabled |-> TRUE, fallback_role |-> "dept_user",
       mappings |-> {[idp_group |-> "g", role |-> "org_admin", place |-> 2]}] }

MCInit ==
    /\ focus \in {"permissions", "responses", "headers"}
    /\ AccessInit /\ CacheInit
    /\ \A u \in Users : user[u].place = 1
    /\ focus = "permissions" \/ \A u \in Users : user[u].role = "dept_user"

(* Bound of the latter two: each about two of the three keys.               *)
Asked(keys) == \A c \in Calls : call'[c] # NoCall => call'[c].key \in keys
RoutesNext == CacheNext /\ Asked({k \in Keys : k.shelf = Own})
HeadersNext ==
    /\ CacheNext /\ Asked({k \in Keys : k.route = List})
    /\ \A r \in Replicas : data'[r][Deliveries] = Empty

MCNext ==
    /\ \/ focus = "permissions" /\ AccessNext /\ UNCHANGED cacheVars
       \/ focus = "responses" /\ RoutesNext /\ UNCHANGED accessVars
       \/ focus = "headers" /\ HeadersNext /\ UNCHANGED accessVars
    /\ UNCHANGED focus

MCSpec == MCInit /\ [][MCNext]_<<accessVars, cacheVars, focus>>

Symmetry == Permutations(Requests) \cup Permutations(Replicas)
=============================================================================
