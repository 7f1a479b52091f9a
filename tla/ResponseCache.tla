---------------------------- MODULE ResponseCache ----------------------------
(***************************************************************************)
(* The cache of GET responses in Redis, for the routes under /api/webhooks *)
(* of one organization: the middleware that serves and fills it, the tag   *)
(* set that indexes it, and the invalidation that the controllers request  *)
(* on the event bus and do not wait for.  The hooks and the delivery logs  *)
(* that the responses show are in the memory of each replica, the cache is *)
(* shared by all.                                                          *)
(*                                                                         *)
(* A response is the version of the data it shows.  It is filed under the  *)
(* organization of the header, the data are those of the query's; of the   *)
(* two routes the list is asked for with another's header too.  List and   *)
(* deliveries carry the tag of the resource only, so that the tag of a     *)
(* single record is an empty set and the two forms of an invalidation do   *)
(* the same.                                                               *)
(***************************************************************************)
EXTENDS Integers, FiniteSets

CONSTANTS
  Calls,       \* requests in flight
  Replicas,
  List,        \* GET /api/webhooks
  Deliveries,  \* GET /api/webhooks/deliveries
  Own, Other,  \* the organization of the data, and one a header may name
  MaxVersion,  \* bound: changes of the data
  MaxFailures  \* bound: commands that Redis does not answer, and restarts

Routes == {List, Deliveries}
Shelves == {Own, Other}
Filed(route, s) == [route |-> route, shelf |-> s]
Keys == {Filed(List, Own), Filed(List, Other), Filed(Deliveries, Own)}
NoEntry == -1
Empty == 0      \* no hooks, no log

VARIABLES
  data,      \* of each replica: version of what each route would answer
  version,   \* of the last change anywhere
  entry,     \* cache:resp:{org}:...: a version, or NoEntry
  tag,       \* members of cache:tag:{org}:r:webhooks, of both organizations
  call,
  failures,
  crossed    \* history: entries that went stale by one of the ways below

cacheVars == <<data, version, entry, tag, call, failures, crossed>>

NoCall == [pc |-> "idle"]
InFlight == {c \in Calls : call[c] # NoCall}
Tagging == {k \in Keys : \E c \in InFlight : call[c].pc = "tag" /\ call[c].key = k}

(* The members of the tag have been read, and the tag not been deleted yet. *)
Flushing(s) == \E c \in InFlight : call[c].pc = "delete" /\ call[c].key.shelf = s

(* One of the replicas would answer with this version.                     *)
Current(route, v) == \E r \in Replicas : data[r][route] = v

CacheInit ==
  /\ data = [r \in Replicas |-> [route \in Routes |-> Empty]]
  /\ version = 0
  /\ entry = [k \in Keys |-> NoEntry]
  /\ tag = {}
  /\ call = [c \in Calls |-> NoCall]
  /\ failures = 0 /\ crossed = {}

Begin(c, pc, r, k) ==
  /\ call[c] = NoCall
  /\ call' = [call EXCEPT ![c] =
       [pc |-> pc, at |-> r, key |-> k, version |-> NoEntry, members |-> {}]]

Done(c) == call' = [call EXCEPT ![c] = NoCall]

-----------------------------------------------------------------------------
(* createResponseCacheMiddleware                                           *)

(* On a hit the entry is the answer, and nothing changes.                  *)
Miss(c, r, k) ==
  /\ entry[k] = NoEntry
  /\ Begin(c, "load", r, k)
  /\ UNCHANGED <<data, version, entry, tag, failures, crossed>>

(* The route answers 200, from the memory of the replica.                  *)
Load(c) ==
  /\ call[c].pc = "load"
  /\ call' = [call EXCEPT ![c].pc = "set", ![c].version = data[call[c].at][call[c].key.route]]
  /\ UNCHANGED <<data, version, entry, tag, failures, crossed>>

(* What was loaded is stale by now, or filed under a tag that goes.        *)
FilledLate(c) ==
  {k \in {call[c].key} : ~Current(k.route, call[c].version) \/ Flushing(k.shelf)}

(* Mutant: the entry is written and not indexed.                           *)
Set_Untagged(c) ==
  /\ call[c].pc = "set"
  /\ entry' = [entry EXCEPT ![call[c].key] = call[c].version]
  /\ crossed' = (crossed \ {call[c].key}) \cup FilledLate(c)
  /\ Done(c)
  /\ UNCHANGED <<data, version, tag, failures>>

(* wrapSendToStore writes what was loaded, whatever happened since.        *)
Set(c) ==
  /\ call[c].pc = "set"
  /\ entry' = [entry EXCEPT ![call[c].key] = call[c].version]
  /\ crossed' = (crossed \ {call[c].key}) \cup FilledLate(c)
  /\ call' = [call EXCEPT ![c].pc = "tag", ![c].version = NoEntry]
  /\ UNCHANGED <<data, version, tag, failures>>

(* registerResponseKeysForPathTags.                                        *)
Register(c) ==
  /\ call[c].pc = "tag"
  /\ tag' = tag \cup {call[c].key}
  /\ Done(c)
  /\ UNCHANGED <<data, version, entry, failures, crossed>>

-----------------------------------------------------------------------------
(* Changes                                                                 *)

(* Entries that show what the replica would answer and are not filed under *)
(* its organization: no invalidation it requests will find them.           *)
OutOfReach(r, route, shelves) ==
  {k \in Keys : k.route = route /\ k.shelf \in shelves /\ entry[k] # NoEntry
                 /\ entry[k] = data[r][route]}

Changes(r, route) ==
  /\ version < MaxVersion
  /\ version' = version + 1
  /\ data' = [data EXCEPT ![r][route] = version + 1]

(* WebhooksController.create or remove in the memory of the replica, then  *)
(* requestCacheInvalidation for the organization of the query.             *)
Change(c, r) ==
  /\ Changes(r, List)
  /\ Begin(c, "members", r, Filed(List, Own))
  /\ crossed' = crossed \cup OutOfReach(r, List, Shelves \ {Own})
  /\ UNCHANGED <<entry, tag, failures>>

(* broadcast or deliver: jobs are queued, and the cache invalidated; or    *)
(* anything the other organization changes of its own.                     *)
Dispatch(c, r, s) ==
  /\ Begin(c, "members", r, Filed(List, s))
  /\ UNCHANGED <<data, version, entry, tag, failures, crossed>>

(* The worker of a replica logs the delivery later, invalidates nothing.   *)
Delivered(r) ==
  /\ Changes(r, Deliveries)
  /\ crossed' = crossed \cup OutOfReach(r, Deliveries, Shelves)
  /\ UNCHANGED <<entry, tag, call, failures>>

-----------------------------------------------------------------------------
(* invalidateByTag, flushOneTag                                            *)

TagOf(s) == {k \in tag : k.shelf = s}

(* An entry that is written and not indexed yet is not seen.               *)
Members(c) ==
  /\ call[c].pc = "members"
  /\ LET s == call[c].key.shelf IN
     /\ call' = [call EXCEPT ![c].pc = "delete", ![c].members = TagOf(s)]
     /\ crossed' = crossed \cup {k \in Tagging \ tag : k.shelf = s /\ entry[k] # NoEntry}
  /\ UNCHANGED <<data, version, entry, tag, failures>>

(* Mutant: only the tag is deleted.                                        *)
Delete_KeepsEntry(c, k) ==
  /\ call[c].pc = "delete" /\ k \in call[c].members
  /\ call' = [call EXCEPT ![c].members = @ \ {k}]
  /\ UNCHANGED <<data, version, entry, tag, failures, crossed>>

(* Each response in turn.                                                 *)
Delete(c, k) ==
  /\ call[c].pc = "delete" /\ k \in call[c].members
  /\ entry' = [entry EXCEPT ![k] = NoEntry]
  /\ call' = [call EXCEPT ![c].members = @ \ {k}]
  /\ crossed' = crossed \ {k}
  /\ UNCHANGED <<data, version, tag, failures>>

(* Entries registered, or written again, since the members were read lose  *)
(* their index: no later invalidation finds them.                          *)
DeleteTag(c) ==
  /\ call[c].pc = "delete" /\ call[c].members = {}
  /\ tag' = tag \ TagOf(call[c].key.shelf)
  /\ Done(c)
  /\ UNCHANGED <<data, version, entry, failures, crossed>>

-----------------------------------------------------------------------------
EntryExpires(k) ==
  /\ entry[k] # NoEntry
  /\ entry' = [entry EXCEPT ![k] = NoEntry]
  /\ crossed' = crossed \ {k}
  /\ UNCHANGED <<data, version, tag, call, failures>>

(* The entries that request c leaves behind when it goes no further.       *)
LeftBehind(c) ==
  {k \in Keys : entry[k] # NoEntry
     /\ \/ call[c].pc \in {"members", "delete"} /\ call[c].key.shelf = k.shelf
        \/ call[c].pc = "tag" /\ call[c].key = k}

(* Redis does not answer: what is left is not done.                        *)
Fail(c) ==
  /\ c \in InFlight
  /\ failures < MaxFailures
  /\ failures' = failures + 1
  /\ crossed' = crossed \cup LeftBehind(c)
  /\ Done(c)
  /\ UNCHANGED <<data, version, entry, tag>>

(* The process ends and its hooks and logs with it; the cache stays.       *)
Restart(r) ==
  /\ failures < MaxFailures
  /\ failures' = failures + 1
  /\ LET dying == {c \in InFlight : call[c].at = r} IN
     /\ call' = [c \in Calls |-> IF c \in dying THEN NoCall ELSE call[c]]
     /\ crossed' = crossed \cup {k \in Keys : \/ \E c \in dying : k \in LeftBehind(c)
                                             \/ k \in OutOfReach(r, k.route, Shelves)}
  /\ data' = [data EXCEPT ![r] = [route \in Routes |-> Empty]]
  /\ UNCHANGED <<version, entry, tag>>

CacheNext ==
  \/ \E c \in Calls :
       \/ \E r \in Replicas, k \in Keys : Miss(c, r, k)
       \/ Load(c) \/ Set(c) \/ Register(c)
       \/ \E r \in Replicas : Change(c, r) \/ (\E s \in Shelves : Dispatch(c, r, s))
       \/ Members(c) \/ DeleteTag(c)
       \/ \E k \in Keys : Delete(c, k)
       \/ Fail(c)
  \/ \E r \in Replicas : Delivered(r) \/ Restart(r)
  \/ \E k \in Keys : EntryExpires(k)

CacheSpec == CacheInit /\ [][CacheNext]_cacheVars

-----------------------------------------------------------------------------
(* Properties                                                              *)

Busy ==
  Tagging \cup {k \in Keys : \E c \in InFlight :
                   call[c].pc \in {"members", "delete"} /\ call[c].key.shelf = k.shelf}

(* "Coherence" (docs/CACHE-INVALIDATION.md): outside of fills and          *)
(* invalidations a cached response is one that some replica would give now *)
(* (not always the one that is asked: the hooks are in each one's memory). *)
(* Excepted are responses that a fill and an invalidation raced for, those *)
(* whose data a delivery worker or a restart changed, and those filed      *)
(* under a header that names another organization than the query.          *)
SettledIsFresh ==
  \A k \in Keys : entry[k] # NoEntry => Current(k.route, entry[k]) \/ k \in Busy \cup crossed

(* "Invalidation is driven by the tag index" (docs/CACHE-INVALIDATION.md): *)
(* a cached response that the index of its organization does not hold is   *)
(* out of the reach of every later invalidation; only races leave one.     *)
SettledIsTagged ==
  \A k \in Keys : entry[k] # NoEntry => k \in tag \cup Busy \cup crossed

(* A settled response is fresh, and an invalidation would reach it.        *)
SettledIsCoherent == SettledIsFresh /\ SettledIsTagged

=============================================================================
