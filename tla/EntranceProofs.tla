--------------------------- MODULE EntranceProofs ---------------------------
(***************************************************************************)
(* The way of a request into the backend: the guards in front of its       *)
(* handler, the API keys and the rate limiter; and that of a user into an  *)
(* account: second factors, and the ways to sign in under single sign-on.  *)
(***************************************************************************)
EXTENDS SlidingWindow, Gateway, ApiKeys, SsoLogin, FiniteSetTheorems, TLAPS

-----------------------------------------------------------------------------
(* The guards: what the middlewares have established about a request by    *)
(* the time each of them passes it on, for any number of requests.  A      *)
(* check is made once and its answer used later; what keeps it true is     *)
(* that revocations are never taken back, and that the history variable    *)
(* excused records a policy that turns.                                    *)

Stages == {"limiter", "token", "verify", "policy", "grants", "guards", "handler"}
Waiting == [pc : Stages, req : Arrivals, revoked : BOOLEAN, excused : BOOLEAN]

WorldTyped ==
  /\ second \in Nat \ {0} /\ issuedAt \in Nat /\ epoch \in Nat /\ epoch <= second
  /\ logoutSeen \in BOOLEAN /\ blocking \in BOOLEAN
  /\ passage \in [Passages -> Waiting \cup {Away}]

ByOperator(x) ==
  x.req.mount \in OperatorMounts /\ x.req.bearer = OperatorToken[x.req.mount]

(* Behind the token check the token was not revoked on arrival.            *)
Authentic(x) == x.req.bearer = "access" /\ ~x.revoked
Allowed(x) == x.excused \/ ExemptFromMfa(x.req.mount)

(* What holds of a request that waits at its stage, when its token is      *)
(* revoked by now (or not) and the policy blocks the user (or not).        *)
Established(x, gone, blocked) ==
  /\ x.revoked => gone
  /\ ~blocked => x.excused
  /\ x.pc \in {"token", "verify", "policy", "grants", "guards"} =>
       x.req.mount \in DOMAIN MinimumRole
  /\ x.pc \in {"verify", "policy", "grants", "guards"} => Authentic(x)
  /\ x.pc \in {"grants", "guards"} => Allowed(x)
  /\ x.pc = "handler" =>
       \/ ByOperator(x)
       \/ /\ x.req.mount \in DOMAIN MinimumRole
          /\ Authentic(x) /\ Allowed(x) /\ HintAgrees(x.req) /\ RoleSuffices(x.req)

AllEstablished == \A p \in Passages : passage[p].pc # "away" => Established(passage[p], Revoked, blocking)

GatewayInv == WorldTyped /\ AllEstablished

-----------------------------------------------------------------------------

LEMMA WaitingIsNotAway ==
  /\ \A x \in Waiting : x.pc # "away"
  /\ Away.pc = "away"
BY DEF Waiting, Stages, Away

LEMMA WaitingWhere ==
  ASSUME WorldTyped, NEW p \in Passages, passage[p].pc # "away"
  PROVE  passage[p] \in Waiting
BY DEF WorldTyped, Away

(* A request that leaves leaves nothing behind.                            *)
LEMMA LeaveStep ==
  ASSUME GatewayInv, NEW p \in Passages, Leave(p), unchangedWorld
  PROVE  GatewayInv'
<1>1. WorldTyped'
  BY DEF GatewayInv, WorldTyped, Leave, unchangedWorld
<1>2. \A q \in Passages \ {p} : passage'[q] = passage[q]
  BY DEF GatewayInv, WorldTyped, Leave
<1>3. passage'[p].pc = "away"
  BY WaitingIsNotAway DEF GatewayInv, WorldTyped, Leave
<1>4. Revoked' = Revoked /\ blocking' = blocking
  BY DEF Revoked, unchangedWorld
<1>5. \A q \in Passages \ {p} :
        passage'[q].pc # "away" => Established(passage'[q], Revoked, blocking)
  BY <1>2 DEF GatewayInv, AllEstablished
<1> QED BY <1>1, <1>3, <1>4, <1>5 DEF GatewayInv, AllEstablished

(* A request that is passed on to a stage keeps its other fields, and only *)
(* it has to be looked at.                                                 *)
LEMMA PassStep ==
  ASSUME GatewayInv, NEW p \in Passages, NEW y \in Waiting,
         passage' = [passage EXCEPT ![p] = y], unchangedWorld, Established(y, Revoked, blocking)
  PROVE  GatewayInv'
<1>1. WorldTyped'
  BY DEF GatewayInv, WorldTyped, unchangedWorld
<1>2. \A q \in Passages \ {p} : passage'[q] = passage[q]
  BY DEF GatewayInv, WorldTyped
<1>3. passage'[p] = y
  BY DEF GatewayInv, WorldTyped
<1>4. Revoked' = Revoked /\ blocking' = blocking
  BY DEF Revoked, unchangedWorld
<1>5. \A q \in Passages \ {p} :
        passage'[q].pc # "away" => Established(passage'[q], Revoked, blocking)
  BY <1>2 DEF GatewayInv, AllEstablished
<1> QED BY <1>1, <1>3, <1>4, <1>5 DEF GatewayInv, AllEstablished

LEMMA ArriveStep ==
  ASSUME GatewayInv, NEW p \in Passages, NEW r \in Arrivals, Arrive(p, r)
  PROVE  GatewayInv'
<1> DEFINE y == [pc |-> "limiter", req |-> r, revoked |-> Revoked, excused |-> ~blocking]
<1>1. Revoked \in BOOLEAN /\ blocking \in BOOLEAN
  BY DEF GatewayInv, WorldTyped, Revoked
<1>2. y \in Waiting
  BY <1>1 DEF Waiting, Stages
<1>3. Established(y, Revoked, blocking)
  BY <1>1 DEF Established
<1>4. passage' = [passage EXCEPT ![p] = y] /\ unchangedWorld
  BY DEF Arrive
<1> QED BY <1>2, <1>3, <1>4, PassStep

(* One case per stage a request may be passed on from.                     *)
LEMMA StageStep ==
  ASSUME GatewayInv, NEW p \in Passages, passage[p].pc # "away",
         NEW to \in Stages, passage' = [passage EXCEPT ![p].pc = to], unchangedWorld,
         Established([passage[p] EXCEPT !.pc = to], Revoked, blocking)
  PROVE  GatewayInv'
<1>1. passage[p] \in Waiting
  BY WaitingWhere DEF GatewayInv
<1>2. [passage[p] EXCEPT !.pc = to] \in Waiting
  BY <1>1 DEF Waiting
<1>3. passage' = [passage EXCEPT ![p] = [passage[p] EXCEPT !.pc = to]]
  OBVIOUS
<1> QED BY <1>2, <1>3, PassStep

LEMMA PassedOn ==
  ASSUME GatewayInv, NEW p \in Passages, PassageStep(p)
  PROVE  GatewayInv'
<1> DEFINE x == passage[p]
<1>1. CASE \E r \in Arrivals : Arrive(p, r)
  BY <1>1, ArriveStep
<1>2. CASE Leave(p) /\ unchangedWorld
  BY <1>2, LeaveStep
<1>3. CASE Routed(p)
  <2>1. x.pc # "away" /\ x \in Waiting /\ Established(x, Revoked, blocking)
    BY <1>3, WaitingWhere DEF GatewayInv, AllEstablished, Routed
  <2>2. Established([x EXCEPT !.pc = "token"], Revoked, blocking)
    BY <1>3, <2>1 DEF Established, Routed, Waiting
  <2> QED BY <1>3, <2>1, <2>2, StageStep DEF Routed, Stages
<1>4. CASE OperatorRoute(p) /\ ~Leave(p)
  <2>1. /\ x.pc # "away" /\ x.req.mount \in OperatorMounts
        /\ x.req.bearer = OperatorToken[x.req.mount]
        /\ passage' = [passage EXCEPT ![p].pc = "handler"] /\ unchangedWorld
    BY <1>4 DEF OperatorRoute
  <2>2. x \in Waiting /\ Established(x, Revoked, blocking)
    BY <2>1, WaitingWhere DEF GatewayInv, AllEstablished
  <2>3. Established([x EXCEPT !.pc = "handler"], Revoked, blocking)
    BY <2>1, <2>2 DEF Established, ByOperator, Waiting
  <2> QED BY <2>1, <2>3, StageStep DEF Stages
<1>5. CASE CheckRevoked(p) /\ ~Leave(p)
  <2>1. /\ x.pc = "token" /\ x.req.bearer = "access" /\ ~Revoked
        /\ passage' = [passage EXCEPT ![p].pc = "verify"] /\ unchangedWorld
    BY <1>5 DEF CheckRevoked
  <2>2. x.pc # "away" /\ x \in Waiting /\ Established(x, Revoked, blocking)
    BY <2>1, WaitingWhere DEF GatewayInv, AllEstablished
  <2>3. Established([x EXCEPT !.pc = "verify"], Revoked, blocking)
    BY <2>1, <2>2 DEF Established, Authentic, Waiting
  <2> QED BY <2>1, <2>2, <2>3, StageStep DEF Stages
<1>6. CASE Verify(p) /\ ~Leave(p)
  <2>1. /\ x.pc = "verify" /\ unchangedWorld
        /\ \/ ExemptFromMfa(x.req.mount) /\ passage' = [passage EXCEPT ![p].pc = "guards"]
           \/ passage' = [passage EXCEPT ![p].pc = "policy"]
    BY <1>6 DEF Verify
  <2>2. x.pc # "away" /\ x \in Waiting /\ Established(x, Revoked, blocking)
    BY <2>1, WaitingWhere DEF GatewayInv, AllEstablished
  <2>3. /\ ExemptFromMfa(x.req.mount) => Established([x EXCEPT !.pc = "guards"], Revoked, blocking)
        /\ Established([x EXCEPT !.pc = "policy"], Revoked, blocking)
    BY <2>1, <2>2 DEF Established, Authentic, Allowed, Waiting
  <2> QED BY <2>1, <2>2, <2>3, StageStep DEF Stages
<1>7. CASE EnforceMfa(p) /\ ~Leave(p)
  <2>1. /\ x.pc = "policy" /\ ~blocking /\ unchangedWorld
        /\ \/ passage' = [passage EXCEPT ![p].pc = "grants"]
           \/ passage' = [passage EXCEPT ![p].pc = "guards"]
    BY <1>7 DEF EnforceMfa
  <2>2. x.pc # "away" /\ x \in Waiting /\ Established(x, Revoked, blocking)
    BY <2>1, WaitingWhere DEF GatewayInv, AllEstablished
  <2>3. /\ Established([x EXCEPT !.pc = "guards"], Revoked, blocking)
        /\ Established([x EXCEPT !.pc = "grants"], Revoked, blocking)
    BY <2>1, <2>2 DEF Established, Authentic, Allowed, Waiting
  <2> QED BY <2>1, <2>2, <2>3, StageStep DEF Stages
<1>8. CASE LoadGrants(p)
  <2>1. /\ x.pc = "grants" /\ unchangedWorld
        /\ passage' = [passage EXCEPT ![p].pc = "guards"]
    BY <1>8 DEF LoadGrants
  <2>2. x.pc # "away" /\ x \in Waiting /\ Established(x, Revoked, blocking)
    BY <2>1, WaitingWhere DEF GatewayInv, AllEstablished
  <2>3. Established([x EXCEPT !.pc = "guards"], Revoked, blocking)
    BY <2>1, <2>2 DEF Established, Authentic, Allowed, Waiting
  <2> QED BY <2>1, <2>2, <2>3, StageStep DEF Stages
<1>9. CASE Guards(p) /\ ~Leave(p)
  <2>1. /\ x.pc = "guards" /\ HintAgrees(x.req) /\ RoleSuffices(x.req) /\ unchangedWorld
        /\ passage' = [passage EXCEPT ![p].pc = "handler"]
    BY <1>9 DEF Guards
  <2>2. x.pc # "away" /\ x \in Waiting /\ Established(x, Revoked, blocking)
    BY <2>1, WaitingWhere DEF GatewayInv, AllEstablished
  <2>3. Established([x EXCEPT !.pc = "handler"], Revoked, blocking)
    BY <2>1, <2>2 DEF Established, Authentic, Allowed, Waiting
  <2> QED BY <2>1, <2>2, <2>3, StageStep DEF Stages
<1> QED BY <1>1, <1>2, <1>3, <1>4, <1>5, <1>6, <1>7, <1>8, <1>9
        DEF PassageStep, Limited, OperatorRoute, CheckRevoked, Verify, EnforceMfa,
            Guards, Handled

(* A revocation only adds to what is revoked, so that what was revoked on  *)
(* arrival still is when the token is checked.                             *)
LEMMA RevocationStep ==
  ASSUME GatewayInv, RevokeAll \/ Logout \/ Second \/ UNCHANGED gatewayVars
  PROVE  GatewayInv'
<1>1. UNCHANGED <<passage, blocking, issuedAt>>
  BY DEF RevokeAll, Logout, Second, gatewayVars
<1>2. /\ second' \in Nat \ {0} /\ epoch' \in Nat /\ epoch' <= second'
  BY DEF GatewayInv, WorldTyped, RevokeAll, Logout, Second, gatewayVars
<1>3. logoutSeen' \in BOOLEAN
  BY DEF GatewayInv, WorldTyped, RevokeAll, Logout, Second, gatewayVars
<1>4. WorldTyped'
  BY <1>1, <1>2, <1>3 DEF GatewayInv, WorldTyped
<1>5. Revoked => Revoked'
  BY DEF GatewayInv, WorldTyped, Revoked, RevokeAll, Logout, Second, gatewayVars
<1>6. \A x \in Waiting : Established(x, Revoked, blocking) => Established(x, Revoked', blocking)
  BY <1>5 DEF Established
<1> QED BY <1>1, <1>4, <1>6, WaitingWhere DEF GatewayInv, AllEstablished

LEMMA PolicyStep ==
  ASSUME GatewayInv, PolicyTurns
  PROVE  GatewayInv'
<1>1. \A p \in Passages : passage[p].pc # "away" =>
        /\ [passage[p] EXCEPT !.excused = TRUE] \in Waiting
        /\ Established([passage[p] EXCEPT !.excused = TRUE], Revoked, ~blocking)
  <2> SUFFICES ASSUME NEW p \in Passages, passage[p].pc # "away"
               PROVE  /\ [passage[p] EXCEPT !.excused = TRUE] \in Waiting
                      /\ Established([passage[p] EXCEPT !.excused = TRUE], Revoked, ~blocking)
    OBVIOUS
  <2>1. passage[p] \in Waiting /\ Established(passage[p], Revoked, blocking)
    BY WaitingWhere DEF GatewayInv, AllEstablished
  <2> DEFINE y == [passage[p] EXCEPT !.excused = TRUE]
  <2>3. /\ y \in Waiting /\ y.excused
        /\ y.pc = passage[p].pc /\ y.req = passage[p].req /\ y.revoked = passage[p].revoked
    BY <2>1 DEF Waiting
  <2> HIDE DEF y
  <2>4. Established(y, Revoked, ~blocking)
    BY <2>1, <2>3 DEF Established, ByOperator, Authentic, Allowed
  <2> QED BY <2>3, <2>4 DEF y
<1>2. \A p \in Passages :
        passage'[p] = IF passage[p].pc = "away" THEN Away
                      ELSE [passage[p] EXCEPT !.excused = TRUE]
  BY DEF PolicyTurns
<1>3. WorldTyped'
  BY <1>1, <1>2 DEF GatewayInv, WorldTyped, PolicyTurns
<1>4. Revoked' = Revoked /\ blocking' = ~blocking
  BY DEF PolicyTurns, Revoked
<1> QED BY <1>1, <1>2, <1>3, <1>4, WaitingIsNotAway DEF GatewayInv, AllEstablished

LEMMA GatewayStart == GatewayInit => GatewayInv
<1> SUFFICES ASSUME GatewayInit PROVE GatewayInv
  OBVIOUS
<1>1. second = 1 /\ issuedAt = 1 /\ epoch = 0
  BY DEF GatewayInit
<1>2. logoutSeen \in BOOLEAN /\ blocking \in BOOLEAN
  BY DEF GatewayInit
<1>3. \A p \in Passages : passage[p] = Away
  BY DEF GatewayInit
<1>4. passage \in [Passages -> Waiting \cup {Away}]
  BY DEF GatewayInit
<1> QED BY <1>1, <1>2, <1>3, <1>4, WaitingIsNotAway DEF GatewayInv, WorldTyped, AllEstablished

LEMMA GatewayKeeps == GatewayInv /\ [GatewayNext]_gatewayVars => GatewayInv'
BY PassedOn, RevocationStep, PolicyStep DEF GatewayNext

(* What the stages established is what a handler may rely on: the ranks    *)
(* of the mounts, spelled out.                                             *)
LEMMA RanksSuffice ==
  ASSUME NEW r \in Arrivals, r.mount \in DOMAIN MinimumRole, RoleSuffices(r)
  PROVE  /\ r.mount = "departments" => r.role \in {"org_admin", "account_admin"}
         /\ r.mount = "users" => r.role # "dept_user"
         /\ r.mount \notin {"departments", "users"} => r.role = "org_admin"
<1>1. /\ r.role \in {"org_admin", "account_admin", "dept_manager", "dept_user"}
      /\ r.mount \in {"mfa_policy", "organization", "roles", "departments", "users"}
  BY DEF Arrivals, Rank, MinimumRole
<1>2. /\ Rank["org_admin"] = 40 /\ Rank["account_admin"] = 30
      /\ Rank["dept_manager"] = 20 /\ Rank["dept_user"] = 10
  BY DEF Rank
<1>3. /\ MinimumRole["mfa_policy"] = "org_admin" /\ MinimumRole["organization"] = "org_admin"
      /\ MinimumRole["roles"] = "org_admin" /\ MinimumRole["departments"] = "account_admin"
      /\ MinimumRole["users"] = "dept_manager"
  BY DEF MinimumRole
<1>4. Rank[r.role] >= Rank[MinimumRole[r.mount]]
  BY DEF RoleSuffices
<1> QED BY <1>1, <1>2, <1>3, <1>4

(* However many requests are under way, and whenever tokens are revoked,   *)
(* the policy turns and time passes between their steps, a handler runs    *)
(* only for a request that every guard before it let through.              *)
THEOREM HandlersAreGuarded == GatewaySpec => []HandledMeansAllowed
<1>1. GatewayInv => HandledMeansAllowed
  <2> SUFFICES ASSUME GatewayInv, NEW p \in Passages, passage[p].pc = "handler"
               PROVE  LET r == passage[p].req
                      IN \/ r.mount \in OperatorMounts /\ r.bearer = OperatorToken[r.mount]
                         \/ /\ r.bearer = "access" /\ ~passage[p].revoked /\ r.hint # "other"
                            /\ r.mount \in {"departments"} => r.role \in {"org_admin", "account_admin"}
                            /\ r.mount = "users" => r.role # "dept_user"
                            /\ r.mount \notin {"departments", "users"} => r.role = "org_admin"
                            /\ passage[p].excused \/ r.mount = "mfa_policy"
    BY DEF HandledMeansAllowed
  <2>1. passage[p] \in Waiting /\ Established(passage[p], Revoked, blocking) /\ passage[p].req \in Arrivals
    BY WaitingWhere DEF GatewayInv, AllEstablished, Waiting
  <2>2. CASE ByOperator(passage[p])
    BY <2>2 DEF ByOperator
  <2>3. CASE ~ByOperator(passage[p])
    BY <2>1, <2>3, RanksSuffice DEF Established, Authentic, Allowed, HintAgrees, ExemptFromMfa
  <2> QED BY <2>2, <2>3
<1> QED BY <1>1, GatewayStart, GatewayKeeps, PTL DEF GatewaySpec

-----------------------------------------------------------------------------
(* An API key under any number of overlapping updates and rotations.  The  *)
(* secrets that rotations in progress have made are new and all different, *)
(* so a replaced secret can never be written again, by however old a read. *)

ChangesTyped(c) ==
  /\ DOMAIN c \subseteq {"active", "secret", "permissions", "expires"}
  /\ "active" \in DOMAIN c => c["active"] \in BOOLEAN
  /\ "secret" \in DOMAIN c => c["secret"] \in Nat
  /\ "permissions" \in DOMAIN c => c["permissions"] \in SUBSET Permissions
  /\ "expires" \in DOMAIN c => c["expires"] \in Expiries

KeyTyped ==
  /\ key \in KeyDocuments
  /\ issued \in Nat /\ dead \in SUBSET Nat
  /\ request = [q \in Requests |-> request[q]]
  /\ \A q \in Requests : request[q].pc = "saving" =>
       request[q].read \in KeyDocuments /\ ChangesTyped(request[q].changes)

Rotating(r) == r.pc = "saving" /\ "secret" \in DOMAIN r.changes

(* The secret in use was handed out and never replaced, and neither were   *)
(* those about to be saved, which are different from it and each other.    *)
SecretsAreFresh ==
  /\ key.secret <= issued /\ key.secret \notin dead
  /\ \A s \in dead : s <= issued
  /\ \A q \in Requests : Rotating(request[q]) =>
       LET s == request[q].changes["secret"] IN
       /\ s <= issued /\ s \notin dead /\ s # key.secret
       /\ \A p \in Requests \ {q} : Rotating(request[p]) => request[p].changes["secret"] # s

KeyInv == KeyTyped /\ SecretsAreFresh

-----------------------------------------------------------------------------

LEMMA KeyInitInv == KeyInit => KeyInv
BY DEF KeyInit, KeyInv, KeyTyped, SecretsAreFresh, Rotating, NoKey, Resting, KeyDocuments, Expiries

LEMMA RestingIsNot == Resting.pc # "saving" /\ ~Rotating(Resting)
BY DEF Resting, Rotating

LEMMA CreateStep ==
  ASSUME KeyInv, NEW q \in Requests, NEW p \in SUBSET Permissions, NEW e \in Expiries,
         Create(q, p, e)
  PROVE  KeyInv'
<1>1. /\ issued' = issued + 1 /\ request' = request /\ dead' = dead
      /\ key' \in KeyDocuments /\ key'.secret = issued + 1
  BY DEF KeyInv, KeyTyped, Create, KeyDocuments
<1>2. KeyTyped'
  BY <1>1 DEF KeyInv, KeyTyped
<1>3. SecretsAreFresh'
  <2>1. \A x \in Requests : Rotating(request[x]) => request[x].changes["secret"] \in Nat
    BY DEF KeyInv, KeyTyped, Rotating, ChangesTyped
  <2> QED BY <1>1, <2>1 DEF KeyInv, KeyTyped, SecretsAreFresh
<1> QED BY <1>2, <1>3 DEF KeyInv

LEMMA LoadUpdate ==
  ASSUME KeyInv, NEW q \in Requests, NEW c, ChangesTyped(c), "secret" \notin DOMAIN c,
         Update(q, c)
  PROVE  KeyInv'
<1> DEFINE r == [pc |-> "saving", read |-> key, changes |-> c, kind |-> "update"]
<1>1. /\ UNCHANGED <<key, issued, dead>>
      /\ request' = [request EXCEPT ![q] = r]
  BY DEF Update, Load
<1>2. r.pc = "saving" /\ r.read = key /\ r.changes = c /\ ~Rotating(r)
  BY DEF Rotating
<1> HIDE DEF r
<1>3. /\ request'[q] = r /\ \A x \in Requests \ {q} : request'[x] = request[x]
      /\ request' = [x \in Requests |-> request'[x]]
  BY <1>1 DEF KeyInv, KeyTyped
<1> QED BY <1>1, <1>2, <1>3 DEF KeyInv, KeyTyped, SecretsAreFresh

LEMMA LoadRotate ==
  ASSUME KeyInv, NEW q \in Requests, Rotate(q)
  PROVE  KeyInv'
<1> DEFINE c == [f \in {"secret", "active"} |-> IF f = "secret" THEN issued + 1 ELSE TRUE]
           r == [pc |-> "saving", read |-> key, changes |-> c, kind |-> "rotate"]
<1>1. /\ key' = key /\ dead' = dead /\ issued' = issued + 1
      /\ request' = [request EXCEPT ![q] = r]
  BY DEF Rotate, Load
<1>2. ChangesTyped(c) /\ c["secret"] = issued + 1 /\ "secret" \in DOMAIN c
  BY DEF ChangesTyped, KeyInv, KeyTyped
<1> HIDE DEF c
<1>3. r.pc = "saving" /\ r.read = key /\ r.changes = c
  OBVIOUS
<1> HIDE DEF r
<1>4. /\ request'[q] = r /\ \A x \in Requests \ {q} : request'[x] = request[x]
      /\ request' = [x \in Requests |-> request'[x]]
  BY <1>1 DEF KeyInv, KeyTyped
<1>5. KeyTyped'
  BY <1>1, <1>2, <1>3, <1>4 DEF KeyInv, KeyTyped
<1>6. SecretsAreFresh'
  <2>1. /\ key.secret \in Nat /\ issued \in Nat
        /\ \A x \in Requests : Rotating(request[x]) => request[x].changes["secret"] \in Nat
    BY DEF KeyInv, KeyTyped, KeyDocuments, Rotating, ChangesTyped
  <2> QED BY <1>1, <1>2, <1>3, <1>4, <2>1 DEF KeyInv, KeyTyped, SecretsAreFresh, Rotating
<1> QED BY <1>5, <1>6 DEF KeyInv

(* What a save leaves in the document.                                     *)
LEMMA Saved ==
  ASSUME KeyInv, NEW q \in Requests, Save(q)
  PROVE  /\ key' \in KeyDocuments
         /\ key'.secret # key.secret =>
              /\ Rotating(request[q]) /\ key'.secret = request[q].changes["secret"]
              /\ dead' = dead \cup {key.secret}
         /\ key'.secret = key.secret => dead' = dead
         /\ ~key.active /\ key'.active => ~request[q].read.active
<1> DEFINE read == request[q].read
           changes == request[q].changes
           written == Written(read, changes)
<1>1. read \in KeyDocuments /\ ChangesTyped(changes) /\ key \in KeyDocuments
  BY DEF Save, KeyInv, KeyTyped
<1>2. /\ DOMAIN written = {f \in DOMAIN changes : changes[f] # read[f]}
      /\ \A f \in DOMAIN written : written[f] = changes[f] /\ f \in DOMAIN changes
  BY DEF Written, Restrict
<1>3. CASE UNCHANGED <<key, dead>>
  BY <1>1, <1>3
<1>4. CASE /\ key' = [f \in DOMAIN key |->
                CASE f \in DOMAIN written -> written[f]
                  [] f = "version" /\ "permissions" \in DOMAIN written -> key.version + 1
                  [] OTHER -> key[f]]
           /\ dead' = IF key'.secret # key.secret THEN dead \cup {key.secret} ELSE dead
  <2> HIDE DEF written, changes, read
  <2>0. DOMAIN key = {"active", "secret", "permissions", "expires", "version"}
    BY <1>1 DEF KeyDocuments
  <2>1. key'.active = IF "active" \in DOMAIN written THEN changes["active"] ELSE key.active
    BY <1>2, <1>4, <2>0
  <2>2. key'.secret = IF "secret" \in DOMAIN written THEN changes["secret"] ELSE key.secret
    BY <1>2, <1>4, <2>0
  <2>3. key'.permissions = IF "permissions" \in DOMAIN written THEN changes["permissions"]
                           ELSE key.permissions
    BY <1>2, <1>4, <2>0
  <2>4. key'.expires = IF "expires" \in DOMAIN written THEN changes["expires"] ELSE key.expires
    BY <1>2, <1>4, <2>0
  <2>5. key'.version = IF "permissions" \in DOMAIN written THEN key.version + 1 ELSE key.version
    <3>1. "version" \notin DOMAIN written
      BY <1>1, <1>2 DEF ChangesTyped
    <3> QED BY <1>4, <2>0, <3>1
  <2>6. key' = [active |-> key'.active, secret |-> key'.secret, permissions |-> key'.permissions,
                expires |-> key'.expires, version |-> key'.version]
    <3>1. key' = [f \in {"active", "secret", "permissions", "expires", "version"} |-> key'[f]]
      BY <1>4, <2>0
    <3> QED BY <3>1
  <2>7. key' \in KeyDocuments
    <3>1. /\ key'.active \in BOOLEAN /\ key'.secret \in Nat
          /\ key'.permissions \in SUBSET Permissions /\ key'.expires \in Expiries
          /\ key'.version \in Nat
      BY <1>1, <1>2, <2>1, <2>2, <2>3, <2>4, <2>5 DEF KeyDocuments, ChangesTyped
    <3> QED BY <2>6, <3>1 DEF KeyDocuments
  <2>8. ~key.active /\ key'.active => ~read.active
    BY <1>1, <1>2, <2>1 DEF KeyDocuments, ChangesTyped
  <2>9. key'.secret # key.secret => Rotating(request[q]) /\ key'.secret = changes["secret"]
    BY <1>2, <2>2 DEF Save, Rotating, changes
  <2> QED BY <1>4, <2>7, <2>8, <2>9 DEF read, changes
<1> QED BY <1>3, <1>4 DEF Save

LEMMA SaveStep ==
  ASSUME KeyInv, NEW q \in Requests, Save(q)
  PROVE  KeyInv'
<1>1. request' = [request EXCEPT ![q] = Resting] /\ issued' = issued
  BY DEF Save
<1>2. /\ request'[q] = Resting /\ \A x \in Requests \ {q} : request'[x] = request[x]
      /\ request' = [x \in Requests |-> request'[x]]
  BY <1>1 DEF KeyInv, KeyTyped
<1>3. key \in KeyDocuments /\ key' \in KeyDocuments /\ dead' \in SUBSET Nat
  BY Saved DEF KeyInv, KeyTyped, KeyDocuments
<1>4. KeyTyped'
  BY <1>1, <1>2, <1>3, RestingIsNot DEF KeyInv, KeyTyped
<1>5. SecretsAreFresh'
  <2>1. CASE key'.secret = key.secret
    BY <1>1, <1>2, <2>1, Saved, RestingIsNot DEF KeyInv, SecretsAreFresh
  <2>2. CASE key'.secret # key.secret
    BY <1>1, <1>2, <2>2, Saved, RestingIsNot DEF KeyInv, SecretsAreFresh
  <2> QED BY <2>1, <2>2
<1> QED BY <1>4, <1>5 DEF KeyInv

LEMMA KeyNextInv == KeyInv /\ [KeyNext]_keyVars => KeyInv'
<1> SUFFICES ASSUME KeyInv, [KeyNext]_keyVars PROVE KeyInv'
  OBVIOUS
<1>1. CASE UNCHANGED keyVars
  BY <1>1 DEF keyVars, KeyInv, KeyTyped, SecretsAreFresh
<1>2. ASSUME NEW q \in Requests, PostKey(q) PROVE KeyInv'
  BY <1>2, CreateStep DEF PostKey
<1>3. ASSUME NEW q \in Requests, PatchKey(q) PROVE KeyInv'
  <2>1. \A b \in Bodies : ChangesTyped(b) /\ "secret" \notin DOMAIN b
    BY BodiesAssumption DEF BodyAllowed, ChangesTyped
  <2> QED BY <1>3, <2>1, LoadUpdate DEF PatchKey
<1>4. ASSUME NEW q \in Requests, DeleteKey(q) PROVE KeyInv'
  <2> DEFINE c == [f \in {"active"} |-> FALSE]
  <2>1. ChangesTyped(c) /\ "secret" \notin DOMAIN c
    BY DEF ChangesTyped
  <2>2. Update(q, c)
    BY <1>4 DEF DeleteKey, Revoke
  <2> QED BY <2>1, <2>2, LoadUpdate
<1>5. ASSUME NEW q \in Requests, PostRotate(q) PROVE KeyInv'
  BY <1>5, LoadRotate DEF PostRotate
<1>6. ASSUME NEW q \in Requests, Save(q) PROVE KeyInv'
  BY <1>6, SaveStep
<1>7. CASE Expire
  <2>1. key' \in KeyDocuments /\ key'.secret = key.secret /\ UNCHANGED <<request, issued, dead>>
    BY <1>7 DEF Expire, KeyInv, KeyTyped, KeyDocuments, Expiries
  <2> QED BY <2>1 DEF KeyInv, KeyTyped, SecretsAreFresh
<1> QED BY <1>1, <1>2, <1>3, <1>4, <1>5, <1>6, <1>7 DEF KeyNext, KeyStep

-----------------------------------------------------------------------------

(* A revocation stands against every request that was under way, and a     *)
(* replaced secret never opens the door again.                             *)
THEOREM RevocationHolds == KeySpec => RevokedStaysRevoked
<1>1. KeyInv /\ KeyInv' /\ [KeyNext]_keyVars =>
        [/\ Exists /\ ~key.active /\ key'.active =>
              \E q \in Requests : /\ request[q].pc = "saving" /\ request'[q].pc = "resting"
                                  /\ ~request[q].read.active
         /\ \A s \in dead : ~Authenticates(s)']_keyVars
  <2> SUFFICES ASSUME KeyInv, KeyInv', KeyNext
               PROVE  /\ Exists /\ ~key.active /\ key'.active =>
                           \E q \in Requests : /\ request[q].pc = "saving"
                                               /\ request'[q].pc = "resting"
                                               /\ ~request[q].read.active
                      /\ \A s \in dead : ~Authenticates(s)'
    OBVIOUS
  <2>1. ASSUME Exists, ~key.active, key'.active
        PROVE  \E q \in Requests : /\ request[q].pc = "saving" /\ request'[q].pc = "resting"
                                   /\ ~request[q].read.active
    <3>1. ~Expire
      BY <2>1 DEF Expire, KeyInv, KeyTyped, KeyDocuments
    <3>2. PICK q \in Requests : Save(q)
      BY <2>1, <3>1 DEF KeyNext, KeyStep, PostKey, Create, PatchKey, DeleteKey, Revoke, Update,
                        PostRotate, Rotate
    <3>3. request[q].pc = "saving" /\ request'[q] = Resting
      BY <3>2 DEF Save, KeyInv, KeyTyped
    <3> QED BY <2>1, <3>2, <3>3, Saved DEF Resting
  <2>2. dead \subseteq dead'
    BY Saved DEF KeyNext, KeyStep, PostKey, Create, PatchKey, DeleteKey, Revoke, Update,
                 PostRotate, Rotate, Expire
  <2>3. \A s \in dead : ~Authenticates(s)'
    BY <2>2 DEF KeyInv, SecretsAreFresh, Authenticates
  <2> QED BY <2>1, <2>3
<1> QED BY <1>1, KeyInitInv, KeyNextInv, PTL DEF KeySpec, RevokedStaysRevoked

-----------------------------------------------------------------------------
(* Enrolment.  A handler that nobody wrote beside knows the document as it *)
(* is in all that its write depends on: that no factor is asked for yet,   *)
(* that the secret is the one whose code it has seen, or the document      *)
(* itself.  So only a write after a stale read can break the document.     *)

EnrolPcs == {"setup", "enable", "codes", "backup", "disable", "sms", "sms_off"}
RemindPcs == {"remind", "mail", "mark"}

Enrols(x) ==
  /\ x.pc \in EnrolPcs
  /\ x \in [pc : {x.pc}, saw : {x.saw}, token : {x.token}, stale : {x.stale}]

Reminds(x) ==
  /\ x.pc \in RemindPcs /\ x.day \in Days
  /\ x \in [pc : {x.pc}, day : {x.day}, stale : {x.stale}]

Document(m) ==
  m \in [enabled : {m.enabled}, secret : {m.secret}, pending : {m.pending}, sms : {m.sms},
         codes : {m.codes}]

CallsTyped ==
  /\ call = [c \in Handlers |-> call[c]]
  /\ \A c \in Handlers : call[c] = NoHandler \/ Enrols(call[c]) \/ Reminds(call[c])

(* What a request that nobody wrote beside still knows.                    *)
Knows(x, m, shown) ==
  Enrols(x) /\ ~x.stale =>
    /\ x.pc = "setup" => ~m.enabled
    /\ x.pc \in {"enable", "codes"} => x.token[2] = m.secret
    /\ x.pc = "enable" => m.secret \in shown
    /\ x.pc = "sms_off" => x.saw = m

FactorsInv ==
  /\ CallsTyped /\ Document(mfa)
  /\ \A c \in Handlers : Knows(call[c], mfa, confirmed)
  /\ FactorsAreWhole

(* Reminders that are going out are those that were, where they were.      *)
JobsKeep ==
  \A d \in Handlers : Reminds(call[d]) \/ Reminds(call[d])' =>
     /\ Reminds(call[d]) /\ Reminds(call[d])'
     /\ call'[d].pc = call[d].pc /\ call'[d].day = call[d].day

LEMMA IdleIsNeither == ~Enrols(NoHandler) /\ ~Reminds(NoHandler)
BY DEF Enrols, Reminds, EnrolPcs, RemindPcs, NoHandler

LEMMA Apart == \A x : ~(Enrols(x) /\ Reminds(x))
BY DEF Enrols, Reminds, EnrolPcs, RemindPcs

LEMMA WholeStays ==
  ASSUME NEW m, NEW shown, NEW more, shown \subseteq more, Whole(m, shown)
  PROVE  Whole(m, more)
BY DEF Whole

(* A call goes on, is answered or is reminded of: the document stays.      *)
LEMMA CallMoves ==
  ASSUME FactorsInv, NEW c \in Handlers, NEW x, call' = [call EXCEPT ![c] = x],
         UNCHANGED <<mfa, crossed>>, confirmed \subseteq confirmed',
         x = NoHandler \/ Enrols(x) \/ Reminds(x), Knows(x, mfa, confirmed')
  PROVE  FactorsInv' /\ (~Reminds(x) /\ ~Reminds(call[c]) => JobsKeep)
<1>1. CallsTyped'
  BY DEF FactorsInv, CallsTyped
<1>2. ASSUME NEW d \in Handlers PROVE Knows(call[d], mfa, confirmed)'
  <2>1. CASE d = c
    <3>1. call'[d] = x
      BY <2>1 DEF FactorsInv, CallsTyped
    <3> QED BY <3>1
  <2>2. CASE d # c
    <3>1. call'[d] = call[d]
      BY <2>2 DEF FactorsInv, CallsTyped
    <3>2. Knows(call[d], mfa, confirmed)
      BY DEF FactorsInv
    <3>3. Knows(call[d], mfa, confirmed')
      BY <3>2 DEF Knows
    <3> QED BY <3>1, <3>3
  <2> QED BY <2>1, <2>2
<1>3. FactorsAreWhole'
  BY WholeStays DEF FactorsInv, FactorsAreWhole
<1>4. ASSUME ~Reminds(x), ~Reminds(call[c]) PROVE JobsKeep
  <2>1. \A d \in Handlers : call'[d] = IF d = c THEN x ELSE call[d]
    BY DEF FactorsInv, CallsTyped
  <2>2. ASSUME NEW d \in Handlers, Reminds(call[d]) \/ Reminds(call[d])'
        PROVE  call'[d] = call[d]
    <3>1. CASE d = c
      <4>1. call'[d] = x
        BY <2>1, <3>1
      <4>2. ~Reminds(call[d]) /\ ~Reminds(call'[d])
        BY <1>4, <3>1, <4>1
      <4> QED BY <2>2, <4>2
    <3> QED BY <2>1, <3>1
  <2> QED BY <2>2 DEF JobsKeep
<1> QED BY <1>1, <1>2, <1>3, <1>4 DEF FactorsInv

(* A write: whoever else is in flight has read an older document.          *)
LEMMA WriteMoves ==
  ASSUME FactorsInv, NEW c \in Handlers, NEW doc, NEW x, SetFields(c, doc, x),
         Document(doc), UNCHANGED confirmed,
         x = NoHandler \/ Enrols(x), Knows(x, doc, confirmed),
         ~call[c].stale /\ Whole(mfa, confirmed) => Whole(doc, confirmed),
         Enrols(call[c])
  PROVE  FactorsInv' /\ JobsKeep
<1>1. /\ mfa' = doc
      /\ crossed' = ((crossed \/ call[c].stale) /\ ~Whole(doc, confirmed))
      /\ call' = [d \in Handlers |-> IF d = c THEN x
                              ELSE IF call[d] = NoHandler THEN NoHandler
                              ELSE [call[d] EXCEPT !.stale = TRUE]]
  BY DEF SetFields
<1>2. ASSUME NEW d \in Handlers
      PROVE  /\ call'[d] = NoHandler \/ Enrols(call'[d]) \/ Reminds(call'[d])
             /\ Knows(call'[d], doc, confirmed)
             /\ Reminds(call[d]) \/ Reminds(call'[d]) =>
                  /\ Reminds(call[d]) /\ Reminds(call'[d])
                  /\ call'[d].pc = call[d].pc /\ call'[d].day = call[d].day
  <2>1. CASE d = c
    <3>1. call'[d] = x
      BY <1>1, <2>1
    <3>2. ~Reminds(call[d]) /\ ~Reminds(x)
      BY <2>1, Apart, IdleIsNeither
    <3> QED BY <3>1, <3>2
  <2>2. CASE d # c /\ call[d] = NoHandler
    <3>1. call'[d] = NoHandler
      BY <1>1, <2>2
    <3> QED BY <2>2, <3>1, IdleIsNeither DEF Knows
  <2>3. CASE d # c /\ call[d] # NoHandler
    <3>1. PICK y, z : y = call[d] /\ z = [y EXCEPT !.stale = TRUE]
      OBVIOUS
    <3>2. call'[d] = z
      BY <1>1, <2>3, <3>1
    <3>3. Enrols(y) \/ Reminds(y)
      BY <2>3, <3>1 DEF FactorsInv, CallsTyped
    <3>4. /\ z.stale = TRUE /\ (Enrols(z) \/ Reminds(z)) /\ (Reminds(y) <=> Reminds(z))
          /\ (Reminds(y) => z.pc = y.pc /\ z.day = y.day)
      <4>1. CASE Enrols(y)
        <5>1. /\ z.pc = y.pc /\ z.saw = y.saw /\ z.token = y.token /\ z.stale = TRUE
              /\ z \in [pc : {z.pc}, saw : {z.saw}, token : {z.token}, stale : {z.stale}]
          BY <3>1, <4>1 DEF Enrols
        <5>2. Enrols(z)
          BY <4>1, <5>1 DEF Enrols
        <5>3. ~Reminds(y) /\ ~Reminds(z)
          BY <4>1, <5>2, Apart
        <5> QED BY <5>1, <5>2, <5>3
      <4>2. CASE Reminds(y)
        <5>1. /\ z.pc = y.pc /\ z.day = y.day /\ z.stale = TRUE
              /\ z \in [pc : {z.pc}, day : {z.day}, stale : {z.stale}]
          BY <3>1, <4>2 DEF Reminds
        <5>2. Reminds(z)
          BY <4>2, <5>1 DEF Reminds
        <5> QED BY <4>2, <5>1, <5>2
      <4> QED BY <3>3, <4>1, <4>2
    <3> QED BY <3>1, <3>2, <3>4 DEF Knows
  <2> QED BY <2>1, <2>2, <2>3
<1>3. CallsTyped'
  BY <1>1, <1>2 DEF CallsTyped
<1>4. FactorsAreWhole'
  BY <1>1 DEF FactorsInv, FactorsAreWhole
<1>5. JobsKeep
  BY <1>2 DEF JobsKeep
<1> QED BY <1>1, <1>2, <1>3, <1>4, <1>5 DEF FactorsInv

(* A request that is answered leaves nothing behind.                       *)
LEMMA AnsweredKeeps ==
  ASSUME FactorsInv, NEW c \in Handlers, call' = [call EXCEPT ![c] = NoHandler],
         UNCHANGED <<mfa, crossed, confirmed>>
  PROVE  FactorsInv' /\ (~Reminds(call[c]) => JobsKeep)
<1>1. PICK x : x = NoHandler
  OBVIOUS
<1>2. Knows(x, mfa, confirmed') /\ ~Reminds(x)
  BY <1>1, IdleIsNeither DEF Knows
<1> QED BY <1>1, <1>2, CallMoves

(* The reads.                                                              *)
LEMMA EnrolReads ==
  ASSUME FactorsInv, NEW c \in Handlers,
         \/ SetupTotp(c) \/ DisableSms(c) \/ BackupCodesStatus(c)
         \/ \E token \in Tokens : VerifyTotp(c, token) \/ RegenerateCodes(c, token)
                                  \/ DisableTotp(c, token)
         \/ \E right \in BOOLEAN : VerifySms(c, right)
  PROVE  FactorsInv' /\ JobsKeep
<1>1. UNCHANGED <<mfa, crossed>>
  BY DEF SetupTotp, DisableSms, BackupCodesStatus, VerifyTotp, RegenerateCodes, DisableTotp,
         VerifySms
<1>a. ~Reminds(call[c])
  BY IdleIsNeither DEF SetupTotp, DisableSms, BackupCodesStatus, VerifyTotp, RegenerateCodes,
         DisableTotp, VerifySms
<1>2. ASSUME call' = [call EXCEPT ![c] = NoHandler], UNCHANGED confirmed
      PROVE  FactorsInv' /\ JobsKeep
  BY <1>1, <1>2, <1>a, AnsweredKeeps
<1>3. ASSUME NEW pc \in EnrolPcs, NEW token, call' = [call EXCEPT ![c] = Read(pc, mfa, token)],
             confirmed \subseteq confirmed',
             pc = "setup" => ~mfa.enabled,
             pc \in {"enable", "codes"} => token[2] = mfa.secret,
             pc = "enable" => mfa.secret \in confirmed'
      PROVE  FactorsInv' /\ JobsKeep
  <2>0. PICK doc : doc = mfa
    OBVIOUS
  <2>1. PICK x : x = Read(pc, doc, token)
    OBVIOUS
  <2>2. /\ Enrols(x) /\ x.pc = pc /\ x.saw = doc /\ x.token = token /\ x.stale = FALSE
    BY <1>3, <2>1 DEF Read, Enrols
  <2>3. Knows(x, mfa, confirmed')
    BY <1>3, <2>0, <2>2 DEF Knows
  <2>4. ~Reminds(x)
    BY <2>2, Apart
  <2> QED BY <1>1, <1>3, <1>a, <2>0, <2>1, <2>2, <2>3, <2>4, CallMoves
<1>4. CASE SetupTotp(c)
  <2>1. CASE mfa.enabled
    BY <1>2, <1>4, <2>1 DEF SetupTotp, Respond
  <2>2. CASE ~mfa.enabled
    <3>1. PICK token : token = <<"totp", enrolled + 1>>
      OBVIOUS
    <3>2. call' = [call EXCEPT ![c] = Read("setup", mfa, token)] /\ UNCHANGED confirmed
      BY <1>4, <2>2, <3>1 DEF SetupTotp, Proceed
    <3> QED BY <1>3, <2>2, <3>2 DEF EnrolPcs
  <2> QED BY <2>1, <2>2
<1>5. CASE DisableSms(c)
  <2>1. CASE mfa.sms
    <3>1. call' = [call EXCEPT ![c] = Read("sms_off", mfa, WrongToken)] /\ UNCHANGED confirmed
      BY <1>5, <2>1 DEF DisableSms, Proceed
    <3> QED BY <1>3, <3>1 DEF EnrolPcs
  <2>2. CASE ~mfa.sms
    BY <1>2, <1>5, <2>2 DEF DisableSms, Respond
  <2> QED BY <2>1, <2>2
<1>6. CASE BackupCodesStatus(c)
  BY <1>2, <1>6 DEF BackupCodesStatus, Respond
<1>7. ASSUME NEW token \in Tokens, VerifyTotp(c, token)
      PROVE  FactorsInv' /\ JobsKeep
  <2>1. CASE ~mfa.pending \/ mfa.secret = 0 \/ token # <<"totp", mfa.secret>>
    BY <1>2, <1>7, <2>1 DEF VerifyTotp, Respond
  <2>2. CASE ~(~mfa.pending \/ mfa.secret = 0 \/ token # <<"totp", mfa.secret>>)
    <3>1. /\ call' = [call EXCEPT ![c] = Read("enable", mfa, token)]
          /\ confirmed' = confirmed \cup {mfa.secret}
      BY <1>7, <2>2 DEF VerifyTotp, Proceed
    <3>2. token[2] = mfa.secret
      BY <2>2
    <3> QED BY <1>3, <3>1, <3>2 DEF EnrolPcs
  <2> QED BY <2>1, <2>2
<1>8. ASSUME NEW token \in Tokens, RegenerateCodes(c, token)
      PROVE  FactorsInv' /\ JobsKeep
  <2>1. CASE ~mfa.enabled \/ mfa.secret = 0 \/ token # <<"totp", mfa.secret>>
    BY <1>2, <1>8, <2>1 DEF RegenerateCodes, Respond
  <2>2. CASE ~(~mfa.enabled \/ mfa.secret = 0 \/ token # <<"totp", mfa.secret>>)
    <3>1. /\ call' = [call EXCEPT ![c] = Read("codes", mfa, token)]
          /\ UNCHANGED confirmed
      BY <1>8, <2>2 DEF RegenerateCodes, Proceed
    <3>2. token[2] = mfa.secret
      BY <2>2
    <3> QED BY <1>3, <3>1, <3>2 DEF EnrolPcs
  <2> QED BY <2>1, <2>2
<1>9. ASSUME NEW token \in Tokens, DisableTotp(c, token)
      PROVE  FactorsInv' /\ JobsKeep
  <2>1. CASE ~mfa.enabled \/ mfa.secret = 0
    BY <1>2, <1>9, <2>1 DEF DisableTotp, Respond
  <2>2. CASE ~(~mfa.enabled \/ mfa.secret = 0)
    <3>1. PICK pc : pc = IF token = <<"totp", mfa.secret>> THEN "disable" ELSE "backup"
      OBVIOUS
    <3>2. /\ call' = [call EXCEPT ![c] = Read(pc, mfa, token)]
          /\ UNCHANGED confirmed
      BY <1>9, <2>2, <3>1 DEF DisableTotp, Proceed
    <3>3. pc \in {"disable", "backup"}
      BY <3>1
    <3> QED BY <1>3, <3>2, <3>3 DEF EnrolPcs
  <2> QED BY <2>1, <2>2
<1>10. ASSUME NEW right \in BOOLEAN, VerifySms(c, right)
       PROVE  FactorsInv' /\ JobsKeep
  <2>1. CASE right
    <3>1. call' = [call EXCEPT ![c] = Read("sms", mfa, WrongToken)] /\ UNCHANGED confirmed
      BY <1>10, <2>1 DEF VerifySms, Proceed
    <3> QED BY <1>3, <3>1 DEF EnrolPcs
  <2>2. CASE ~right
    BY <1>2, <1>10, <2>2 DEF VerifySms, Respond
  <2> QED BY <2>1, <2>2
<1> QED BY <1>4, <1>5, <1>6, <1>7, <1>8, <1>9, <1>10

(* The writes.                                                             *)
LEMMA EnrolWrites ==
  ASSUME FactorsInv, NEW c \in Handlers,
         SetupWrite(c) \/ EnableWrite(c) \/ CodesWrite(c) \/ DisableWrite(c)
         \/ SmsWrite(c) \/ SmsOffWrite(c)
  PROVE  FactorsInv' /\ JobsKeep
<1>1. PICK x : x = call[c]
  OBVIOUS
<1>2. x.pc \in EnrolPcs /\ UNCHANGED confirmed
  BY <1>1 DEF SetupWrite, EnableWrite, CodesWrite, DisableWrite, SmsWrite, SmsOffWrite, EnrolPcs
<1>3. Enrols(x) /\ Knows(x, mfa, confirmed)
  BY <1>1, <1>2 DEF FactorsInv, CallsTyped, NoHandler, EnrolPcs, RemindPcs, Reminds
<1>4. ASSUME NEW doc, SetFields(c, doc, NoHandler), Document(doc),
             ~x.stale /\ Whole(mfa, confirmed) => Whole(doc, confirmed)
      PROVE  FactorsInv' /\ JobsKeep
  <2>1. PICK y : y = NoHandler
    OBVIOUS
  <2>2. Knows(y, doc, confirmed)
    BY <2>1, IdleIsNeither DEF Knows
  <2> QED BY <1>1, <1>2, <1>3, <1>4, <2>1, <2>2, WriteMoves
<1>5. /\ mfa \in [enabled : {mfa.enabled}, secret : {mfa.secret}, pending : {mfa.pending},
                  sms : {mfa.sms}, codes : {mfa.codes}]
  BY DEF FactorsInv, Document
<1>6. CASE SetupWrite(c)
  <2>1. PICK doc : doc = [mfa EXCEPT !.secret = x.token[2], !.pending = TRUE, !.codes = 0]
    OBVIOUS
  <2>2. SetFields(c, doc, NoHandler) /\ x.pc = "setup"
    BY <1>1, <1>6, <2>1 DEF SetupWrite
  <2>3. /\ doc.pending = TRUE /\ doc.codes = 0 /\ doc.enabled = mfa.enabled /\ Document(doc)
    BY <1>5, <2>1 DEF Document
  <2>4. ~x.stale => Whole(doc, confirmed)
    BY <1>3, <2>2, <2>3 DEF Knows, Whole
  <2> QED BY <1>4, <2>2, <2>3, <2>4
<1>7. CASE EnableWrite(c)
  <2>1. PICK doc, y : doc = [mfa EXCEPT !.enabled = TRUE, !.pending = FALSE]
                      /\ y = [x EXCEPT !.pc = "codes"]
    OBVIOUS
  <2>2. SetFields(c, doc, y) /\ x.pc = "enable"
    BY <1>1, <1>7, <2>1 DEF EnableWrite
  <2>3. /\ doc.enabled = TRUE /\ doc.pending = FALSE /\ doc.secret = mfa.secret
        /\ doc.codes = mfa.codes /\ doc.sms = mfa.sms /\ Document(doc)
    BY <1>5, <2>1 DEF Document
  <2>4. ~x.stale /\ Whole(mfa, confirmed) => Whole(doc, confirmed)
    BY <1>3, <2>2, <2>3 DEF Knows, Whole
  <2>5. y.pc = "codes" /\ y.token = x.token /\ y.stale = x.stale /\ Enrols(y)
    BY <1>3, <2>1 DEF Enrols, EnrolPcs
  <2>6. Knows(y, doc, confirmed)
    BY <1>3, <2>2, <2>3, <2>5 DEF Knows
  <2> QED BY <1>1, <1>2, <1>3, <2>2, <2>3, <2>4, <2>5, <2>6, WriteMoves
<1>8. CASE CodesWrite(c)
  <2>1. PICK doc : doc = [mfa EXCEPT !.codes = x.token[2]]
    OBVIOUS
  <2>2. SetFields(c, doc, NoHandler) /\ x.pc = "codes"
    BY <1>1, <1>8, <2>1 DEF CodesWrite
  <2>3. /\ doc.codes = x.token[2] /\ doc.enabled = mfa.enabled /\ doc.secret = mfa.secret
        /\ doc.pending = mfa.pending /\ doc.sms = mfa.sms /\ Document(doc)
    BY <1>5, <2>1 DEF Document
  <2>4. ~x.stale /\ Whole(mfa, confirmed) => Whole(doc, confirmed)
    BY <1>3, <2>2, <2>3 DEF Knows, Whole
  <2> QED BY <1>4, <2>2, <2>3, <2>4
<1>9. CASE DisableWrite(c)
  <2>1. PICK doc : doc = Disabled(mfa)
    OBVIOUS
  <2>2. SetFields(c, doc, NoHandler)
    BY <1>9, <2>1 DEF DisableWrite
  <2>3. /\ doc.enabled = FALSE /\ doc.codes = 0 /\ doc.secret = 0 /\ Document(doc)
    BY <1>5, <2>1 DEF Document, Disabled
  <2>4. Whole(doc, confirmed)
    BY <2>3 DEF Whole
  <2> QED BY <1>4, <2>2, <2>3, <2>4
<1>10. CASE SmsWrite(c)
  <2>1. PICK doc : doc = [mfa EXCEPT !.enabled = TRUE, !.sms = TRUE]
    OBVIOUS
  <2>2. SetFields(c, doc, NoHandler)
    BY <1>10, <2>1 DEF SmsWrite
  <2>3. /\ doc.enabled = TRUE /\ doc.sms = TRUE /\ doc.secret = mfa.secret
        /\ doc.pending = mfa.pending /\ doc.codes = mfa.codes /\ Document(doc)
    BY <1>5, <2>1 DEF Document
  <2>4. Whole(mfa, confirmed) => Whole(doc, confirmed)
    BY <2>3 DEF Whole
  <2> QED BY <1>4, <2>2, <2>3, <2>4
<1>11. CASE SmsOffWrite(c)
  <2>1. PICK doc : doc = [mfa EXCEPT !.enabled = StillTotp(x.saw), !.sms = FALSE]
    OBVIOUS
  <2>2. SetFields(c, doc, NoHandler) /\ x.pc = "sms_off"
    BY <1>1, <1>11, <2>1 DEF SmsOffWrite
  <2>3. /\ doc.enabled = StillTotp(x.saw) /\ doc.sms = FALSE /\ doc.secret = mfa.secret
        /\ doc.pending = mfa.pending /\ doc.codes = mfa.codes /\ Document(doc)
    BY <1>5, <2>1 DEF Document
  <2>4. ~x.stale /\ Whole(mfa, confirmed) => Whole(doc, confirmed)
    <3>1. ~x.stale => x.saw = mfa
      BY <1>3, <2>2 DEF Knows
    <3> QED BY <2>3, <3>1 DEF Whole, StillTotp
  <2> QED BY <1>4, <2>2, <2>3, <2>4
<1> QED BY <1>6, <1>7, <1>8, <1>9, <1>10, <1>11

LEMMA ByCodeMoves ==
  ASSUME FactorsInv, NEW c \in Handlers, DisableByCode(c)
  PROVE  FactorsInv' /\ JobsKeep
<1>1. PICK x, y : x = call[c] /\ y = [x EXCEPT !.pc = "disable"]
  OBVIOUS
<1>2. x.pc = "backup" /\ UNCHANGED <<mfa, crossed, confirmed>>
  BY <1>1 DEF DisableByCode
<1>3. Enrols(x)
  BY <1>1, <1>2 DEF FactorsInv, CallsTyped, NoHandler, RemindPcs, Reminds
<1>4. y.pc = "disable" /\ Enrols(y)
  BY <1>1, <1>3 DEF Enrols, EnrolPcs
<1>5. Knows(y, mfa, confirmed') /\ ~Reminds(y) /\ ~Reminds(call[c])
  BY <1>1, <1>3, <1>4, Apart DEF Knows
<1>6. call' = [call EXCEPT ![c] = y] \/ call' = [call EXCEPT ![c] = NoHandler]
  BY <1>1 DEF DisableByCode, Proceed, Respond
<1>7. CASE call' = [call EXCEPT ![c] = y]
  BY <1>2, <1>4, <1>5, <1>7, CallMoves
<1>8. CASE call' = [call EXCEPT ![c] = NoHandler]
  BY <1>2, <1>5, <1>8, AnsweredKeeps
<1> QED BY <1>6, <1>7, <1>8

LEMMA RemindMoves ==
  ASSUME FactorsInv, now \in Days, NEW c \in Handlers, RemindStep(c)
  PROVE  FactorsInv'
<1>1. UNCHANGED <<mfa, crossed, confirmed>>
  BY DEF RemindStep, Remind, RemindOnce, RemindMail, RemindMark, RemindLost, reminderFrame
<1>2. PICK x : x = call[c]
  OBVIOUS
<1>3. \E y : call' = [call EXCEPT ![c] = y] /\ (y = NoHandler \/ Reminds(y))
  <2>1. CASE Remind(c)
    <3>1. PICK y : y = [pc |-> "remind", day |-> now, stale |-> FALSE]
      OBVIOUS
    <3>2. call' = [call EXCEPT ![c] = y] /\ Reminds(y)
      BY <2>1, <3>1 DEF Remind, Reminds, RemindPcs
    <3> QED BY <3>2
  <2>2. CASE ~Remind(c)
    <3>1. x.pc \in RemindPcs
      BY <1>2, <2>2 DEF RemindStep, RemindOnce, RemindMail, RemindMark, RemindLost, RemindPcs
    <3>2. Reminds(x)
      BY <1>2, <3>1 DEF FactorsInv, CallsTyped, NoHandler, RemindPcs, EnrolPcs, Enrols
    <3>3. ASSUME NEW pc \in RemindPcs PROVE Reminds([x EXCEPT !.pc = pc])
      <4>1. PICK y : y = [x EXCEPT !.pc = pc]
        OBVIOUS
      <4>2. y.pc = pc /\ y.day = x.day
            /\ y \in [pc : {y.pc}, day : {y.day}, stale : {y.stale}]
        BY <3>2, <4>1 DEF Reminds
      <4> QED BY <3>2, <4>1, <4>2 DEF Reminds
    <3>4. CASE RemindOnce(c)
      <4>1. PICK y : y = IF x.day \in marked THEN NoHandler ELSE [x EXCEPT !.pc = "mail"]
        OBVIOUS
      <4>2. call' = [call EXCEPT ![c] = y]
        BY <1>2, <3>4, <4>1 DEF RemindOnce
      <4>3. y = NoHandler \/ Reminds(y)
        BY <3>3, <4>1 DEF RemindPcs
      <4> QED BY <4>2, <4>3
    <3>5. CASE \E sent \in BOOLEAN : RemindMail(c, sent)
      <4>1. PICK sent \in BOOLEAN : RemindMail(c, sent)
        BY <3>5
      <4>2. PICK y : y = IF sent THEN [x EXCEPT !.pc = "mark"] ELSE NoHandler
        OBVIOUS
      <4>3. call' = [call EXCEPT ![c] = y]
        BY <1>2, <4>1, <4>2 DEF RemindMail
      <4>4. y = NoHandler \/ Reminds(y)
        BY <3>3, <4>2 DEF RemindPcs
      <4> QED BY <4>3, <4>4
    <3>6. CASE RemindMark(c) \/ RemindLost(c)
      BY <3>6 DEF RemindMark, RemindLost
    <3> QED BY <2>2, <3>4, <3>5, <3>6 DEF RemindStep
  <2> QED BY <2>1, <2>2
<1>4. PICK y : call' = [call EXCEPT ![c] = y] /\ (y = NoHandler \/ Reminds(y))
  BY <1>3
<1>5. Knows(y, mfa, confirmed')
  BY <1>4, Apart, IdleIsNeither DEF Knows
<1> QED BY <1>1, <1>4, <1>5, CallMoves

-----------------------------------------------------------------------------
(* Reminders.  Unless two jobs ran at once, one at most is on its way      *)
(* under the key of a day; and unless one died between mail and key, what  *)
(* was mailed has its key or the job that is about to set it.              *)

OneJob ==
  \A d \in Days : ~beside[d] =>
     \A b, c \in Handlers :
        Reminds(call[b]) /\ Reminds(call[c]) /\ call[b].day = d /\ call[c].day = d => b = c

MailsAreMarked ==
  \A d \in Days : ~beside[d] /\ ~lost[d] =>
     /\ mails[d] <= 1
     /\ mails[d] = 1 =>
          d \in marked \/ \E c \in Handlers : Reminds(call[c]) /\ call[c].pc = "mark" /\ call[c].day = d
     /\ \A c \in Handlers :
          Reminds(call[c]) /\ call[c].pc = "mail" /\ call[c].day = d => mails[d] = 0

DaysTyped ==
  /\ now \in Days /\ mails \in [Days -> Nat]
  /\ lost = [d \in Days |-> lost[d]] /\ beside = [d \in Days |-> beside[d]]

MailInv == DaysTyped /\ OneJob /\ MailsAreMarked

LEMMA MailsStay ==
  ASSUME MailInv, JobsKeep, now' \in Days, UNCHANGED <<marked, mails, lost, beside>>
  PROVE  MailInv'
<1>1. DaysTyped'
  BY DEF MailInv, DaysTyped
<1>2. OneJob'
  BY DEF MailInv, OneJob, JobsKeep
<1>3. MailsAreMarked'
  BY DEF MailInv, MailsAreMarked, JobsKeep
<1> QED BY <1>1, <1>2, <1>3 DEF MailInv

(* A job goes on, or ends, beside the others.                              *)
LEMMA JobMoves ==
  ASSUME CallsTyped, NEW c \in Handlers, NEW y, call' = [call EXCEPT ![c] = y]
  PROVE  call'[c] = y /\ \A d \in Handlers : d # c => call'[d] = call[d]
BY DEF CallsTyped

LEMMA RemindMails ==
  ASSUME FactorsInv, MailInv, NEW c \in Handlers, RemindStep(c)
  PROVE  MailInv'
<1>1. UNCHANGED now /\ CallsTyped
  BY DEF RemindStep, Remind, RemindOnce, RemindMail, RemindMark, RemindLost, reminderFrame,
     FactorsInv
<1>2. PICK x : x = call[c]
  OBVIOUS
<1>3. ASSUME NEW pc \in RemindPcs, Reminds(x)
      PROVE  /\ Reminds([x EXCEPT !.pc = pc]) /\ [x EXCEPT !.pc = pc].pc = pc
             /\ [x EXCEPT !.pc = pc].day = x.day
  <2>1. PICK y : y = [x EXCEPT !.pc = pc]
    OBVIOUS
  <2>2. y.pc = pc /\ y.day = x.day /\ y \in [pc : {y.pc}, day : {y.day}, stale : {y.stale}]
    BY <1>3, <2>1 DEF Reminds
  <2> QED BY <1>3, <2>1, <2>2 DEF Reminds
<1>4. x.pc \in RemindPcs => Reminds(x)
  BY <1>1, <1>2 DEF CallsTyped, NoHandler, RemindPcs, EnrolPcs, Enrols
<1>5. CASE Remind(c)
  <2>1. PICK y : y = [pc |-> "remind", day |-> now, stale |-> FALSE]
    OBVIOUS
  <2>2. /\ call' = [call EXCEPT ![c] = y] /\ y.pc = "remind" /\ y.day = now
        /\ UNCHANGED <<marked, mails, lost>>
    BY <1>5, <2>1 DEF Remind
  <2>3. call'[c] = y /\ \A d \in Handlers : d # c => call'[d] = call[d]
    BY <1>1, <2>2, JobMoves
  <2>4. ~Reminds(x)
    BY <1>2, <1>5, IdleIsNeither DEF Remind
  <2>5. ASSUME NEW b \in Handlers, Reminds(call[b]), call[b].day = now
        PROVE  beside'[now]
    <3>1. call[b].pc \in {"remind", "mail", "mark"}
      BY <2>5 DEF Reminds, RemindPcs
    <3>2. beside' = [beside EXCEPT ![now] = beside[now] \/ \E d \in Handlers :
                       call[d].pc \in {"remind", "mail", "mark"} /\ call[d].day = now]
      BY <1>5 DEF Remind
    <3>3. \E d \in Handlers : call[d].pc \in {"remind", "mail", "mark"} /\ call[d].day = now
      BY <2>5, <3>1
    <3>4. now \in DOMAIN beside
      BY DEF MailInv, DaysTyped
    <3> QED BY <3>2, <3>3, <3>4
  <2>6. \A d \in Days : ~beside'[d] => ~beside[d]
    BY <1>5 DEF Remind, MailInv, DaysTyped
  <2>7. OneJob'
    <3> SUFFICES ASSUME NEW d \in Days, ~beside'[d], NEW a \in Handlers, NEW b \in Handlers,
                        Reminds(call'[a]), Reminds(call'[b]), call'[a].day = d, call'[b].day = d
                 PROVE  a = b
      BY DEF OneJob
    <3>1. ~beside[d]
      BY <2>6
    <3>2. CASE d = now
      <4>1. a = c /\ b = c
        BY <2>3, <2>5, <3>2
      <4> QED BY <4>1
    <3>3. CASE d # now
      <4>1. a # c /\ b # c
        BY <2>2, <2>3, <3>3
      <4> QED BY <2>3, <3>1, <4>1 DEF MailInv, OneJob
    <3> QED BY <3>2, <3>3
  <2>8. MailsAreMarked'
    <3> SUFFICES ASSUME NEW d \in Days, ~beside'[d], ~lost'[d]
                 PROVE  /\ mails'[d] <= 1
                        /\ mails'[d] = 1 => d \in marked' \/ \E b \in Handlers :
                              Reminds(call'[b]) /\ call'[b].pc = "mark" /\ call'[b].day = d
                        /\ \A b \in Handlers :
                             Reminds(call'[b]) /\ call'[b].pc = "mail" /\ call'[b].day = d
                             => mails'[d] = 0
      BY DEF MailsAreMarked
    <3>1. /\ mails[d] <= 1
          /\ mails[d] = 1 =>
               d \in marked \/ \E b \in Handlers : Reminds(call[b]) /\ call[b].pc = "mark" /\ call[b].day = d
          /\ \A b \in Handlers :
               Reminds(call[b]) /\ call[b].pc = "mail" /\ call[b].day = d => mails[d] = 0
      BY <2>2, <2>6 DEF MailInv, MailsAreMarked
    <3>2. \A b \in Handlers : Reminds(call[b]) => b # c
      BY <1>2, <2>4
    <3> QED BY <2>2, <2>3, <3>1, <3>2
  <2>9. DaysTyped'
    BY <1>1, <1>5, <2>2 DEF Remind, MailInv, DaysTyped
  <2> QED BY <2>7, <2>8, <2>9 DEF MailInv

<1>6. ASSUME NEW y, call' = [call EXCEPT ![c] = y], Reminds(x), UNCHANGED beside,
             y = NoHandler \/ (Reminds(y) /\ y.day = x.day)
      PROVE  OneJob'
  <2>1. call'[c] = y /\ \A d \in Handlers : d # c => call'[d] = call[d]
    BY <1>1, <1>6, JobMoves
  <2>2. ASSUME NEW b \in Handlers, Reminds(call'[b])
        PROVE  Reminds(call[b]) /\ call'[b].day = call[b].day
    <3>1. CASE b = c
      <4>1. Reminds(y) /\ y.day = x.day
        BY <1>6, <2>1, <2>2, <3>1, IdleIsNeither
      <4> QED BY <1>2, <1>6, <2>1, <3>1, <4>1
    <3>2. CASE b # c
      BY <2>1, <2>2, <3>2
    <3> QED BY <3>1, <3>2
  <2> QED BY <1>6, <2>2 DEF MailInv, OneJob
(* What holds of the mails of one day.                                     *)
<1>7. ASSUME NEW y, call' = [call EXCEPT ![c] = y], Reminds(x), UNCHANGED beside,
             y = NoHandler \/ (Reminds(y) /\ y.day = x.day),
             marked \subseteq marked', DaysTyped',
             \A d \in Days : d # x.day => mails'[d] = mails[d] /\ lost'[d] = lost[d],
             ~beside[x.day] /\ ~lost'[x.day] =>
               /\ mails'[x.day] <= 1
               /\ mails'[x.day] = 1 =>
                    x.day \in marked' \/ (Reminds(y) /\ y.pc = "mark")
               /\ Reminds(y) /\ y.pc = "mail" => mails'[x.day] = 0
      PROVE  MailInv'
  <2>1. call'[c] = y /\ \A d \in Handlers : d # c => call'[d] = call[d]
    BY <1>1, <1>7, JobMoves
  <2>2. OneJob'
    BY <1>6, <1>7
  <2>3. ASSUME NEW d \in Days, ~beside'[d], ~lost'[d]
        PROVE  /\ mails'[d] <= 1
               /\ mails'[d] = 1 => d \in marked' \/ \E b \in Handlers :
                     Reminds(call'[b]) /\ call'[b].pc = "mark" /\ call'[b].day = d
               /\ \A b \in Handlers :
                    Reminds(call'[b]) /\ call'[b].pc = "mail" /\ call'[b].day = d
                    => mails'[d] = 0
    <3>1. CASE d = x.day
      <4>1. \A b \in Handlers : Reminds(call'[b]) /\ call'[b].day = d => b = c
        <5> SUFFICES ASSUME NEW b \in Handlers, Reminds(call'[b]), call'[b].day = d, b # c
                     PROVE  FALSE
          OBVIOUS
        <5>1. Reminds(call[b]) /\ call[b].day = d
          BY <2>1
        <5>2. Reminds(call[c]) /\ call[c].day = d
          BY <1>2, <1>7, <3>1
        <5> QED BY <1>7, <2>3, <5>1, <5>2 DEF MailInv, OneJob
      <4>2. /\ mails'[d] <= 1
            /\ mails'[d] = 1 => d \in marked' \/ (Reminds(y) /\ y.pc = "mark")
            /\ Reminds(y) /\ y.pc = "mail" => mails'[d] = 0
        BY <1>7, <2>3, <3>1
      <4>3. Reminds(y) => y.day = d
        BY <1>7, <3>1, IdleIsNeither
      <4> QED BY <2>1, <4>1, <4>2, <4>3
    <3>2. CASE d # x.day
      <4>1. mails'[d] = mails[d] /\ lost'[d] = lost[d] /\ beside'[d] = beside[d]
        BY <1>7, <3>2
      <4>2. /\ mails[d] <= 1
            /\ mails[d] = 1 =>
                 d \in marked \/ \E b \in Handlers : Reminds(call[b]) /\ call[b].pc = "mark" /\ call[b].day = d
            /\ \A b \in Handlers :
                 Reminds(call[b]) /\ call[b].pc = "mail" /\ call[b].day = d => mails[d] = 0
        BY <2>3, <4>1 DEF MailInv, MailsAreMarked
      <4>3. ASSUME NEW b \in Handlers
            PROVE  /\ Reminds(call[b]) /\ call[b].day = d => call'[b] = call[b]
                   /\ Reminds(call'[b]) /\ call'[b].day = d => call'[b] = call[b]
        <5>1. CASE b # c
          BY <2>1, <5>1
        <5>2. CASE b = c
          <6>1. call[b].day = x.day
            BY <1>2, <5>2
          <6>2. Reminds(call'[b]) => call'[b].day = x.day
            BY <1>7, <2>1, <5>2, IdleIsNeither
          <6> QED BY <3>2, <6>1, <6>2
        <5> QED BY <5>1, <5>2
      <4> QED BY <1>7, <4>1, <4>2, <4>3
    <3> QED BY <3>1, <3>2
  <2>4. MailsAreMarked'
    BY <2>3 DEF MailsAreMarked
  <2> QED BY <1>7, <2>2, <2>4 DEF MailInv
<1>8. ASSUME Reminds(x)
      PROVE  /\ x.day \in Days /\ mails[x.day] \in Nat
             /\ ~beside[x.day] /\ ~lost[x.day] =>
                  /\ mails[x.day] <= 1
                  /\ x.pc # "mark" /\ mails[x.day] = 1 => x.day \in marked
                  /\ x.pc = "mail" => mails[x.day] = 0
  <2>1. x.day \in Days /\ mails[x.day] \in Nat
    BY <1>8 DEF Reminds, MailInv, DaysTyped
  <2>2. ASSUME ~beside[x.day], ~lost[x.day]
        PROVE  /\ mails[x.day] <= 1
               /\ x.pc # "mark" /\ mails[x.day] = 1 => x.day \in marked
               /\ x.pc = "mail" => mails[x.day] = 0
    <3>1. /\ mails[x.day] <= 1
          /\ mails[x.day] = 1 => x.day \in marked \/ \E b \in Handlers :
               Reminds(call[b]) /\ call[b].pc = "mark" /\ call[b].day = x.day
          /\ \A b \in Handlers :
               Reminds(call[b]) /\ call[b].pc = "mail" /\ call[b].day = x.day => mails[x.day] = 0
      BY <2>1, <2>2 DEF MailInv, MailsAreMarked
    <3>2. \A b \in Handlers : Reminds(call[b]) /\ call[b].day = x.day => b = c
      BY <1>2, <1>8, <2>1, <2>2 DEF MailInv, OneJob
    <3> QED BY <1>2, <1>8, <3>1, <3>2
  <2> QED BY <2>1, <2>2
<1>9. CASE RemindOnce(c)
  <2>1. Reminds(x) /\ x.pc = "remind" /\ UNCHANGED <<marked, mails, lost, beside, now>>
    BY <1>2, <1>4, <1>9 DEF RemindOnce, RemindPcs, reminderFrame
  <2>2. PICK y : y = IF x.day \in marked THEN NoHandler ELSE [x EXCEPT !.pc = "mail"]
    OBVIOUS
  <2>3. call' = [call EXCEPT ![c] = y]
    BY <1>2, <1>9, <2>2 DEF RemindOnce
  <2>4. y = NoHandler \/ (Reminds(y) /\ y.day = x.day /\ x.day \notin marked)
    BY <1>3, <2>1, <2>2 DEF RemindPcs
  <2>5. DaysTyped'
    BY <2>1 DEF MailInv, DaysTyped
  <2>6. ASSUME ~beside[x.day], ~lost'[x.day]
        PROVE  /\ mails'[x.day] <= 1
               /\ mails'[x.day] = 1 => x.day \in marked' \/ (Reminds(y) /\ y.pc = "mark")
               /\ Reminds(y) /\ y.pc = "mail" => mails'[x.day] = 0
    <3>1. /\ mails[x.day] <= 1 /\ mails[x.day] \in Nat
          /\ mails[x.day] = 1 => x.day \in marked
      BY <1>8, <2>1, <2>6
    <3>2. Reminds(y) => mails[x.day] # 1
      BY <2>4, <3>1, IdleIsNeither
    <3> QED BY <2>1, <3>1, <3>2
  <2> QED BY <1>7, <2>1, <2>3, <2>4, <2>5, <2>6
<1>10. CASE \E sent \in BOOLEAN : RemindMail(c, sent)
  <2>1. PICK sent \in BOOLEAN : RemindMail(c, sent)
    BY <1>10
  <2>2. Reminds(x) /\ x.pc = "mail" /\ UNCHANGED <<marked, lost, beside, now>>
    BY <1>2, <1>4, <2>1 DEF RemindMail, RemindPcs, reminderFrame
  <2>3. PICK y : y = IF sent THEN [x EXCEPT !.pc = "mark"] ELSE NoHandler
    OBVIOUS
  <2>4. call' = [call EXCEPT ![c] = y]
    BY <1>2, <2>1, <2>3 DEF RemindMail
  <2>5. /\ sent => Reminds(y) /\ y.day = x.day /\ y.pc = "mark"
        /\ ~sent => y = NoHandler /\ ~Reminds(y)
    BY <1>3, <2>2, <2>3, IdleIsNeither DEF RemindPcs
  <2>6. /\ mails' \in [Days -> Nat]
        /\ mails'[x.day] = mails[x.day] + (IF sent THEN 1 ELSE 0)
        /\ \A d \in Days : d # x.day => mails'[d] = mails[d]
    <3>1. mails' = [mails EXCEPT ![x.day] = mails[x.day] + (IF sent THEN 1 ELSE 0)]
      BY <1>2, <2>1 DEF RemindMail
    <3>2. mails[x.day] + (IF sent THEN 1 ELSE 0) \in Nat /\ x.day \in Days
      BY <1>8, <2>2
    <3> QED BY <3>1, <3>2 DEF MailInv, DaysTyped
  <2>7. DaysTyped'
    BY <2>2, <2>6 DEF MailInv, DaysTyped
  <2>8. ASSUME ~beside[x.day], ~lost'[x.day]
        PROVE  /\ mails'[x.day] <= 1
               /\ mails'[x.day] = 1 => x.day \in marked' \/ (Reminds(y) /\ y.pc = "mark")
               /\ Reminds(y) /\ y.pc = "mail" => mails'[x.day] = 0
    <3>1. mails[x.day] = 0
      BY <1>8, <2>2, <2>8
    <3> QED BY <2>5, <2>6, <3>1
  <2> QED BY <1>7, <2>2, <2>4, <2>5, <2>6, <2>7, <2>8
<1>11. CASE RemindMark(c)
  <2>1. Reminds(x) /\ x.pc = "mark" /\ UNCHANGED <<mails, lost, beside, now>>
    BY <1>2, <1>4, <1>11 DEF RemindMark, RemindPcs, reminderFrame
  <2>2. marked' = marked \cup {x.day} /\ call' = [call EXCEPT ![c] = NoHandler]
    BY <1>2, <1>11 DEF RemindMark
  <2>3. PICK y : y = NoHandler
    OBVIOUS
  <2>4. DaysTyped' /\ ~Reminds(y)
    BY <2>1, <2>3, IdleIsNeither DEF MailInv, DaysTyped
  <2>5. ~beside[x.day] /\ ~lost'[x.day] => mails'[x.day] <= 1
    BY <1>8, <2>1
  <2> QED BY <1>7, <2>1, <2>2, <2>3, <2>4, <2>5
<1>12. CASE RemindLost(c)
  <2>1. Reminds(x) /\ x.pc = "mark" /\ UNCHANGED <<marked, mails, beside, now>>
    BY <1>2, <1>4, <1>12 DEF RemindLost, RemindPcs, reminderFrame
  <2>2. /\ lost' = [lost EXCEPT ![x.day] = TRUE]
        /\ call' = [call EXCEPT ![c] = NoHandler]
    BY <1>2, <1>12 DEF RemindLost
  <2>3. PICK y : y = NoHandler
    OBVIOUS
  <2>4. /\ lost' = [d \in Days |-> lost'[d]] /\ lost'[x.day]
        /\ \A d \in Days : d # x.day => lost'[d] = lost[d]
    BY <1>8, <2>1, <2>2 DEF MailInv, DaysTyped
  <2>5. DaysTyped'
    BY <2>1, <2>4 DEF MailInv, DaysTyped
  <2> QED BY <1>7, <2>1, <2>2, <2>3, <2>4, <2>5
<1> QED BY <1>5, <1>9, <1>10, <1>11, <1>12 DEF RemindStep

-----------------------------------------------------------------------------

LEMMA FactorsStart ==
  ASSUME MaxTime \in Nat, FactorsInit
  PROVE  FactorsInv /\ MailInv
<1>1. CallsTyped
  BY DEF FactorsInit, CallsTyped
<1>2. Document(mfa) /\ Whole(mfa, confirmed)
  <2>1. PICK m : m = NoFactors
    OBVIOUS
  <2>2. Document(m) /\ Whole(m, {})
    BY <2>1 DEF NoFactors, Document, Whole
  <2> QED BY <2>1, <2>2 DEF FactorsInit
<1>3. \A c \in Handlers : call[c] = NoHandler
  BY DEF FactorsInit
<1>4. \A c \in Handlers : Knows(call[c], mfa, confirmed) /\ ~Reminds(call[c])
  BY <1>3, IdleIsNeither DEF Knows
<1>5. DaysTyped
  BY DEF FactorsInit, DaysTyped, Days
<1>6. OneJob /\ MailsAreMarked
  BY <1>4 DEF FactorsInit, OneJob, MailsAreMarked
<1> QED BY <1>1, <1>2, <1>4, <1>5, <1>6 DEF FactorsInv, FactorsAreWhole, MailInv

LEMMA FactorsStep ==
  ASSUME MaxTime \in Nat, FactorsInv, MailInv, [FactorsNext]_factorVars
  PROVE  FactorsInv' /\ MailInv'
<1>1. ASSUME FactorsInv', JobsKeep, now' \in Days, UNCHANGED <<marked, mails, lost, beside>>
      PROVE  FactorsInv' /\ MailInv'
  BY <1>1, MailsStay
<1>2. now \in Days
  BY DEF MailInv, DaysTyped
<1>3. ASSUME UNCHANGED <<mfa, call, confirmed, crossed>> PROVE FactorsInv' /\ JobsKeep
  <2>1. JobsKeep
    BY <1>3 DEF JobsKeep
  <2>2. FactorsInv'
    BY <1>3 DEF FactorsInv, CallsTyped, FactorsAreWhole
  <2> QED BY <2>1, <2>2
<1>4. ASSUME NEW c \in Handlers, EnrolStep(c) PROVE FactorsInv' /\ MailInv'
  <2>1. UNCHANGED <<role, policy, now, marked, saves, mails, lost, beside>>
    BY <1>4 DEF EnrolStep
  <2>2. FactorsInv' /\ JobsKeep
    BY <1>4, EnrolReads, EnrolWrites, ByCodeMoves DEF EnrolStep
  <2> QED BY <1>1, <1>2, <2>1, <2>2
<1>5. ASSUME NEW c \in Handlers, RemindStep(c) PROVE FactorsInv' /\ MailInv'
  BY <1>2, <1>5, RemindMoves, RemindMails
<1>6. ASSUME NEW body \in PolicyBodies, SavePolicy(body) PROVE FactorsInv' /\ MailInv'
  BY <1>1, <1>2, <1>3, <1>6 DEF SavePolicy
<1>7. CASE NextDay
  <2>1. now' \in Days
    BY <1>2, <1>7 DEF NextDay, Days
  <2> QED BY <1>1, <1>3, <1>7, <2>1 DEF NextDay
<1>8. CASE UNCHANGED factorVars
  BY <1>1, <1>2, <1>3, <1>8 DEF factorVars
<1> QED BY <1>4, <1>5, <1>6, <1>7, <1>8 DEF FactorsNext

(* A login is only asked for a factor that the user has shown, and backup  *)
(* codes go with the secret in place, unless a write rested on a stale     *)
(* read; and nobody is mailed twice under the key of a day, unless a job   *)
(* died between mail and key or two ran at once: for any number of         *)
(* requests and enrolments.                                                *)
THEOREM EnrolmentIsWhole == FactorsSpec => []EnrolmentHolds
<1>1. FactorsInit => FactorsInv /\ MailInv
  BY FactorsStart, TimeAssumption
<1>2. FactorsInv /\ MailInv /\ [FactorsNext]_factorVars => FactorsInv' /\ MailInv'
  BY FactorsStep, TimeAssumption
<1>3. FactorsInv /\ MailInv => EnrolmentHolds
  <2> SUFFICES ASSUME FactorsInv, MailInv, NEW d \in Days, mails[d] > 1, ~lost[d], ~beside[d]
               PROVE  FALSE
    BY DEF EnrolmentHolds, MailedOnce, FactorsInv
  <2>1. mails[d] <= 1 /\ mails[d] \in Nat
    BY DEF MailInv, MailsAreMarked, DaysTyped
  <2> QED BY <2>1
<1> QED BY <1>1, <1>2, <1>3, PTL DEF FactorsSpec

-----------------------------------------------------------------------------
(* Signing in, while administrators save settings, a grant comes and goes  *)
(* and second factors are added and removed.  What was read before a save  *)
(* is not trusted: the histories barred and armed only hold logins all of  *)
(* which ran under the setting, so that a login of theirs has passed each  *)
(* check while it was in force.                                            *)

(* Nothing is under way; the user has any second factors, or none.         *)
SsoStart ==
  /\ SsoInit /\ Document(mfa)
  /\ call = [c \in Handlers |-> NoHandler] /\ faults = {}

SsoSpec == SsoStart /\ [][SsoNext \/ BesideStep]_identityVars

Vouched == {"saml", "oidc"}

LoggingIn(x) ==
  /\ x.pc \in {"org", "grant", "saml_session", "exchange", "account"}
  /\ x.way \in Ways
  /\ x.pc \in {"org", "grant"} => x.way \in {"password", "link"}
  /\ x.pc = "saml_session" => x.way = "saml"
  /\ x.pc = "exchange" => x.way = "oidc"
  /\ x \in [pc : {x.pc}, way : {x.way}, saw : {x.saw}, stale : {x.stale}]

Redeems(x) ==
  /\ x.pc = "pkce"
  /\ x \in [pc : {x.pc}, way : {x.way}, saw : {x.saw}, stale : {x.stale}, state : {x.state}]

SavesSso(x) ==
  \/ /\ x.pc \in {"save_saml", "save_oidc"}
     /\ x \in [pc : {x.pc}, next : {x.next}, stale : {x.stale}]
  \/ /\ x.pc = "save_enforce" /\ x.on \in BOOLEAN
     /\ x \in [pc : {x.pc}, on : {x.on}, stale : {x.stale}]

SsoCall(x) == x = NoHandler \/ LoggingIn(x) \/ Redeems(x) \/ SavesSso(x) \/ Enrols(x)

ByPassword(x) == LoggingIn(x) /\ x.way = "password"

(* The two histories tell the truth about the settings ...                 *)
HistoryHolds ==
  /\ barred # {} => ~PasswordAllowed
  /\ armed # {} => mfa.enabled
  /\ keyed # {} => HasAuthenticator(mfa)

(* ... and what they hold has been asked.                                  *)
LoginsAreAsked ==
  \A c \in Handlers :
    /\ c \in barred /\ call[c].pc = "account" => call[c].way \in Vouched
    /\ c \in armed /\ ByPassword(call[c]) => call[c].saw.enabled
    /\ c \in keyed /\ ByPassword(call[c]) => HasAuthenticator(call[c].saw)

SsoTyped ==
  /\ call = [c \in Handlers |-> call[c]]
  /\ \A c \in Handlers : SsoCall(call[c])
  /\ Document(mfa) /\ enforce \in BOOLEAN

SsoInv == SsoTyped /\ HistoryHolds /\ LoginsAreAsked

(* How a call may go on, from y to x, when the document is doc after that: *)
(* it is admitted by the check of its way, and has read the document.      *)
Onward(y, x, doc) ==
  /\ SsoCall(x)
  /\ x.pc = "account" =>
       /\ y # NoHandler
       /\ x.way \in Vouched \/ PasswordAllowed \/ (y.pc = "account" /\ x.way = y.way)
  /\ ByPassword(x) => \/ x.saw = doc
                      \/ y # NoHandler /\ ByPassword(y) /\ x.saw = y.saw

(* What SsoNext records.                                                   *)
Remembered ==
  /\ barred' = IF PasswordAllowed' THEN {} ELSE StillFlying(barred)
  /\ armed' = IF mfa'.enabled THEN StillFlying(armed) ELSE {}
  /\ keyed' = IF HasAuthenticator(mfa') THEN StillFlying(keyed) ELSE {}

LEMMA IdleCall == SsoCall(NoHandler) /\ ~ByPassword(NoHandler) /\ NoHandler.pc = "idle"
BY DEF SsoCall, ByPassword, LoggingIn, NoHandler

LEMMA OnwardIdle == \A y, doc : Onward(y, NoHandler, doc)
BY IdleCall DEF Onward

LEMMA OnwardStays ==
  ASSUME NEW y, SsoCall(y), NEW doc
  PROVE  Onward(y, y, doc)
<1>1. CASE y = NoHandler
  BY <1>1, OnwardIdle
<1>2. CASE y # NoHandler
  BY <1>2 DEF Onward
<1> QED BY <1>1, <1>2

LEMMA OnwardStale ==
  ASSUME NEW y, SsoCall(y), y # NoHandler, NEW doc, NEW z, z = [y EXCEPT !.stale = TRUE]
  PROVE  Onward(y, z, doc)
<1>1. CASE LoggingIn(y)
  <2>1. /\ z.pc = y.pc /\ z.way = y.way /\ z.saw = y.saw
        /\ z \in [pc : {z.pc}, way : {z.way}, saw : {z.saw}, stale : {z.stale}]
    BY <1>1 DEF LoggingIn
  <2>2. LoggingIn(z)
    BY <1>1, <2>1 DEF LoggingIn
  <2> QED BY <1>1, <2>1, <2>2 DEF Onward, SsoCall, ByPassword
<1>2. CASE Redeems(y)
  <2>1. /\ z.pc = y.pc
        /\ z \in [pc : {z.pc}, way : {z.way}, saw : {z.saw}, stale : {z.stale},
                  state : {z.state}]
    BY <1>2 DEF Redeems
  <2>2. Redeems(z) /\ z.pc = "pkce"
    BY <1>2, <2>1 DEF Redeems
  <2> QED BY <2>2 DEF Onward, SsoCall, ByPassword, LoggingIn
<1>3. CASE SavesSso(y)
  <2>1. CASE y.pc \in {"save_saml", "save_oidc"}
    <3>1. /\ z.pc = y.pc /\ z \in [pc : {z.pc}, next : {z.next}, stale : {z.stale}]
      BY <1>3, <2>1 DEF SavesSso
    <3> QED BY <2>1, <3>1 DEF Onward, SsoCall, SavesSso, ByPassword, LoggingIn
  <2>2. CASE y.pc = "save_enforce"
    <3>1. /\ z.pc = y.pc /\ z.on = y.on /\ y.on \in BOOLEAN
          /\ z \in [pc : {z.pc}, on : {z.on}, stale : {z.stale}]
      BY <1>3, <2>2 DEF SavesSso
    <3> QED BY <2>2, <3>1 DEF Onward, SsoCall, SavesSso, ByPassword, LoggingIn
  <2> QED BY <1>3, <2>1, <2>2 DEF SavesSso
<1>4. CASE Enrols(y)
  <2>1. /\ z.pc = y.pc
        /\ z \in [pc : {z.pc}, saw : {z.saw}, token : {z.token}, stale : {z.stale}]
    BY <1>4 DEF Enrols
  <2>2. Enrols(z) /\ z.pc \in EnrolPcs
    BY <1>4, <2>1 DEF Enrols
  <2> QED BY <2>2 DEF Onward, SsoCall, ByPassword, LoggingIn, EnrolPcs
<1> QED BY <1>1, <1>2, <1>3, <1>4 DEF SsoCall

(* Calls that go on so keep the invariant.                                 *)
LEMMA SsoKeeps ==
  ASSUME SsoInv, Remembered, call' = [c \in Handlers |-> call'[c]],
         \A c \in Handlers : Onward(call[c], call'[c], mfa'),
         Document(mfa'), enforce' \in BOOLEAN
  PROVE  SsoInv'
<1>1. SsoTyped'
  <2>1. \A c \in Handlers : SsoCall(call'[c])
    BY DEF Onward
  <2> QED BY <2>1 DEF SsoTyped
<1>2. HistoryHolds'
  BY DEF HistoryHolds, Remembered, HasAuthenticator
<1>3. ASSUME NEW c \in Handlers
      PROVE  /\ c \in barred' /\ call'[c].pc = "account" => call'[c].way \in Vouched
             /\ c \in armed' /\ ByPassword(call'[c]) => call'[c].saw.enabled
             /\ c \in keyed' /\ ByPassword(call'[c]) => HasAuthenticator(call'[c].saw)
  <2>0. PICK x, y : x = call'[c] /\ y = call[c]
    OBVIOUS
  <2>1. Onward(y, x, mfa')
    BY <2>0
  <2>2. /\ c \in barred' /\ y # NoHandler => c \in barred /\ ~PasswordAllowed
        /\ c \in armed' => mfa'.enabled
        /\ c \in armed' /\ y # NoHandler => c \in armed
        /\ c \in keyed' => HasAuthenticator(mfa')
        /\ c \in keyed' /\ y # NoHandler => c \in keyed
    BY <2>0 DEF Remembered, StillFlying, InFlight, SsoInv, HistoryHolds
  <2>3. /\ c \in barred /\ y.pc = "account" => y.way \in Vouched
        /\ c \in armed /\ ByPassword(y) => y.saw.enabled
        /\ c \in keyed /\ ByPassword(y) => HasAuthenticator(y.saw)
    BY <2>0 DEF SsoInv, LoginsAreAsked
  <2> QED BY <2>0, <2>1, <2>2, <2>3 DEF Onward
<1>4. LoginsAreAsked'
  BY <1>3 DEF LoginsAreAsked
<1> QED BY <1>1, <1>2, <1>4 DEF SsoInv

LEMMA SsoMoves ==
  ASSUME SsoInv, Remembered, NEW c \in Handlers, NEW x, call' = [call EXCEPT ![c] = x],
         Onward(call[c], x, mfa'), Document(mfa'), enforce' \in BOOLEAN
  PROVE  SsoInv'
<1>1. call' = [d \in Handlers |-> call'[d]]
  BY DEF SsoInv, SsoTyped
<1>2. ASSUME NEW d \in Handlers PROVE Onward(call[d], call'[d], mfa')
  <2>1. CASE d = c
    <3>1. call'[d] = x
      BY <2>1 DEF SsoInv, SsoTyped
    <3> QED BY <2>1, <3>1
  <2>2. CASE d # c
    <3>1. call'[d] = call[d] /\ SsoCall(call[d])
      BY <2>2 DEF SsoInv, SsoTyped
    <3> QED BY <3>1, OnwardStays
  <2> QED BY <2>1, <2>2
<1> QED BY <1>1, <1>2, SsoKeeps

(* A call is answered, with the document as it was.                        *)
LEMMA SsoAnswered ==
  ASSUME SsoInv, Remembered, NEW c \in Handlers, call' = [call EXCEPT ![c] = NoHandler],
         UNCHANGED mfa, enforce' \in BOOLEAN
  PROVE  SsoInv'
<1>1. PICK x : x = NoHandler
  OBVIOUS
<1>2. Onward(call[c], x, mfa') /\ Document(mfa')
  BY <1>1, OnwardIdle DEF SsoInv, SsoTyped
<1> QED BY <1>1, <1>2, SsoMoves

LEMMA SsoRests ==
  ASSUME SsoInv, Remembered, UNCHANGED <<call, mfa>>, enforce' \in BOOLEAN
  PROVE  SsoInv'
<1>1. call' = [d \in Handlers |-> call'[d]] /\ Document(mfa')
  BY DEF SsoInv, SsoTyped
<1>2. \A d \in Handlers : Onward(call[d], call'[d], mfa')
  BY OnwardStays DEF SsoInv, SsoTyped
<1> QED BY <1>1, <1>2, SsoKeeps

(* An update of the document.                                              *)
LEMMA SsoWrites ==
  ASSUME SsoInv, Remembered, NEW c \in Handlers, NEW doc, Document(doc),
         SetFields(c, doc, NoHandler), UNCHANGED enforce
  PROVE  SsoInv'
<1>1. /\ mfa' = doc
      /\ call' = [d \in Handlers |-> IF d = c THEN NoHandler
                              ELSE IF call[d] = NoHandler THEN NoHandler
                              ELSE [call[d] EXCEPT !.stale = TRUE]]
  BY DEF SetFields
<1>2. call' = [d \in Handlers |-> call'[d]]
  BY <1>1
<1>3. ASSUME NEW d \in Handlers PROVE Onward(call[d], call'[d], mfa')
  <2>1. CASE call'[d] = NoHandler
    BY <2>1, OnwardIdle
  <2>2. CASE call'[d] # NoHandler
    <3>1. PICK y, z : y = call[d] /\ z = [y EXCEPT !.stale = TRUE]
      OBVIOUS
    <3>2. y # NoHandler /\ call'[d] = z
      BY <1>1, <2>2, <3>1
    <3>3. SsoCall(y)
      BY <3>1 DEF SsoInv, SsoTyped
    <3>4. Onward(y, z, mfa')
      BY <3>1, <3>2, <3>3, OnwardStale
    <3> QED BY <3>1, <3>2, <3>4
  <2> QED BY <2>1, <2>2
<1>4. Document(mfa') /\ enforce' \in BOOLEAN
  BY <1>1 DEF SsoInv, SsoTyped
<1> QED BY <1>2, <1>3, <1>4, SsoKeeps

(* Settings.                                                               *)
LEMMA SettingsKeep ==
  ASSUME SsoInv, Remembered, SettingsStep
  PROVE  SsoInv' /\ (RefusalsAreNotFaults => RefusalsAreNotFaults')
<1>0. enforce \in BOOLEAN
  BY DEF SsoInv, SsoTyped
<1>1. UNCHANGED <<mfa, faults>>
  BY DEF SettingsStep, SaveSaml, SaveOidc, SaveEnforcement, WriteSaml, WriteOidc,
         WriteEnforcement, GrantEmergency, RevokeEmergency, EmergencyEnds, SetGrant,
         SuspendOrg, enrolFrame
<1>2. ASSUME NEW c \in Handlers, NEW x, SavesSso(x), call[c] = NoHandler,
             call' = [call EXCEPT ![c] = x], UNCHANGED enforce
      PROVE  SsoInv'
  <2>1. x.pc \in {"save_saml", "save_oidc", "save_enforce"}
    BY <1>2 DEF SavesSso
  <2>2. Onward(call[c], x, mfa')
    BY <1>2, <2>1 DEF Onward, SsoCall, ByPassword, LoggingIn
  <2>3. Document(mfa') /\ enforce' \in BOOLEAN
    BY <1>0, <1>1, <1>2 DEF SsoInv, SsoTyped
  <2> QED BY <1>2, <2>2, <2>3, SsoMoves
<1>3. ASSUME NEW c \in Handlers, NEW body, SaveSaml(c, body) PROVE SsoInv'
  <2>1. enforce' \in BOOLEAN /\ UNCHANGED <<enforce, mfa>> /\ call[c] = NoHandler
    BY <1>0, <1>3 DEF SaveSaml, ssoVars, settings, enrolFrame
  <2>2. CASE UNCHANGED call
    BY <2>1, <2>2, SsoRests
  <2>3. CASE ~UNCHANGED call
    <3>1. PICK x : x = [pc |-> "save_saml", next |-> SamlNext(body), stale |-> FALSE]
      OBVIOUS
    <3>2. call' = [call EXCEPT ![c] = x]
      BY <1>3, <2>3, <3>1 DEF SaveSaml
    <3>3. SavesSso(x)
      BY <3>1 DEF SavesSso
    <3> QED BY <1>2, <2>1, <3>2, <3>3
  <2> QED BY <2>2, <2>3
<1>4. ASSUME NEW c \in Handlers, NEW body, SaveOidc(c, body) PROVE SsoInv'
  <2>1. enforce' \in BOOLEAN /\ UNCHANGED <<enforce, mfa>> /\ call[c] = NoHandler
    BY <1>0, <1>4 DEF SaveOidc, ssoVars, settings, enrolFrame
  <2>2. CASE UNCHANGED call
    BY <2>1, <2>2, SsoRests
  <2>3. CASE ~UNCHANGED call
    <3>1. PICK x : x = [pc |-> "save_oidc", next |-> OidcNext(body), stale |-> FALSE]
      OBVIOUS
    <3>2. call' = [call EXCEPT ![c] = x]
      BY <1>4, <2>3, <3>1 DEF SaveOidc
    <3>3. SavesSso(x)
      BY <3>1 DEF SavesSso
    <3> QED BY <1>2, <2>1, <3>2, <3>3
  <2> QED BY <2>2, <2>3
<1>5. ASSUME NEW c \in Handlers, NEW on \in BOOLEAN, SaveEnforcement(c, on) PROVE SsoInv'
  <2>1. enforce' \in BOOLEAN /\ UNCHANGED <<enforce, mfa>> /\ call[c] = NoHandler
    BY <1>0, <1>5 DEF SaveEnforcement, ssoVars, settings, enrolFrame
  <2>2. CASE UNCHANGED call
    BY <2>1, <2>2, SsoRests
  <2>3. CASE ~UNCHANGED call
    <3>1. PICK x : x = [pc |-> "save_enforce", on |-> on, stale |-> FALSE]
      OBVIOUS
    <3>2. call' = [call EXCEPT ![c] = x]
      BY <1>5, <2>3, <3>1 DEF SaveEnforcement
    <3>3. x.pc = "save_enforce" /\ x.on = on
          /\ x \in [pc : {x.pc}, on : {x.on}, stale : {x.stale}]
      BY <3>1
    <3>4. SavesSso(x)
      BY <3>3 DEF SavesSso
    <3> QED BY <1>2, <2>1, <3>2, <3>4
  <2> QED BY <2>2, <2>3
<1>6. ASSUME NEW c \in Handlers, WriteSaml(c) \/ WriteOidc(c) PROVE SsoInv'
  <2>1. call' = [call EXCEPT ![c] = NoHandler] /\ enforce' = enforce
    BY <1>6 DEF WriteSaml, WriteOidc
  <2> QED BY <1>0, <1>1, <2>1, SsoAnswered
<1>7. ASSUME NEW c \in Handlers, WriteEnforcement(c) PROVE SsoInv'
  <2>1. /\ call' = [call EXCEPT ![c] = NoHandler] /\ enforce' = call[c].on
        /\ call[c].pc = "save_enforce" /\ SsoCall(call[c])
    BY <1>7 DEF WriteEnforcement, SsoInv, SsoTyped
  <2>2. enforce' \in BOOLEAN
    BY <2>1 DEF SsoCall, LoggingIn, Redeems, SavesSso, Enrols, EnrolPcs, NoHandler
  <2> QED BY <1>1, <2>1, <2>2, SsoAnswered
<1>8. ASSUME GrantEmergency \/ RevokeEmergency \/ EmergencyEnds \/ SuspendOrg PROVE SsoInv'
  <2>1. UNCHANGED <<call, enforce>>
    BY <1>8 DEF GrantEmergency, RevokeEmergency, EmergencyEnds, SetGrant, SuspendOrg
  <2> QED BY <1>0, <1>1, <2>1, SsoRests
<1>9. RefusalsAreNotFaults => RefusalsAreNotFaults'
  BY <1>1 DEF RefusalsAreNotFaults
<1> QED BY <1>3, <1>4, <1>5, <1>6, <1>7, <1>8, <1>9 DEF SettingsStep

(* A second factor is added or removed.                                    *)
LEMMA FactorsKeep ==
  ASSUME SsoInv, Remembered, FactorStep
  PROVE  SsoInv' /\ (RefusalsAreNotFaults => RefusalsAreNotFaults')
<1>0. enforce' = enforce /\ enforce' \in BOOLEAN
  BY DEF FactorStep, ssoVars, settings, SsoInv, SsoTyped
<1>1. PICK c \in Handlers :
        \/ VerifySms(c, TRUE) \/ SmsWrite(c) \/ DisableSms(c) \/ SmsOffWrite(c)
        \/ DisableTotp(c, <<"totp", mfa.secret>>) \/ DisableWrite(c)
  BY DEF FactorStep
<1>2. ASSUME NEW pc \in {"sms", "sms_off", "disable"}, NEW token,
             Proceed(c, Read(pc, mfa, token)), UNCHANGED mfa
      PROVE  SsoInv' /\ RefusalsAreNotFaults'
  <2>1. PICK doc : doc = mfa
    OBVIOUS
  <2>2. PICK x : x = Read(pc, doc, token)
    OBVIOUS
  <2>3. x.pc = pc /\ x \in [pc : {x.pc}, saw : {x.saw}, token : {x.token}, stale : {x.stale}]
    BY <2>2 DEF Read
  <2>4. Enrols(x)
    BY <2>3 DEF Enrols, EnrolPcs
  <2>5. Onward(call[c], x, mfa')
    BY <2>3, <2>4 DEF Onward, SsoCall, ByPassword, LoggingIn
  <2>6. call' = [call EXCEPT ![c] = x] /\ faults' = {}
    BY <1>2, <2>1, <2>2 DEF Proceed
  <2>7. Document(mfa')
    BY <1>2 DEF SsoInv, SsoTyped
  <2> QED BY <1>0, <2>5, <2>6, <2>7, SsoMoves DEF RefusalsAreNotFaults
<1>3. CASE VerifySms(c, TRUE)
  BY <1>2, <1>3 DEF VerifySms
<1>4. CASE DisableSms(c) /\ mfa.sms
  BY <1>2, <1>4 DEF DisableSms
<1>5. ASSUME NEW name, NEW handler \in {DisableSmsAnswers, DisableTotpAnswers},
             Respond(c, name, handler, "not_enabled"), UNCHANGED mfa
      PROVE  SsoInv' /\ RefusalsAreNotFaults'
  <2>1. call' = [call EXCEPT ![c] = NoHandler] /\ Noted(name, handler, "not_enabled")
    BY <1>5 DEF Respond
  <2>2. Answer(handler, "not_enabled") = 404
    BY DEF Answer, DisableSmsAnswers, DisableTotpAnswers
  <2>3. faults' = {}
    BY <2>1, <2>2 DEF Noted, Fault
  <2> QED BY <1>0, <1>5, <2>1, <2>3, SsoAnswered DEF RefusalsAreNotFaults
<1>7. CASE DisableSms(c) /\ ~mfa.sms
  BY <1>5, <1>7 DEF DisableSms
<1>8. CASE DisableTotp(c, <<"totp", mfa.secret>>)
  BY <1>2, <1>5, <1>8 DEF DisableTotp
<1>6. CASE SmsWrite(c) \/ SmsOffWrite(c) \/ DisableWrite(c)
  <2>1. PICK m : m = mfa
    OBVIOUS
  <2>2. Document(m)
    BY <2>1 DEF SsoInv, SsoTyped
  <2>3. PICK doc : /\ doc \in {[m EXCEPT !.enabled = TRUE, !.sms = TRUE],
                             [m EXCEPT !.enabled = StillTotp(call[c].saw), !.sms = FALSE],
                             Disabled(m)}
                   /\ SetFields(c, doc, NoHandler)
    BY <1>6, <2>1 DEF SmsWrite, SmsOffWrite, DisableWrite
  <2>4. Document(doc)
    BY <2>2, <2>3 DEF Document, Disabled
  <2>5. UNCHANGED faults
    BY <1>6 DEF SmsWrite, SmsOffWrite, DisableWrite
  <2> QED BY <1>0, <2>3, <2>4, <2>5, SsoWrites DEF RefusalsAreNotFaults
<1> QED BY <1>1, <1>3, <1>4, <1>6, <1>7, <1>8

(* What is answered as no fault.                                           *)
LEMMA NoFault ==
  ASSUME NEW name, NEW handler, NEW outcome, Noted(name, handler, outcome),
         name \in Vouched \/ Answer(handler, outcome) # Fault
  PROVE  RefusalsAreNotFaults'
<1>1. \A f \in faults' : f = <<name, outcome>> /\ Answer(handler, outcome) = Fault
  BY DEF Noted
<1> QED BY <1>1 DEF RefusalsAreNotFaults, Vouched

(* The handlers of a password and of a link have a case for every refusal  *)
(* of a login.                                                             *)
LEMMA LoginRefusals ==
  ASSUME NEW outcome \in {"ok", "sso_required", "account_locked", "invalid_credentials",
                          "mfa_required", "invalid_mfa"},
         NEW way \in {"password", "link"}
  PROVE  Answer(Answers(way), outcome) # Fault
<1>1. CASE way = "password"
  BY <1>1 DEF Answers, LoginAnswers, Answer, Fault
<1>2. CASE way = "link"
  BY <1>2 DEF Answers, MagicLinkAnswers, Answer, Fault
<1> QED BY <1>1, <1>2

(* Handlers beside a login.                                                *)
LEMMA BesideAnswers ==
  ASSUME NEW c \in Handlers, BesideCall(c)
  PROVE  \E name, handler, outcome :
           /\ Beside(c, name, handler, outcome)
           /\ Answer(handler, outcome) # Fault
<1>1. ASSUME LoginOptions(c) \/ SendLink(c) \/ ListSessions(c) \/ RevokeSessions(c)
      PROVE  \E name, handler, outcome :
               Beside(c, name, handler, outcome) /\ Answer(handler, outcome) # Fault
  <2>1. /\ Answer(LoginOptionsAnswers, "ok") # Fault /\ Answer(SendLinkAnswers, "ok") # Fault
        /\ Answer(ListSessionsAnswers, "ok") # Fault /\ Answer(RevokeSessionsAnswers, "ok") # Fault
    BY DEF Answer, Fault, LoginOptionsAnswers, SendLinkAnswers, ListSessionsAnswers,
           RevokeSessionsAnswers
  <2> QED BY <1>1, <2>1 DEF LoginOptions, SendLink, ListSessions, RevokeSessions
<1>2. ASSUME NEW outcome \in SendOutcomes, SendSms(c, outcome)
      PROVE  \E name, handler, answer :
               Beside(c, name, handler, answer) /\ Answer(handler, answer) # Fault
  <2>1. Answer(SendSmsAnswers, outcome) # Fault
    BY DEF Answer, Fault, SendSmsAnswers, SendOutcomes
  <2> QED BY <1>2, <2>1 DEF SendSms
<1>3. ASSUME NEW outcome \in SendOutcomes, NEW found, NEW right,
             SendLoginSms(c, found, right, outcome)
      PROVE  \E name, handler, answer :
               Beside(c, name, handler, answer) /\ Answer(handler, answer) # Fault
  <2>1. LoginSms(found, right, outcome) \in SendOutcomes \cup {"invalid_credentials"}
    BY DEF LoginSms
  <2>2. \A answer \in SendOutcomes \cup {"invalid_credentials"} :
          Answer(SendLoginSmsAnswers, answer) # Fault
    BY DEF Answer, Fault, SendLoginSmsAnswers, SendOutcomes
  <2> QED BY <1>3, <2>1, <2>2 DEF SendLoginSms
<1>4. ASSUME NEW outcome \in {"ok", "no_token", "unauthorized", "token_reuse",
                              "invalid_refresh_token"},
             RefreshTokens(c, outcome)
      PROVE  \E name, handler, answer :
               Beside(c, name, handler, answer) /\ Answer(handler, answer) # Fault
  <2>1. Answer(RefreshAnswers, outcome) # Fault
    BY DEF Answer, Fault, RefreshAnswers
  <2> QED BY <1>4, <2>1 DEF RefreshTokens
<1>5. ASSUME NEW yes \in BOOLEAN, LogoutTokens(c, yes) \/ RevokeSession(c, yes)
      PROVE  \E name, handler, answer :
               Beside(c, name, handler, answer) /\ Answer(handler, answer) # Fault
  <2>1. /\ Answer(LogoutAnswers, "ok") # Fault /\ Answer(LogoutAnswers, "no_token") # Fault
        /\ Answer(RevokeSessionAnswers, "ok") # Fault
        /\ Answer(RevokeSessionAnswers, "not_found") # Fault
    BY DEF Answer, Fault, LogoutAnswers, RevokeSessionAnswers
  <2>2. /\ (IF yes THEN "ok" ELSE "no_token") \in {"ok", "no_token"}
        /\ (IF yes THEN "ok" ELSE "not_found") \in {"ok", "not_found"}
    OBVIOUS
  <2> QED BY <1>5, <2>1, <2>2 DEF LogoutTokens, RevokeSession
<1>6. ASSUME NEW own, NEW admin, NEW found, RevokeTokens(c, own, admin, found)
      PROVE  \E name, handler, answer :
               Beside(c, name, handler, answer) /\ Answer(handler, answer) # Fault
  <2>1. \A answer \in {"ok", "forbidden", "not_in_org"} :
          Answer(RevokeTokensAnswers, answer) # Fault
    BY DEF Answer, Fault, RevokeTokensAnswers
  <2>2. (IF own \/ (admin /\ found) THEN "ok" ELSE IF ~admin THEN "forbidden" ELSE "not_in_org")
          \in {"ok", "forbidden", "not_in_org"}
    OBVIOUS
  <2> QED BY <1>6, <2>1, <2>2 DEF RevokeTokens
<1> QED BY <1>1, <1>2, <1>3, <1>4, <1>5, <1>6 DEF BesideCall

LEMMA BesideKeeps ==
  ASSUME SsoInv, BesideStep
  PROVE  SsoInv' /\ RefusalsAreNotFaults'
<1>1. PICK c \in Handlers : BesideCall(c)
  BY DEF BesideStep
<1>2. PICK name, handler, outcome :
        Beside(c, name, handler, outcome) /\ Answer(handler, outcome) # Fault
  BY <1>1, BesideAnswers
<1>3. /\ call[c] = NoHandler /\ call' = [call EXCEPT ![c] = NoHandler]
      /\ Noted(name, handler, outcome) /\ UNCHANGED ssoVars
  BY <1>2 DEF Beside, Respond
<1>4. /\ call' = call /\ UNCHANGED <<mfa, enforce, grant, barred, armed, keyed>>
  BY <1>3 DEF SsoInv, SsoTyped, BesideStep, ssoVars, settings, enrolFrame, ssoHistory
<1>5. SsoInv'
  BY <1>4 DEF SsoInv, SsoTyped, HistoryHolds, LoginsAreAsked, PasswordAllowed,
            HasAuthenticator
<1> QED BY <1>2, <1>3, <1>5, NoFault

(* A login goes on to a later check.                                       *)
LEMMA LoginMoves ==
  ASSUME SsoInv, Remembered, NEW c \in Handlers, NEW x, Proceed(c, x), UNCHANGED <<mfa, enforce>>,
         LoggingIn(x) \/ Redeems(x), Onward(call[c], x, mfa)
  PROVE  SsoInv' /\ RefusalsAreNotFaults'
<1>1. call' = [call EXCEPT ![c] = x] /\ faults' = {}
  BY DEF Proceed
<1>2. Document(mfa') /\ enforce' \in BOOLEAN /\ Onward(call[c], x, mfa')
  BY DEF SsoInv, SsoTyped
<1> QED BY <1>1, <1>2, SsoMoves DEF RefusalsAreNotFaults

LEMMA LoginAnswered ==
  ASSUME SsoInv, Remembered, NEW c \in Handlers, NEW name, NEW handler, NEW outcome,
         Respond(c, name, handler, outcome), UNCHANGED <<mfa, enforce>>,
         name \in Vouched \/ Answer(handler, outcome) # Fault
  PROVE  SsoInv' /\ RefusalsAreNotFaults'
<1>1. call' = [call EXCEPT ![c] = NoHandler] /\ Noted(name, handler, outcome)
  BY DEF Respond
<1>2. enforce' \in BOOLEAN
  BY DEF SsoInv, SsoTyped
<1> QED BY <1>1, <1>2, SsoAnswered, NoFault

(* The first step of a login.                                              *)
LEMMA Begun ==
  ASSUME NEW y, NEW doc, NEW x,
         \/ x = LoginState("saml_session", "saml") \/ x = LoginState("exchange", "oidc")
         \/ x = LoginState("org", "link")
         \/ x = [LoginState("org", "password") EXCEPT !.saw = doc]
  PROVE  LoggingIn(x) /\ Onward(y, x, doc)
<1>1. PICK z : z = LoginState("org", "password")
  OBVIOUS
<1>2. z = [pc |-> "org", way |-> "password", saw |-> NoFactors, stale |-> FALSE]
  BY <1>1 DEF LoginState
<1>3. /\ x \in [pc : {x.pc}, way : {x.way}, saw : {x.saw}, stale : {x.stale}]
      /\ \/ x.pc = "saml_session" /\ x.way = "saml"
         \/ x.pc = "exchange" /\ x.way = "oidc"
         \/ x.pc = "org" /\ x.way = "link"
         \/ x.pc = "org" /\ x.way = "password" /\ x.saw = doc
  BY <1>1, <1>2 DEF LoginState
<1>4. LoggingIn(x)
  BY <1>3 DEF LoggingIn, Ways
<1> QED BY <1>3, <1>4 DEF Onward, SsoCall, ByPassword

(* A later one: the check of its way has admitted it.                      *)
LEMMA Admitted ==
  ASSUME NEW y, LoggingIn(y), NEW pc \in {"grant", "account"}, NEW doc,
         NEW x, x = [y EXCEPT !.pc = pc],
         pc = "grant" => y.pc = "org",
         pc = "account" => y.way \in Vouched \/ PasswordAllowed
  PROVE  LoggingIn(x) /\ Onward(y, x, doc)
<1>1. /\ x.pc = pc /\ x.way = y.way /\ x.saw = y.saw
      /\ x \in [pc : {x.pc}, way : {x.way}, saw : {x.saw}, stale : {x.stale}]
  BY DEF LoggingIn
<1>2. LoggingIn(x)
  BY <1>1 DEF LoggingIn
<1>3. y # NoHandler
  BY DEF LoggingIn, NoHandler
<1> QED BY <1>1, <1>2, <1>3 DEF Onward, SsoCall, ByPassword

LEMMA LoginsKeep ==
  ASSUME SsoInv, Remembered, LoginStep
  PROVE  SsoInv' /\ (RefusalsAreNotFaults => RefusalsAreNotFaults')
<1>0. UNCHANGED <<mfa, enforce>>
  BY DEF LoginStep, enrolFrame, PasswordLogin, LinkLogin, CheckEnforcement, CheckGrant, SamlCallback,
         SaveSamlSession, SamlPages, SamlLogout, OidcLogin, OidcCallback, ConsumeState,
         OidcExchange, StateExpires, Goto, Login, Refuse, ssoVars, settings
<1>a. enforce' \in BOOLEAN
  BY <1>0 DEF SsoInv, SsoTyped
<1>1. ASSUME NEW c \in Handlers, PasswordLogin(c) \/ LinkLogin(c)
      PROVE  SsoInv' /\ RefusalsAreNotFaults'
  <2>1. PICK doc : doc = mfa
    OBVIOUS
  <2>2. PICK x : /\ \/ x = LoginState("org", "link")
                    \/ x = [LoginState("org", "password") EXCEPT !.saw = doc]
                 /\ Proceed(c, x)
    BY <1>1, <2>1 DEF PasswordLogin, LinkLogin, Login
  <2>3. LoggingIn(x) /\ Onward(call[c], x, doc)
    BY <2>2, Begun
  <2> QED BY <1>0, <2>1, <2>2, <2>3, LoginMoves
<1>2. ASSUME NEW c \in Handlers, NEW pc \in {"grant", "account"}, Proceed(c, [call[c] EXCEPT !.pc = pc]),
             LoggingIn(call[c]), pc = "grant" => call[c].pc = "org",
             pc = "account" => call[c].way \in Vouched \/ PasswordAllowed
      PROVE  SsoInv' /\ RefusalsAreNotFaults'
  <2>1. PICK y, x : y = call[c] /\ x = [y EXCEPT !.pc = pc]
    OBVIOUS
  <2>2. LoggingIn(x) /\ Onward(y, x, mfa)
    BY <1>2, <2>1, Admitted
  <2> QED BY <1>0, <1>2, <2>1, <2>2, LoginMoves
<1>b. ASSUME NEW c \in Handlers, call[c].pc \in {"org", "grant", "saml_session", "exchange", "account"}
      PROVE  LoggingIn(call[c])
  <2>1. SsoCall(call[c])
    BY DEF SsoInv, SsoTyped
  <2> QED BY <1>b, <2>1 DEF SsoCall, Redeems, SavesSso, Enrols, EnrolPcs, NoHandler
<1>3. ASSUME NEW c \in Handlers, CheckEnforcement(c)
      PROVE  SsoInv' /\ RefusalsAreNotFaults'
  <2>1. call[c].pc = "org" /\ LoggingIn(call[c])
    BY <1>3, <1>b DEF CheckEnforcement
  <2>2. CASE enforce
    <3>1. Proceed(c, [call[c] EXCEPT !.pc = "grant"])
      BY <1>3, <2>2 DEF CheckEnforcement, Goto, Login
    <3> QED BY <1>2, <2>1, <3>1
  <2>3. CASE ~enforce
    <3>1. Proceed(c, [call[c] EXCEPT !.pc = "account"])
      BY <1>3, <2>3 DEF CheckEnforcement, Goto, Login
    <3>2. PasswordAllowed
      BY <2>3 DEF PasswordAllowed
    <3> QED BY <1>2, <2>1, <3>1, <3>2
  <2> QED BY <2>2, <2>3
<1>4. ASSUME NEW c \in Handlers, CheckGrant(c)
      PROVE  SsoInv' /\ RefusalsAreNotFaults'
  <2>1. call[c].pc = "grant" /\ LoggingIn(call[c]) /\ call[c].way \in {"password", "link"}
    BY <1>4, <1>b DEF CheckGrant, LoggingIn
  <2>2. CASE EmergencyActive
    <3>1. Proceed(c, [call[c] EXCEPT !.pc = "account"])
      BY <1>4, <2>2 DEF CheckGrant, Goto, Login
    <3>2. PasswordAllowed
      BY <2>2 DEF PasswordAllowed, EmergencyActive
    <3> QED BY <1>2, <2>1, <3>1, <3>2
  <2>3. CASE ~EmergencyActive
    <3>1. Respond(c, call[c].way, Answers(call[c].way), "sso_required")
      BY <1>4, <2>3 DEF CheckGrant, Refuse
    <3>2. Answer(Answers(call[c].way), "sso_required") # Fault
      BY <2>1, LoginRefusals
    <3> QED BY <1>0, <3>1, <3>2, LoginAnswered
  <2> QED BY <2>2, <2>3
<1>5. ASSUME NEW c \in Handlers, NEW found, SamlCallback(c, found)
      PROVE  SsoInv' /\ RefusalsAreNotFaults'
  <2>1. CASE Login(c, LoginState("saml_session", "saml"))
    <3>1. PICK x : x = LoginState("saml_session", "saml")
      OBVIOUS
    <3>2. LoggingIn(x) /\ Onward(call[c], x, mfa)
      BY <3>1, Begun
    <3> QED BY <1>0, <2>1, <3>1, <3>2, LoginMoves DEF Login
  <2>2. CASE \E outcome : Respond(c, "saml", SamlCallbackAnswers, outcome)
    BY <1>0, <2>2, LoginAnswered DEF Vouched
  <2> QED BY <1>5, <2>1, <2>2 DEF SamlCallback
<1>6. ASSUME NEW c \in Handlers, SaveSamlSession(c)
      PROVE  SsoInv' /\ (RefusalsAreNotFaults => RefusalsAreNotFaults')
  <2>1. call[c].pc = "saml_session" /\ LoggingIn(call[c]) /\ call[c].way \in Vouched
    BY <1>6, <1>b DEF SaveSamlSession, LoggingIn, Vouched
  <2>2. PICK y, x : y = call[c] /\ x = [y EXCEPT !.pc = "account"]
    OBVIOUS
  <2>3. call' = [call EXCEPT ![c] = x] /\ faults' = faults
    BY <1>6, <2>2 DEF SaveSamlSession
  <2>4. Onward(y, x, mfa')
    BY <2>1, <2>2, Admitted
  <2>5. Document(mfa')
    BY <1>0 DEF SsoInv, SsoTyped
  <2> QED BY <1>a, <2>2, <2>3, <2>4, <2>5, SsoMoves DEF RefusalsAreNotFaults
<1>7. ASSUME NEW c \in Handlers, SamlPages(c)
      PROVE  SsoInv' /\ RefusalsAreNotFaults'
  <2>1. PICK handler \in {SamlLoginAnswers, SamlMetadataAnswers}, outcome \in {"ok", "not_configured"} :
          Respond(c, "saml_page", handler, outcome)
    BY <1>7 DEF SamlPages
  <2>2. Answer(handler, outcome) # Fault
    BY DEF Answer, Fault, SamlLoginAnswers, SamlMetadataAnswers
  <2> QED BY <1>0, <2>1, <2>2, LoginAnswered
<1>8. ASSUME NEW c \in Handlers, SamlLogout(c)
      PROVE  SsoInv' /\ RefusalsAreNotFaults'
  <2>1. PICK outcome \in {"ok", "nothing", "not_configured"} :
          Respond(c, "saml_logout", SamlLogoutAnswers, outcome)
    BY <1>8 DEF SamlLogout
  <2>2. Answer(SamlLogoutAnswers, outcome) # Fault
    BY DEF Answer, Fault, SamlLogoutAnswers
  <2> QED BY <1>0, <2>1, <2>2, LoginAnswered
<1>9. ASSUME NEW c \in Handlers, OidcLogin(c)
      PROVE  SsoInv' /\ RefusalsAreNotFaults'
  <2>1. PICK outcome \in {"ok", "not_configured"} :
          Respond(c, "oidc_page", OidcLoginAnswers, outcome)
    BY <1>9 DEF OidcLogin
  <2>2. Answer(OidcLoginAnswers, outcome) # Fault
    BY DEF Answer, Fault, OidcLoginAnswers
  <2> QED BY <1>0, <2>1, <2>2, LoginAnswered
<1>10. ASSUME NEW c \in Handlers, NEW state, OidcCallback(c, state)
       PROVE  SsoInv' /\ RefusalsAreNotFaults'
  <2>1. CASE Respond(c, "oidc", OidcCallbackAnswers, "callback_failed")
    BY <1>0, <2>1, LoginAnswered DEF Vouched
  <2>2. PICK x : x = [pc |-> "pkce", way |-> "oidc", saw |-> NoFactors, stale |-> FALSE,
                      state |-> state]
    OBVIOUS
  <2>3. x.pc = "pkce" /\ Redeems(x)
    BY <2>2 DEF Redeems
  <2>4. Onward(call[c], x, mfa)
    BY <2>3 DEF Onward, SsoCall, ByPassword, LoggingIn
  <2>5. CASE Proceed(c, x)
    BY <1>0, <2>3, <2>4, <2>5, LoginMoves
  <2> QED BY <1>10, <2>1, <2>2, <2>5 DEF OidcCallback, Login
<1>11. ASSUME NEW c \in Handlers, NEW mine, ConsumeState(c, mine)
       PROVE  SsoInv' /\ (RefusalsAreNotFaults => RefusalsAreNotFaults')
  <2>1. CASE Respond(c, "oidc", OidcCallbackAnswers, "callback_failed")
    BY <1>0, <2>1, LoginAnswered DEF Vouched
  <2>2. PICK x : x = LoginState("exchange", "oidc")
    OBVIOUS
  <2>3. Onward(call[c], x, mfa')
    BY <2>2, Begun
  <2>4. Document(mfa')
    BY <1>0 DEF SsoInv, SsoTyped
  <2>5. CASE call' = [call EXCEPT ![c] = x] /\ UNCHANGED faults
    BY <1>a, <2>3, <2>4, <2>5, SsoMoves DEF RefusalsAreNotFaults
  <2> QED BY <1>11, <2>1, <2>2, <2>5 DEF ConsumeState
<1>12. ASSUME NEW c \in Handlers, NEW accepted, NEW found, OidcExchange(c, accepted, found)
       PROVE  SsoInv' /\ RefusalsAreNotFaults'
  <2>1. LoggingIn(call[c]) /\ call[c].way = "oidc" /\ call[c].way \in Vouched
    BY <1>12, <1>b DEF OidcExchange, LoggingIn, Vouched
  <2>2. CASE \E outcome : Refuse(c, outcome)
    BY <1>0, <2>1, <2>2, LoginAnswered DEF Refuse
  <2>3. CASE Goto(c, "account")
    <3>1. Proceed(c, [call[c] EXCEPT !.pc = "account"])
      BY <2>3 DEF Goto, Login
    <3> QED BY <1>2, <2>1, <3>1
  <2> QED BY <1>12, <2>2, <2>3 DEF OidcExchange
<1>13. ASSUME NEW state, StateExpires(state)
       PROVE  SsoInv' /\ (RefusalsAreNotFaults => RefusalsAreNotFaults')
  <2>1. UNCHANGED <<call, faults>>
    BY <1>13 DEF StateExpires
  <2> QED BY <1>0, <1>a, <2>1, SsoRests DEF RefusalsAreNotFaults
<1> QED BY <1>1, <1>3, <1>4, <1>5, <1>6, <1>7, <1>8, <1>9, <1>10, <1>11, <1>12, <1>13
        DEF LoginStep

(* The lock, the status and the factor decide.                             *)
LEMMA DecisionKeeps ==
  ASSUME SsoInv, Remembered, Decision
  PROVE  SsoInv' /\ RefusalsAreNotFaults' /\ SignInIsGuarded'
<1>1. PICK c \in Handlers, refusal \in {"ok", "account_locked", "invalid_credentials"},
           given \in Given : call[c].pc = "account" /\ Account(c, refusal, given)
  BY DEF Decision
<1>2. LoggingIn(call[c])
  <2>1. SsoCall(call[c])
    BY DEF SsoInv, SsoTyped
  <2> QED BY <1>1, <2>1 DEF SsoCall, Redeems, SavesSso, Enrols, EnrolPcs, NoHandler
<1>3. UNCHANGED <<mfa, enforce>>
  BY <1>1 DEF Decision, Account, enrolFrame, ssoVars, settings
<1> DEFINE way == call[c].way
           doc == IF way = "password" THEN call[c].saw ELSE mfa
           outcome == IF refusal # "ok" THEN refusal
                      ELSE IF ~AsksFactor(doc, way) THEN "ok"
                      ELSE IF given = "none" THEN "mfa_required"
                      ELSE IF FactorPasses(doc, given) THEN "ok" ELSE "invalid_mfa"
<1>4. Respond(c, way, Answers(way), outcome)
  BY <1>1 DEF Account
<1>5. /\ outcome = "ok" =>
           (~doc.enabled \/ (given # "none" /\ (HasAuthenticator(doc) => given = "right")))
      /\ outcome \in {"ok", "account_locked", "invalid_credentials", "mfa_required",
                      "invalid_mfa"}
  BY DEF AsksFactor, FactorPasses, HasAuthenticator
<1>6. entry' = IF outcome # "ok" THEN NoEntry
               ELSE [way |-> way, given |-> given, barred |-> c \in barred,
                     armed |-> c \in armed, keyed |-> c \in keyed]
  BY <1>1 DEF Account
<1>7. c \in barred => way \in {"saml", "oidc"}
  BY <1>1 DEF SsoInv, LoginsAreAsked, Vouched
<1>8. (c \in armed => doc.enabled) /\ (c \in keyed => HasAuthenticator(doc))
  BY <1>2 DEF SsoInv, LoginsAreAsked, HistoryHolds, ByPassword
<1>9. way \in Vouched \/ Answer(Answers(way), outcome) # Fault
  <2> HIDE DEF outcome
  <2>1. way \in Vouched \cup {"password", "link"}
    BY <1>2 DEF LoggingIn, Ways, Vouched
  <2> QED BY <1>5, <2>1, LoginRefusals
<1> HIDE DEF outcome, way, doc
<1>10. SsoInv' /\ RefusalsAreNotFaults'
  BY <1>3, <1>4, <1>9, LoginAnswered
<1>11. SignInIsGuarded'
  BY <1>5, <1>6, <1>7, <1>8
     DEF SignInIsGuarded, EnforcedMeansProvider, FactorIsAsked, HasAuthenticator
<1> QED BY <1>10, <1>11

LEMMA NoEntryIsGuarded ==
  ASSUME entry' = NoEntry
  PROVE  SignInIsGuarded'
BY DEF SignInIsGuarded, EnforcedMeansProvider, FactorIsAsked

LEMMA SsoBegins ==
  ASSUME SsoStart
  PROVE  SsoInv /\ RefusalsAreNotFaults /\ SignInIsGuarded
<1>1. SsoTyped
  BY IdleCall DEF SsoStart, SsoInit, SsoTyped
<1>2. HistoryHolds /\ LoginsAreAsked
  BY DEF SsoStart, SsoInit, HistoryHolds, LoginsAreAsked
<1>3. RefusalsAreNotFaults /\ SignInIsGuarded
  BY DEF SsoStart, SsoInit, RefusalsAreNotFaults, SignInIsGuarded, EnforcedMeansProvider,
         FactorIsAsked
<1> QED BY <1>1, <1>2, <1>3 DEF SsoInv

LEMMA SsoStep ==
  ASSUME SsoInv, RefusalsAreNotFaults, SignInIsGuarded,
         [SsoNext \/ BesideStep]_identityVars
  PROVE  SsoInv' /\ RefusalsAreNotFaults' /\ SignInIsGuarded'
<1>1. CASE SsoNext
  <2>1. Remembered
    BY <1>1 DEF SsoNext, Remembered
  <2>2. CASE SettingsStep
    <3>1. entry' = NoEntry
      BY <2>2 DEF SettingsStep
    <3> QED BY <2>1, <2>2, <3>1, SettingsKeep, NoEntryIsGuarded
  <2>3. CASE LoginStep
    <3>1. entry' = NoEntry
      BY <2>3 DEF LoginStep
    <3> QED BY <2>1, <2>3, <3>1, LoginsKeep, NoEntryIsGuarded
  <2>4. CASE Decision
    BY <2>1, <2>4, DecisionKeeps
  <2>5. CASE FactorStep
    <3>1. entry' = NoEntry
      BY <2>5 DEF FactorStep
    <3> QED BY <2>1, <2>5, <3>1, FactorsKeep, NoEntryIsGuarded
  <2> QED BY <1>1, <2>2, <2>3, <2>4, <2>5 DEF SsoNext
<1>2. CASE BesideStep
  <2>1. UNCHANGED entry
    BY <1>2 DEF BesideStep, ssoHistory
  <2>2. SignInIsGuarded'
    BY <2>1 DEF SignInIsGuarded, EnforcedMeansProvider, FactorIsAsked
  <2> QED BY <1>2, <2>2, BesideKeeps
<1>3. CASE UNCHANGED identityVars
  <2>1. UNCHANGED <<call, mfa, enforce, grant, barred, armed, keyed, faults, entry>>
    BY <1>3 DEF identityVars, factorVars, ssoVars, settings, ssoHistory
  <2>2. SsoInv'
    BY <2>1 DEF SsoInv, SsoTyped, HistoryHolds, LoginsAreAsked, PasswordAllowed,
              HasAuthenticator
  <2>3. RefusalsAreNotFaults' /\ SignInIsGuarded'
    BY <2>1 DEF RefusalsAreNotFaults, SignInIsGuarded, EnforcedMeansProvider, FactorIsAsked
  <2> QED BY <2>2, <2>3
<1> QED BY <1>1, <1>2, <1>3

(* However saves, grants and second factors interleave with logins, one    *)
(* that ran while only the provider may vouch ends at the provider, and    *)
(* one that ran while the user had an authenticator, or another second     *)
(* factor, was given the right code, or for the other one some code.       *)
THEOREM SignInStaysGuarded == SsoSpec => []SignInIsGuarded
<1>1. SsoStart => SsoInv /\ RefusalsAreNotFaults /\ SignInIsGuarded
  BY SsoBegins
<1>2. /\ SsoInv /\ RefusalsAreNotFaults /\ SignInIsGuarded
      /\ [SsoNext \/ BesideStep]_identityVars
      => SsoInv' /\ RefusalsAreNotFaults' /\ SignInIsGuarded'
  BY SsoStep
<1> QED BY <1>1, <1>2, PTL DEF SsoSpec

(* Every refusal of a handler has an answer of its own, except those of    *)
(* the callbacks of the providers.                                         *)
THEOREM RefusalsAreAnswered == SsoSpec => []RefusalsAreNotFaults
<1>1. SsoStart => SsoInv /\ RefusalsAreNotFaults /\ SignInIsGuarded
  BY SsoBegins
<1>2. /\ SsoInv /\ RefusalsAreNotFaults /\ SignInIsGuarded
      /\ [SsoNext \/ BesideStep]_identityVars
      => SsoInv' /\ RefusalsAreNotFaults' /\ SignInIsGuarded'
  BY SsoStep
<1> QED BY <1>1, <1>2, PTL DEF SsoSpec

-----------------------------------------------------------------------------
(* The limiter.  A request that passed in the window of another is still   *)
(* in the set when that is counted, for its score is no further from the   *)
(* real time than the delay and the clocks allow; and what is in the set   *)
(* and not older than the window and those margins did pass.               *)

(* The members of one score and instant are numbered.                      *)
Same(entries, score, t) == {e \in entries : e.score = score /\ e.at = t}

StampIsRecent(l) ==
  l.pc = "stamped" => /\ l.req \in LimitRequests /\ l.at \in Nat /\ l.now \in Nat
                      /\ l.at <= clock /\ clock <= l.at + Delay
                      /\ l.at <= l.now /\ l.now <= l.at + Skew

EntryIsTimed(e) ==
  /\ e.score \in Nat /\ e.at \in Nat /\ e.nr \in Nat /\ e.at <= clock
  /\ e.score <= e.at + Skew /\ e.at <= e.score + Delay

(* What passed is in the set as long as anything may still count it, and   *)
(* what is in the set has passed, as long as anything depends on it.       *)
HistoryIsCounted(k) ==
  /\ \A e \in passed[k] : e.score > clock + Skew - Window[k[1]] => e \in windows[k]
  /\ \A e \in windows[k] : e.at > clock - Span(k) => e \in passed[k]
  /\ \A e \in windows[k] : e.at + Lifetime <= expires[k]

StretchHolds(k) ==
  \A t \in Int :
    Cardinality({e \in passed[k] : t <= e.at /\ e.at < t + Window[k[1]] - Skew - Delay}) <= Limit(k)

MembersAreNumbered(k) ==
  \A e \in passed[k] : e.at = clock => e.nr <= Cardinality(Same(passed[k], e.score, clock))

KeyInvariant(k) ==
  /\ IsFiniteSet(passed[k]) /\ IsFiniteSet(windows[k])
  /\ \A e \in passed[k] \cup windows[k] : EntryIsTimed(e)
  /\ HistoryIsCounted(k) /\ StretchHolds(k) /\ MembersAreNumbered(k)

RefusalIsEarned(l) ==
  l.pc = "refused" =>
    /\ l.key \in Keys
    /\ Cardinality(Since(passed[l.key], l.at - Span(l.key))) >= Limit(l.key)

WindowShape ==
  /\ clock \in Nat /\ DOMAIN windows = Keys /\ DOMAIN passed = Keys /\ DOMAIN limited = Calls
  /\ expires \in [Keys -> Nat]

WindowInv ==
  /\ WindowShape
  /\ \A k \in Keys : KeyInvariant(k)
  /\ \A c \in Calls : StampIsRecent(limited[c]) /\ RefusalIsEarned(limited[c])

LEMMA LifetimeIsLong ==
  Lifetime \in Nat /\ \A d \in Dimensions : Window[d] \in Nat \ {0} /\ Window[d] + 1 <= Lifetime
<1>1. \A d \in Dimensions : Window[d] \in Nat \ {0}
  BY WindowAssumption
<1>2. PICK S : S = {Window[d] : d \in Dimensions}
  OBVIOUS
<1>3. \E x \in S : \A y \in S : y <= x
  <2>1. PICK a, b, c : a = Window["tenant"] /\ b = Window["user"] /\ c = Window["endpoint"]
    OBVIOUS
  <2>2. S = {a, b, c} /\ a \in Nat /\ b \in Nat /\ c \in Nat
    BY <1>1, <1>2, <2>1 DEF Dimensions
  <2> QED BY <2>2
<1>4. MaxOf(S) \in S /\ \A y \in S : y <= MaxOf(S)
  BY <1>3 DEF MaxOf
<1>5. PICK m : m = MaxOf(S)
  OBVIOUS
<1>6. m \in Nat /\ \A d \in Dimensions : Window[d] <= m
  BY <1>1, <1>2, <1>4, <1>5
<1>7. Lifetime = m + 1
  BY <1>2, <1>5 DEF Lifetime
<1> QED BY <1>1, <1>6, <1>7

LEMMA KeysAreKeys ==
  ASSUME NEW r \in LimitRequests, NEW d \in Dimensions
  PROVE  KeyOf(r, d) \in Keys /\ KeyOf(r, d)[1] = d /\ KeyOf(r, d) \in KeysOf(r)
<1>1. TenantOf(r) \in Tenants /\ UserOf(r) \in Users /\ r.path \in Endpoints
  BY WindowAssumption DEF TenantOf, UserOf, LimitRequests
<1> QED BY <1>1 DEF KeyOf, KeysOf, Keys, Dimensions

LEMMA KeysHaveLimits ==
  ASSUME NEW k \in Keys
  PROVE  k[1] \in Dimensions /\ Limit(k) \in Nat \ {0} /\ Window[k[1]] \in Nat \ {0}
<1>1. k[1] \in Dimensions
  BY DEF Keys, Dimensions
<1> QED BY <1>1, WindowAssumption DEF Limit

LEMMA OneMore ==
  ASSUME NEW S, IsFiniteSet(S), NEW x
  PROVE  /\ IsFiniteSet(S \cup {x}) /\ Cardinality(S) \in Nat
         /\ Cardinality(S \cup {x}) \in Nat /\ Cardinality(S \cup {x}) <= Cardinality(S) + 1
         /\ x \notin S => Cardinality(S \cup {x}) = Cardinality(S) + 1
<1>1. IsFiniteSet(S \cup {x}) /\ Cardinality(S) \in Nat /\ Cardinality(S \cup {x}) \in Nat
  BY FS_AddElement, FS_CardinalityType
<1>2. Cardinality(S \cup {x}) = IF x \in S THEN Cardinality(S) ELSE Cardinality(S) + 1
  BY FS_AddElement
<1> QED BY <1>1, <1>2

(* What a script finds when it has purged a set: all that may share a       *)
(* window with it, and nothing but what passed in the span of the key.      *)
LEMMA PurgeIsExact ==
  ASSUME WindowInv, NEW c \in Calls, limited[c].pc = "stamped",
         NEW k \in Keys, NEW K, K = Kept(windows[k], limited[c].now, Window[k[1]])
  PROVE  /\ K \subseteq windows[k] /\ IsFiniteSet(K) /\ Cardinality(K) \in Nat
         /\ \A e \in passed[k] : e.score > clock + Skew - Window[k[1]] => e \in K
         /\ K \subseteq Since(passed[k], clock - Span(k))
<1>1. PICK time \in Nat, at \in Nat :
        /\ time = limited[c].now /\ at <= clock /\ clock <= at + Delay
        /\ at <= time /\ time <= at + Skew
  BY DEF WindowInv, StampIsRecent
<1>2. clock \in Nat /\ Skew \in Nat /\ Delay \in Nat /\ Window[k[1]] \in Nat
  BY WindowAssumption, KeysHaveLimits DEF WindowInv, WindowShape
<1>3. K = {e \in windows[k] : e.score > time - Window[k[1]]}
  BY <1>1 DEF Kept
<1>4. KeyInvariant(k)
  BY DEF WindowInv
<1>5. IsFiniteSet(K) /\ Cardinality(K) \in Nat
  BY <1>3, <1>4, FS_Subset, FS_CardinalityType DEF KeyInvariant
<1>6. ASSUME NEW e \in passed[k], e.score > clock + Skew - Window[k[1]]
      PROVE  e \in K
  <2>1. e \in windows[k] /\ e.score \in Nat
    BY <1>4, <1>6 DEF KeyInvariant, HistoryIsCounted, EntryIsTimed
  <2>2. e.score > time - Window[k[1]]
    BY <1>1, <1>2, <1>6, <2>1
  <2> QED BY <1>3, <2>1, <2>2
<1>7. ASSUME NEW e \in K PROVE e \in passed[k] /\ e.at > clock - Span(k)
  <2>1. e \in windows[k] /\ e.score > time - Window[k[1]]
    BY <1>3
  <2>2. e.score \in Nat /\ e.at \in Nat /\ e.score <= e.at + Skew
    BY <1>4, <2>1 DEF KeyInvariant, EntryIsTimed
  <2>3. e.at > clock - (Window[k[1]] + Skew + Delay)
    BY <1>1, <1>2, <2>1, <2>2
  <2> QED BY <1>4, <2>1, <2>3 DEF Span, KeyInvariant, HistoryIsCounted
<1> QED BY <1>3, <1>5, <1>6, <1>7 DEF Since

(* Fewer entries share a stretch with the new one than the set holds.       *)
LEMMA StretchGrows ==
  ASSUME WindowInv, NEW c \in Calls, limited[c].pc = "stamped",
         NEW k \in Keys, NEW K, K = Kept(windows[k], limited[c].now, Window[k[1]]),
         ~(Cardinality(K) >= Limit(k)), NEW a, a.at = clock,
         passed'[k] = passed[k] \cup {a}
  PROVE  StretchHolds(k)'
<1> SUFFICES ASSUME NEW t \in Int
    PROVE Cardinality({e \in passed'[k] : t <= e.at /\ e.at < t + Window[k[1]] - Skew - Delay})
          <= Limit(k)
  BY DEF StretchHolds
<1>1. PICK w \in Nat, l \in Nat : w = Window[k[1]] /\ l = Limit(k) /\ l # 0
  BY KeysHaveLimits
<1>2. clock \in Nat /\ Skew \in Nat /\ Delay \in Nat
  BY WindowAssumption DEF WindowInv, WindowShape
<1>3. KeyInvariant(k)
  BY DEF WindowInv
<1>4. PICK In : In = {e \in passed[k] : t <= e.at /\ e.at < t + w - Skew - Delay}
  OBVIOUS
<1>5. PICK Out : Out = {e \in passed'[k] : t <= e.at /\ e.at < t + w - Skew - Delay}
  OBVIOUS
<1>6. Cardinality(In) <= l
  BY <1>1, <1>3, <1>4 DEF KeyInvariant, StretchHolds
<1>7. CASE t <= clock /\ clock < t + w - Skew - Delay
  <2>1. PICK n \in Nat : n = Cardinality(K) /\ IsFiniteSet(K)
    BY PurgeIsExact
  <2>2. n + 1 <= l
    BY <1>1, <2>1
  <2>3. ASSUME NEW e \in Out, e # a PROVE e \in K
    <3>1. e \in passed[k] /\ t <= e.at
      BY <1>5, <2>3
    <3>2. e.score \in Nat /\ e.at \in Nat /\ e.at <= e.score + Delay
      BY <1>3, <3>1 DEF KeyInvariant, EntryIsTimed
    <3>3. e.score > clock + Skew - w
      BY <1>1, <1>2, <1>7, <3>1, <3>2
    <3> QED BY <1>1, <3>1, <3>3, PurgeIsExact
  <2>4. Out \subseteq K \cup {a}
    BY <2>3
  <2>5. PICK m \in Nat : /\ m = Cardinality(K \cup {a}) /\ m <= n + 1
                         /\ IsFiniteSet(K \cup {a})
    BY <2>1, OneMore
  <2>6. Cardinality(Out) <= m /\ Cardinality(Out) \in Nat
    BY <2>4, <2>5, FS_Subset, FS_CardinalityType
  <2> QED BY <1>1, <1>5, <2>2, <2>5, <2>6
<1>8. CASE ~(t <= clock /\ clock < t + w - Skew - Delay)
  <2>1. Out = In
    BY <1>4, <1>5, <1>8
  <2> QED BY <1>1, <1>5, <1>6, <2>1
<1> QED BY <1>7, <1>8

LEMMA AddedIsTimed ==
  ASSUME WindowInv, NEW c \in Calls, limited[c].pc = "stamped", NEW k \in Keys, NEW a,
         a = Added(k, limited[c].now)
  PROVE  a.at = clock /\ a.score = limited[c].now /\ EntryIsTimed(a)
         /\ a.nr = Cardinality(Same(passed[k], a.score, clock)) + 1
<1>1. /\ a.score = limited[c].now /\ a.at = clock
      /\ a.nr = Cardinality(Same(passed[k], a.score, clock)) + 1
  BY DEF Added, Entry, Same
<1>2. Cardinality(Same(passed[k], a.score, clock)) \in Nat
  <2>1. IsFiniteSet(passed[k]) /\ Same(passed[k], a.score, clock) \subseteq passed[k]
    BY DEF WindowInv, KeyInvariant, Same
  <2> QED BY <2>1, FS_Subset, FS_CardinalityType
<1>3. Skew \in Nat /\ Delay \in Nat /\ clock \in Nat
  BY WindowAssumption DEF WindowInv, WindowShape
<1>4. PICK time \in Nat, at \in Nat :
        /\ time = limited[c].now /\ at <= clock /\ clock <= at + Delay
        /\ at <= time /\ time <= at + Skew
  BY DEF WindowInv, StampIsRecent
<1> QED BY <1>1, <1>2, <1>3, <1>4 DEF EntryIsTimed

(* No two members of a set are the same, so that it counts them all.        *)
LEMMA AddedIsNew ==
  ASSUME WindowInv, NEW c \in Calls, limited[c].pc = "stamped", NEW k \in Keys
  PROVE  Added(k, limited[c].now) \notin passed[k] \cup windows[k]
<1>1. PICK a : a = Added(k, limited[c].now)
  OBVIOUS
<1>2. a.at = clock /\ EntryIsTimed(a) /\ a.nr = Cardinality(Same(passed[k], a.score, clock)) + 1
  BY <1>1, AddedIsTimed
<1>3. KeyInvariant(k) /\ clock \in Nat
  BY DEF WindowInv, WindowShape
<1>4. a \notin passed[k]
  <2>1. Cardinality(Same(passed[k], a.score, clock)) \in Nat
    <3>1. IsFiniteSet(passed[k]) /\ Same(passed[k], a.score, clock) \subseteq passed[k]
      BY <1>3 DEF KeyInvariant, Same
    <3> QED BY <3>1, FS_Subset, FS_CardinalityType
  <2> QED BY <1>2, <1>3, <2>1 DEF KeyInvariant, MembersAreNumbered
<1>5. a \in windows[k] => a \in passed[k]
  <2>1. clock > clock - Span(k)
    BY <1>3, WindowAssumption, KeysHaveLimits DEF Span
  <2> QED BY <1>2, <1>3, <2>1 DEF KeyInvariant, HistoryIsCounted
<1> QED BY <1>1, <1>4, <1>5

(* The script lets a request through, on one of its keys.                   *)
LEMMA PassKeeps ==
  ASSUME WindowInv, NEW c \in Calls, limited[c].pc = "stamped",
         NEW k \in Keys, NEW K, K = Kept(windows[k], limited[c].now, Window[k[1]]),
         ~(Cardinality(K) >= Limit(k)), NEW a, a = Added(k, limited[c].now),
         passed'[k] = passed[k] \cup {a}, windows'[k] = K \cup {a},
         expires'[k] = clock + Lifetime, clock' = clock
  PROVE  KeyInvariant(k)'
<1>1. /\ a.at = clock /\ EntryIsTimed(a)
      /\ a.nr = Cardinality(Same(passed[k], a.score, clock)) + 1
  BY AddedIsTimed
<1>2. K \subseteq windows[k] /\ IsFiniteSet(K) /\ K \subseteq Since(passed[k], clock - Span(k))
      /\ \A e \in passed[k] : e.score > clock + Skew - Window[k[1]] => e \in K
  BY PurgeIsExact
<1>3. KeyInvariant(k) /\ clock \in Nat
  BY DEF WindowInv, WindowShape
<1>4. IsFiniteSet(passed'[k]) /\ IsFiniteSet(windows'[k])
  <2>1. IsFiniteSet(passed[k])
    BY <1>3 DEF KeyInvariant
  <2>2. IsFiniteSet(passed[k] \cup {a}) /\ IsFiniteSet(K \cup {a})
    BY <1>2, <2>1, OneMore
  <2> QED BY <2>2
<1>5. \A e \in passed'[k] \cup windows'[k] : EntryIsTimed(e)'
  BY <1>1, <1>2, <1>3 DEF KeyInvariant, EntryIsTimed
<1>6. \A e \in passed'[k] : e.score > clock' + Skew - Window[k[1]] => e \in windows'[k]
  BY <1>2
<1>7. \A e \in windows'[k] : e.at > clock' - Span(k) => e \in passed'[k]
  BY <1>2 DEF Since
<1>8. \A e \in windows'[k] : e.at + Lifetime <= expires'[k]
  <2>1. \A e \in windows'[k] : e.at \in Nat /\ e.at <= clock
    BY <1>5 DEF EntryIsTimed
  <2> QED BY <1>3, <2>1, LifetimeIsLong
<1>9. StretchHolds(k)'
  BY <1>1, StretchGrows
<1>10. MembersAreNumbered(k)'
  <2> SUFFICES ASSUME NEW e \in passed'[k], e.at = clock
               PROVE  e.nr <= Cardinality(Same(passed'[k], e.score, clock))
    BY DEF MembersAreNumbered
  <2>1. PICK old, new : old = Same(passed[k], e.score, clock) /\ new = Same(passed'[k], e.score, clock)
    OBVIOUS
  <2>2. IsFiniteSet(old) /\ Cardinality(old) \in Nat /\ a \notin old
    <3>1. old \subseteq passed[k] /\ IsFiniteSet(passed[k]) /\ a \notin passed[k]
      BY <1>3, <2>1, AddedIsNew DEF KeyInvariant, Same
    <3> QED BY <3>1, FS_Subset, FS_CardinalityType
  <2>3. CASE a.score = e.score
    <3>1. new = old \cup {a}
      BY <1>1, <2>1, <2>3 DEF Same
    <3>2. Cardinality(new) = Cardinality(old) + 1
      BY <2>2, <3>1, OneMore
    <3>3. CASE e = a
      BY <1>1, <2>1, <2>2, <2>3, <3>2, <3>3
    <3>4. CASE e # a
      <4>1. e \in passed[k] /\ e.nr \in Nat
        BY <1>3, <3>4 DEF KeyInvariant, EntryIsTimed
      <4>2. e.nr <= Cardinality(old)
        BY <1>3, <2>1, <4>1 DEF KeyInvariant, MembersAreNumbered
      <4> QED BY <2>1, <2>2, <3>2, <4>1, <4>2
    <3> QED BY <3>3, <3>4
  <2>4. CASE a.score # e.score
    <3>1. new = old /\ e \in passed[k]
      BY <2>1, <2>4 DEF Same
    <3> QED BY <1>3, <2>1, <3>1 DEF KeyInvariant, MembersAreNumbered
  <2> QED BY <2>3, <2>4
<1> QED BY <1>4, <1>5, <1>6, <1>7, <1>8, <1>9, <1>10 DEF KeyInvariant, HistoryIsCounted

(* The script refuses, or the set is not one of the request's.              *)
LEMMA PurgeKeeps ==
  ASSUME WindowInv, NEW k \in Keys, passed'[k] = passed[k], expires'[k] = expires[k],
         clock' = clock, windows'[k] \subseteq windows[k],
         \A e \in passed[k] : e.score > clock + Skew - Window[k[1]] /\ e \in windows[k]
                                => e \in windows'[k]
  PROVE  KeyInvariant(k)'
<1>1. KeyInvariant(k)
  BY DEF WindowInv
<1>2. IsFiniteSet(windows'[k]) /\ IsFiniteSet(passed'[k])
  BY <1>1, FS_Subset DEF KeyInvariant
<1>3. \A e \in passed'[k] \cup windows'[k] : EntryIsTimed(e)'
  BY <1>1 DEF KeyInvariant, EntryIsTimed
<1>4. HistoryIsCounted(k)'
  BY <1>1 DEF KeyInvariant, HistoryIsCounted
<1>5. StretchHolds(k)' /\ MembersAreNumbered(k)'
  BY <1>1 DEF KeyInvariant, StretchHolds, MembersAreNumbered
<1> QED BY <1>2, <1>3, <1>4, <1>5 DEF KeyInvariant

(* A refusal stays earned while what passed is kept.                        *)
LEMMA EarnedStays ==
  ASSUME NEW l, RefusalIsEarned(l), \A k \in Keys : passed[k] \subseteq passed'[k],
         \A k \in Keys : IsFiniteSet(passed'[k])
  PROVE  l.pc = "refused" =>
           /\ l.key \in Keys
           /\ Cardinality(Since(passed'[l.key], l.at - Span(l.key))) >= Limit(l.key)
<1> SUFFICES ASSUME l.pc = "refused"
    PROVE  /\ l.key \in Keys
           /\ Cardinality(Since(passed'[l.key], l.at - Span(l.key))) >= Limit(l.key)
  OBVIOUS
<1>1. PICK k \in Keys : k = l.key /\ Cardinality(Since(passed[k], l.at - Span(k))) >= Limit(k)
  BY DEF RefusalIsEarned
<1>2. PICK S, T : S = Since(passed[k], l.at - Span(k)) /\ T = Since(passed'[k], l.at - Span(k))
  OBVIOUS
<1>3. S \subseteq T /\ IsFiniteSet(T)
  <2>1. S \subseteq T /\ T \subseteq passed'[k]
    BY <1>2 DEF Since
  <2> QED BY <2>1, FS_Subset
<1>4. Cardinality(S) <= Cardinality(T) /\ Cardinality(S) \in Nat /\ Cardinality(T) \in Nat
  BY <1>3, FS_Subset, FS_CardinalityType
<1>5. Cardinality(T) >= Limit(k)
  BY <1>1, <1>2, <1>4, KeysHaveLimits
<1> QED BY <1>1, <1>2, <1>5

LEMMA EvaluateKeeps ==
  ASSUME WindowInv, NEW c \in Calls, Evaluate(c)
  PROVE  WindowInv'
<1>1. PICK r, time, kept :
        /\ r = limited[c].req /\ time = limited[c].now
        /\ kept = [k \in Keys |-> IF k \in KeysOf(r) THEN Kept(windows[k], time, Window[k[1]])
                                  ELSE windows[k]]
  OBVIOUS
<1>2. /\ limited[c].pc = "stamped" /\ UNCHANGED clock
      /\ \/ /\ Refusing(r, kept) # {} /\ windows' = kept
            /\ limited' = [limited EXCEPT ![c] =
                 [pc |-> "refused", key |-> KeyOf(r, FirstOf(Refusing(r, kept))), at |-> clock]]
            /\ UNCHANGED <<expires, passed>>
         \/ /\ Refusing(r, kept) = {}
            /\ windows' = [k \in Keys |-> IF k \in KeysOf(r) THEN kept[k] \cup {Added(k, time)}
                                          ELSE kept[k]]
            /\ expires' = [k \in Keys |-> IF k \in KeysOf(r) THEN clock + Lifetime ELSE expires[k]]
            /\ passed' = [k \in Keys |-> IF k \in KeysOf(r) THEN passed[k] \cup {Added(k, time)}
                                         ELSE passed[k]]
            /\ limited' = [limited EXCEPT ![c] = Idle]
  BY <1>1 DEF Evaluate
<1>3. r \in LimitRequests /\ clock \in Nat
  BY <1>1, <1>2 DEF WindowInv, WindowShape, StampIsRecent
<1>4. \A k \in Keys : IsFiniteSet(kept[k]) /\ kept[k] \subseteq windows[k]
  <2> SUFFICES ASSUME NEW k \in Keys PROVE IsFiniteSet(kept[k]) /\ kept[k] \subseteq windows[k]
    OBVIOUS
  <2>1. IsFiniteSet(windows[k])
    BY DEF WindowInv, KeyInvariant
  <2>2. kept[k] \subseteq windows[k]
    BY <1>1 DEF Kept
  <2> QED BY <2>1, <2>2, FS_Subset
<1>5. CASE /\ Refusing(r, kept) # {} /\ windows' = kept
           /\ limited' = [limited EXCEPT ![c] =
                [pc |-> "refused", key |-> KeyOf(r, FirstOf(Refusing(r, kept))), at |-> clock]]
           /\ UNCHANGED <<expires, passed>>
  <2>1. ASSUME NEW k \in Keys PROVE KeyInvariant(k)'
    <3>1. ASSUME NEW e \in passed[k], e.score > clock + Skew - Window[k[1]], e \in windows[k]
          PROVE  e \in windows'[k]
      <4>1. CASE k \in KeysOf(r)
        <5>1. windows'[k] = Kept(windows[k], limited[c].now, Window[k[1]])
          BY <1>1, <1>5, <4>1
        <5> QED BY <1>2, <3>1, <5>1, PurgeIsExact
      <4>2. CASE k \notin KeysOf(r)
        BY <1>1, <1>5, <3>1, <4>2
      <4> QED BY <4>1, <4>2
    <3> QED BY <1>2, <1>4, <1>5, <3>1, PurgeKeeps
  <2>2. WindowShape'
    BY <1>1, <1>2, <1>5 DEF WindowInv, WindowShape
  <2>3. PICK d \in Dimensions : d = FirstOf(Refusing(r, kept)) /\ d \in Refusing(r, kept)
    <3>1. Refusing(r, kept) \subseteq Dimensions
      BY DEF Refusing
    <3> QED BY <1>5, <3>1 DEF FirstOf, Dimensions
  <2>4. PICK k \in Keys : k = KeyOf(r, d) /\ k \in KeysOf(r)
    BY <1>3, KeysAreKeys
  <2>5. Cardinality(Since(passed[k], clock - Span(k))) >= Limit(k)
    <3>1. kept[k] = Kept(windows[k], limited[c].now, Window[k[1]])
      BY <1>1, <2>4
    <3>2. Cardinality(kept[k]) >= Limit(k)
      BY <2>3, <2>4 DEF Refusing
    <3>3. PICK S : S = Since(passed[k], clock - Span(k)) /\ kept[k] \subseteq S
      BY <1>2, <3>1, PurgeIsExact
    <3>4. IsFiniteSet(S)
      <4>1. S \subseteq passed[k] /\ IsFiniteSet(passed[k])
        BY <3>3 DEF Since, WindowInv, KeyInvariant
      <4> QED BY <4>1, FS_Subset
    <3>5. Cardinality(kept[k]) <= Cardinality(S) /\ Cardinality(S) \in Nat
          /\ Cardinality(kept[k]) \in Nat
      BY <1>4, <3>3, <3>4, FS_Subset, FS_CardinalityType
    <3> QED BY <3>2, <3>3, <3>5, KeysHaveLimits
  <2>6. ASSUME NEW b \in Calls PROVE StampIsRecent(limited[b])' /\ RefusalIsEarned(limited[b])'
    <3>1. CASE b = c
      <4>1. limited'[b].pc = "refused" /\ limited'[b].key = k /\ limited'[b].at = clock
        BY <1>5, <2>3, <2>4, <3>1 DEF WindowInv, WindowShape
      <4> QED BY <1>5, <2>5, <4>1 DEF StampIsRecent, RefusalIsEarned
    <3>2. CASE b # c
      <4>1. limited'[b] = limited[b]
        BY <1>5, <3>2
      <4> QED BY <1>2, <1>5, <4>1 DEF WindowInv, StampIsRecent, RefusalIsEarned
    <3> QED BY <3>1, <3>2
  <2> QED BY <2>1, <2>2, <2>6 DEF WindowInv
<1>6. CASE /\ Refusing(r, kept) = {}
           /\ windows' = [k \in Keys |-> IF k \in KeysOf(r) THEN kept[k] \cup {Added(k, time)}
                                         ELSE kept[k]]
           /\ expires' = [k \in Keys |-> IF k \in KeysOf(r) THEN clock + Lifetime ELSE expires[k]]
           /\ passed' = [k \in Keys |-> IF k \in KeysOf(r) THEN passed[k] \cup {Added(k, time)}
                                        ELSE passed[k]]
           /\ limited' = [limited EXCEPT ![c] = Idle]
  <2>1. ASSUME NEW k \in Keys PROVE KeyInvariant(k)'
    <3>1. CASE k \in KeysOf(r)
      <4>1. PICK K, a : /\ K = Kept(windows[k], limited[c].now, Window[k[1]])
                        /\ a = Added(k, limited[c].now)
        OBVIOUS
      <4>2. PICK d \in Dimensions : k = KeyOf(r, d)
        BY <3>1 DEF KeysOf
      <4>3. kept[k] = K
        BY <1>1, <3>1, <4>1
      <4>4. ~(Cardinality(K) >= Limit(k))
        BY <1>6, <4>2, <4>3 DEF Refusing
      <4>5. passed'[k] = passed[k] \cup {a} /\ windows'[k] = K \cup {a}
            /\ expires'[k] = clock + Lifetime
        BY <1>1, <1>6, <3>1, <4>1, <4>3
      <4> QED BY <1>2, <4>1, <4>4, <4>5, PassKeeps
    <3>2. CASE k \notin KeysOf(r)
      <4>1. passed'[k] = passed[k] /\ expires'[k] = expires[k] /\ windows'[k] = windows[k]
        BY <1>1, <1>6, <3>2
      <4> QED BY <1>2, <4>1, PurgeKeeps
    <3> QED BY <3>1, <3>2
  <2>2. WindowShape'
    BY <1>2, <1>3, <1>6, LifetimeIsLong DEF WindowInv, WindowShape
  <2>3. \A k \in Keys : passed[k] \subseteq passed'[k] /\ IsFiniteSet(passed'[k])
    BY <1>6, <2>1 DEF KeyInvariant
  <2>4. ASSUME NEW b \in Calls PROVE StampIsRecent(limited[b])' /\ RefusalIsEarned(limited[b])'
    <3>1. CASE b = c
      <4>1. limited'[b].pc = "idle"
        BY <1>6, <3>1 DEF WindowInv, WindowShape, Idle
      <4> QED BY <4>1 DEF StampIsRecent, RefusalIsEarned
    <3>2. CASE b # c
      <4>1. PICK l : l = limited[b] /\ l = limited'[b]
        BY <1>6, <3>2
      <4>2. RefusalIsEarned(l) /\ StampIsRecent(l)
        BY <4>1 DEF WindowInv
      <4>3. l.pc = "refused" =>
              /\ l.key \in Keys
              /\ Cardinality(Since(passed'[l.key], l.at - Span(l.key))) >= Limit(l.key)
        BY <2>3, <4>2, EarnedStays
      <4> QED BY <1>2, <4>1, <4>2, <4>3 DEF StampIsRecent, RefusalIsEarned
    <3> QED BY <3>1, <3>2
  <2> QED BY <2>1, <2>2, <2>4 DEF WindowInv
<1> QED BY <1>2, <1>5, <1>6

(* Time passes: sets expire when all that is in them has left its window,   *)
(* and no refusal waits.                                                    *)
LEMMA TickKeeps ==
  ASSUME WindowInv, Tick
  PROVE  WindowInv'
<1>1. /\ clock' = clock + 1 /\ UNCHANGED limited
      /\ \A c \in Calls : /\ limited[c].pc = "stamped" => limited[c].at + Delay > clock
                          /\ limited[c].pc # "refused"
      /\ windows' = [k \in Keys |-> IF expires[k] <= clock + 1 THEN {} ELSE windows[k]]
      /\ passed' = [k \in Keys |-> Since(passed[k], clock - Span(k))]
      /\ expires' = [k \in Keys |-> IF expires[k] <= clock + 1 THEN 0 ELSE expires[k]]
  BY DEF Tick
<1>2. clock \in Nat /\ Skew \in Nat /\ Delay \in Nat
  BY WindowAssumption DEF WindowInv, WindowShape
<1>3. WindowShape'
  BY <1>1, <1>2 DEF WindowInv, WindowShape
<1>4. ASSUME NEW k \in Keys PROVE KeyInvariant(k)'
  <2>1. KeyInvariant(k)
    BY DEF WindowInv
  <2>2. PICK w \in Nat, x \in Nat, s \in Int :
          /\ w = Window[k[1]] /\ x = expires[k] /\ s = Span(k) /\ s = w + Skew + Delay /\ w # 0
          /\ w + 1 <= Lifetime
    BY <1>2, KeysHaveLimits, LifetimeIsLong DEF Span, WindowInv, WindowShape
  <2>3. /\ passed'[k] = {e \in passed[k] : e.at > clock - s}
        /\ windows'[k] = IF x <= clock + 1 THEN {} ELSE windows[k]
        /\ expires'[k] = IF x <= clock + 1 THEN 0 ELSE x
    BY <1>1, <2>2 DEF Since
  <2>4. \A e \in passed[k] \cup windows[k] :
          /\ e.score \in Nat /\ e.at \in Nat /\ e.nr \in Nat /\ e.at <= clock
          /\ e.score <= e.at + Skew /\ e.at <= e.score + Delay
    BY <2>1 DEF KeyInvariant, EntryIsTimed
  <2>5. IsFiniteSet(windows'[k]) /\ IsFiniteSet(passed'[k])
    <3>1. windows'[k] \subseteq windows[k] /\ passed'[k] \subseteq passed[k]
      BY <2>3
    <3> QED BY <2>1, <3>1, FS_Subset DEF KeyInvariant
  <2>6. \A e \in passed'[k] \cup windows'[k] : EntryIsTimed(e)'
    BY <1>1, <1>2, <2>3, <2>4 DEF EntryIsTimed
  <2>7. HistoryIsCounted(k)'
    <3>1. ASSUME NEW e \in passed'[k], e.score > clock' + Skew - w PROVE e \in windows'[k]
      <4>1. e \in passed[k] /\ e.score \in Nat /\ e.at \in Nat /\ e.score <= e.at + Skew
        BY <2>3, <2>4
      <4>2. e.score > clock + Skew - w
        BY <1>1, <1>2, <3>1, <4>1
      <4>3. e \in windows[k] /\ e.at + Lifetime <= x
        BY <2>1, <2>2, <4>1, <4>2 DEF KeyInvariant, HistoryIsCounted
      <4>4. ~(x <= clock + 1)
        BY <1>1, <1>2, <2>2, <3>1, <4>1, <4>3, LifetimeIsLong
      <4> QED BY <2>3, <4>3, <4>4
    <3>2. ASSUME NEW e \in windows'[k], e.at > clock' - s PROVE e \in passed'[k]
      <4>1. e \in windows[k] /\ e.at \in Nat /\ e.at > clock - s
        BY <1>1, <1>2, <2>2, <2>3, <2>4, <3>2
      <4> QED BY <2>1, <2>2, <2>3, <4>1 DEF KeyInvariant, HistoryIsCounted
    <3>3. \A e \in windows'[k] : e.at + Lifetime <= expires'[k]
      BY <2>1, <2>2, <2>3 DEF KeyInvariant, HistoryIsCounted
    <3>4. Span(k)' = s
      BY <2>2 DEF Span
    <3> QED BY <2>2, <3>1, <3>2, <3>3, <3>4 DEF HistoryIsCounted
  <2>8. StretchHolds(k)'
    <3> SUFFICES ASSUME NEW t \in Int
        PROVE Cardinality({e \in passed'[k] : t <= e.at /\ e.at < t + w - Skew - Delay})
              <= Limit(k)
      BY <2>2 DEF StretchHolds
    <3>1. PICK S, T : /\ S = {e \in passed'[k] : t <= e.at /\ e.at < t + w - Skew - Delay}
                      /\ T = {e \in passed[k] : t <= e.at /\ e.at < t + w - Skew - Delay}
      OBVIOUS
    <3>2. S \subseteq T /\ T \subseteq passed[k]
      BY <2>3, <3>1
    <3>3. IsFiniteSet(T)
      BY <2>1, <3>2, FS_Subset DEF KeyInvariant
    <3>4. Cardinality(S) <= Cardinality(T) /\ Cardinality(S) \in Nat /\ Cardinality(T) \in Nat
      BY <3>2, <3>3, FS_Subset, FS_CardinalityType
    <3>5. Cardinality(T) <= Limit(k)
      BY <2>1, <2>2, <3>1 DEF KeyInvariant, StretchHolds
    <3> QED BY <3>1, <3>4, <3>5, KeysHaveLimits
  <2>9. MembersAreNumbered(k)'
    BY <1>1, <1>2, <2>3, <2>4 DEF MembersAreNumbered
  <2> QED BY <2>5, <2>6, <2>7, <2>8, <2>9 DEF KeyInvariant
<1>5. ASSUME NEW c \in Calls PROVE StampIsRecent(limited[c])' /\ RefusalIsEarned(limited[c])'
  <2>1. PICK l : l = limited[c] /\ l = limited'[c]
    BY <1>1
  <2>2. StampIsRecent(l) /\ l.pc # "refused" /\ (l.pc = "stamped" => l.at + Delay > clock)
    BY <1>1, <2>1 DEF WindowInv
  <2> QED BY <1>1, <1>2, <2>1, <2>2 DEF StampIsRecent, RefusalIsEarned
<1> QED BY <1>3, <1>4, <1>5 DEF WindowInv

LEMMA CallsKeep ==
  ASSUME WindowInv, UNCHANGED <<clock, windows, expires, passed>>, DOMAIN limited' = Calls,
         \A c \in Calls : \/ limited'[c] = limited[c]
                          \/ limited'[c].pc = "idle"
                          \/ limited'[c].pc = "stamped" /\ StampIsRecent(limited'[c])
  PROVE  WindowInv'
<1>1. WindowShape'
  BY DEF WindowInv, WindowShape
<1>2. \A k \in Keys : KeyInvariant(k)'
  BY DEF WindowInv, KeyInvariant, EntryIsTimed, HistoryIsCounted, StretchHolds, MembersAreNumbered
<1>3. ASSUME NEW c \in Calls PROVE StampIsRecent(limited[c])' /\ RefusalIsEarned(limited[c])'
  BY DEF WindowInv, StampIsRecent, RefusalIsEarned
<1> QED BY <1>1, <1>2, <1>3 DEF WindowInv

LEMMA WindowBegins ==
  ASSUME WindowInit
  PROVE  WindowInv
<1>1. /\ clock = 0 /\ windows = [k \in Keys |-> {}] /\ passed = [k \in Keys |-> {}]
      /\ expires = [k \in Keys |-> 0] /\ limited = [c \in Calls |-> Idle]
  BY DEF WindowInit
<1>2. WindowShape
  BY <1>1 DEF WindowShape
<1>3. ASSUME NEW k \in Keys PROVE KeyInvariant(k)
  <2>1. passed[k] = {} /\ windows[k] = {} /\ Limit(k) \in Nat
    BY <1>1, KeysHaveLimits
  <2>2. IsFiniteSet({}) /\ Cardinality({}) = 0
    BY FS_EmptySet
  <2>3. ASSUME NEW t \in Int
        PROVE Cardinality({e \in passed[k] : t <= e.at /\ e.at < t + Window[k[1]] - Skew - Delay})
              <= Limit(k)
    <3>1. {e \in passed[k] : t <= e.at /\ e.at < t + Window[k[1]] - Skew - Delay} = {}
      BY <2>1
    <3> QED BY <2>1, <2>2, <3>1
  <2> QED BY <2>1, <2>2, <2>3 DEF KeyInvariant, HistoryIsCounted, StretchHolds, MembersAreNumbered
<1>4. \A c \in Calls : StampIsRecent(limited[c]) /\ RefusalIsEarned(limited[c])
  BY <1>1 DEF StampIsRecent, RefusalIsEarned, Idle
<1> QED BY <1>2, <1>3, <1>4 DEF WindowInv

(* For any clocks, delays, windows, maxima and requests: no key lets        *)
(* through more than its maximum in a stretch of its window less the        *)
(* clocks' difference and the delay, and none refuses unless that many      *)
(* passed in its window and those margins.                                  *)
THEOREM LimiterKeepsItsLimits == WindowSpec => []LimitsAreKept
<1>1. WindowInit => WindowInv
  BY WindowBegins
<1>2. WindowInv /\ [WindowNext(LimitRequests)]_windowVars => WindowInv'
  <2> SUFFICES ASSUME WindowInv, [WindowNext(LimitRequests)]_windowVars PROVE WindowInv'
    OBVIOUS
  <2>1. ASSUME NEW c \in Calls, FailOpen(c) \/ Answered(c) PROVE WindowInv'
    <3>1. /\ limited' = [limited EXCEPT ![c] = Idle]
          /\ UNCHANGED <<clock, windows, expires, passed>>
      BY <2>1 DEF FailOpen, Answered
    <3>2. DOMAIN limited' = Calls
          /\ \A b \in Calls : limited'[b] = limited[b] \/ limited'[b].pc = "idle"
      BY <3>1 DEF WindowInv, WindowShape, Idle
    <3> QED BY <3>1, <3>2, CallsKeep
  <2>2. ASSUME NEW c \in Calls, NEW r \in LimitRequests, NEW i \in Instances, Stamp(c, r, i)
        PROVE  WindowInv'
    <3>1. PICK l : l = [pc |-> "stamped", req |-> r, now |-> clock + Ahead[i], at |-> clock]
      OBVIOUS
    <3>2. limited' = [limited EXCEPT ![c] = l] /\ UNCHANGED <<clock, windows, expires, passed>>
      BY <2>2, <3>1 DEF Stamp
    <3>3. l.pc = "stamped" /\ l.req = r /\ l.now = clock + Ahead[i] /\ l.at = clock
      BY <3>1
    <3>4. Ahead[i] \in 0..Skew /\ Skew \in Nat /\ Delay \in Nat /\ clock \in Nat
      BY WindowAssumption DEF WindowInv, WindowShape
    <3>5. StampIsRecent(l)
      BY <3>3, <3>4 DEF StampIsRecent
    <3>6. DOMAIN limited' = Calls /\ \A b \in Calls : limited'[b] = limited[b] \/ limited'[b] = l
      BY <3>2 DEF WindowInv, WindowShape
    <3> QED BY <3>2, <3>3, <3>5, <3>6, CallsKeep
  <2>3. CASE UNCHANGED windowVars
    <3>1. UNCHANGED <<clock, windows, expires, passed>> /\ UNCHANGED limited
      BY <2>3 DEF windowVars
    <3>2. DOMAIN limited' = Calls
      BY <3>1 DEF WindowInv, WindowShape
    <3> QED BY <3>1, <3>2, CallsKeep
  <2> QED BY <2>1, <2>2, <2>3, EvaluateKeeps, TickKeeps DEF WindowNext, LimiterStep
<1>3. WindowInv => LimitsAreKept
  <2> SUFFICES ASSUME WindowInv PROVE WindowHolds /\ RefusalsAreEarned
    BY DEF LimitsAreKept
  <2>1. WindowHolds
    <3> SUFFICES ASSUME NEW k \in Keys, NEW e \in passed[k]
        PROVE Cardinality({q \in passed[k] : e.at <= q.at
                                             /\ q.at < e.at + Window[k[1]] - Skew - Delay})
              <= Limit(k)
      BY DEF WindowHolds
    <3>1. KeyInvariant(k) /\ e.at \in Int
      BY DEF WindowInv, KeyInvariant, EntryIsTimed
    <3> QED BY <3>1 DEF KeyInvariant, StretchHolds
  <2>2. RefusalsAreEarned
    BY DEF RefusalsAreEarned, WindowInv, RefusalIsEarned
  <2> QED BY <2>1, <2>2
<1> QED BY <1>1, <1>2, <1>3, PTL DEF WindowSpec

=============================================================================
