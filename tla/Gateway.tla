------------------------------ MODULE Gateway ------------------------------
(***************************************************************************)
(* The way of a request through the application: the middlewares in the    *)
(* order createApp mounts them, up to the handler.  Whatever has no await  *)
(* is one step with what follows it; between the steps tokens are revoked, *)
(* a policy starts to block and time passes.                               *)
(***************************************************************************)
EXTENDS Integers, FiniteSets

CONSTANTS Passages,       \* requests under way at once
          MaxSeconds      \* bound on time

VARIABLES
  second,       \* time, in the seconds that tokens and epochs count
  issuedAt,     \* the iat of the user's access token
  epoch,        \* the user's revocation epoch, 0 if none
  logoutSeen,   \* the token is on the blacklist
  blocking,     \* the MFA policy blocks this user now
  passage       \* [Passages -> where the request is]

gatewayVars == <<second, issuedAt, epoch, logoutSeen, blocking, passage>>

Rank == [org_admin |-> 40, account_admin |-> 30, dept_manager |-> 20, dept_user |-> 10]

(* Mounts behind the token, with the rank each asks for.                   *)
MinimumRole ==
  [mfa_policy |-> "org_admin", organization |-> "org_admin", roles |-> "org_admin",
   departments |-> "account_admin", users |-> "dept_manager"]

OperatorMounts == {"organizations", "dlq"}    \* behind a fixed bearer token
OperatorToken == [organizations |-> "platform", dlq |-> "queue"]
Mounts == DOMAIN MinimumRole \cup OperatorMounts

WithGrants(mount) == mount = "roles"          \* permissions are loaded too
ExemptFromMfa(mount) == mount = "mfa_policy"

Hints == {"none", "own", "other"}             \* x-org-id or org_id
Bearers == {"none", "access", "platform", "queue"}

Arrivals == [mount : Mounts, role : DOMAIN Rank, hint : Hints, bearer : Bearers]

AccessSeconds == 2                            \* lifetime of an access token

Away == [pc |-> "away"]

GatewayInit ==
  /\ second = 1 /\ issuedAt = 1 /\ epoch = 0 /\ logoutSeen = FALSE
  /\ blocking \in BOOLEAN
  /\ passage = [p \in Passages |-> Away]

Leave(p) == passage' = [passage EXCEPT ![p] = Away]
unchangedWorld == UNCHANGED <<second, issuedAt, epoch, logoutSeen, blocking>>

-----------------------------------------------------------------------------
(* A request comes in.  revoked and excused are history: whether its token *)
(* was revoked by then, and whether the policy has let the user through at *)
(* some moment since.                                                      *)
Revoked == logoutSeen \/ (epoch # 0 /\ issuedAt < epoch)

Arrive(p, r) ==
  /\ passage[p].pc = "away"
  /\ passage' = [passage EXCEPT ![p] =
       [pc |-> "limiter", req |-> r, revoked |-> Revoked, excused |-> ~blocking]]
  /\ unchangedWorld

(* The limiter refuses it or lets it on (SlidingWindow), the response      *)
(* cache answers it or not (ResponseCache).  The CSRF check lets all pass: *)
(* without a cookie parser no request uses cookies.                        *)
Limited(p) == passage[p].pc = "limiter" /\ Leave(p) /\ unchangedWorld

UsesCookies(r) == FALSE
CsrfPasses(r) == ~UsesCookies(r)

Routed(p) ==
  /\ passage[p].pc = "limiter" /\ CsrfPasses(passage[p].req)
  /\ passage[p].req.mount \in DOMAIN MinimumRole
  /\ passage' = [passage EXCEPT ![p].pc = "token"]
  /\ unchangedWorld

(* The operators' routes compare the bearer with the configured token.     *)
OperatorRoute(p) ==
  LET r == passage[p].req
  IN /\ passage[p].pc = "limiter" /\ CsrfPasses(r) /\ r.mount \in OperatorMounts
     /\ \/ r.bearer = OperatorToken[r.mount] /\ passage' = [passage EXCEPT ![p].pc = "handler"]
        \/ r.bearer # OperatorToken[r.mount] /\ Leave(p)
     /\ unchangedWorld

(* One read of blacklist and epoch, for a bearer that decodes as a token.  *)
CheckRevoked(p) ==
  /\ passage[p].pc = "token"
  /\ \/ passage[p].req.bearer # "access" /\ Leave(p)
     \/ passage[p].req.bearer = "access" /\ Revoked /\ Leave(p)
     \/ /\ passage[p].req.bearer = "access" /\ ~Revoked
        /\ passage' = [passage EXCEPT ![p].pc = "verify"]
  /\ unchangedWorld

(* The token is verified, its organization becomes the tenant, and the     *)
(* policy is read unless the path is exempt.                               *)
Verify(p) ==
  /\ passage[p].pc = "verify"
  /\ \/ second >= issuedAt + AccessSeconds /\ Leave(p)
     \/ /\ second < issuedAt + AccessSeconds
        /\ passage' = [passage EXCEPT ![p].pc =
             IF ExemptFromMfa(passage[p].req.mount) THEN "guards" ELSE "policy"]
  /\ unchangedWorld

EnforceMfa(p) ==
  /\ passage[p].pc = "policy"
  /\ \/ blocking /\ Leave(p)
     \/ /\ ~blocking
        /\ passage' = [passage EXCEPT ![p].pc =
             IF WithGrants(passage[p].req.mount) THEN "grants" ELSE "guards"]
  /\ unchangedWorld

LoadGrants(p) ==
  /\ passage[p].pc = "grants"
  /\ passage' = [passage EXCEPT ![p].pc = "guards"]
  /\ unchangedWorld

(* Mutant: any organization hint is let through.                           *)
HintAgrees_Any(r) == r.hint \in Hints

HintAgrees(r) == r.hint # "other"
RoleSuffices(r) == Rank[r.role] >= Rank[MinimumRole[r.mount]]

Guards(p) ==
  /\ passage[p].pc = "guards"
  /\ \/ ~(HintAgrees(passage[p].req) /\ RoleSuffices(passage[p].req)) /\ Leave(p)
     \/ /\ HintAgrees(passage[p].req) /\ RoleSuffices(passage[p].req)
        /\ passage' = [passage EXCEPT ![p].pc = "handler"]
  /\ unchangedWorld

Handled(p) == passage[p].pc = "handler" /\ Leave(p) /\ unchangedWorld

PassageStep(p) ==
  \/ \E r \in Arrivals : Arrive(p, r)
  \/ Limited(p) \/ Routed(p) \/ OperatorRoute(p) \/ CheckRevoked(p) \/ Verify(p)
  \/ EnforceMfa(p) \/ LoadGrants(p) \/ Guards(p) \/ Handled(p)

-----------------------------------------------------------------------------
(* What happens beside it.                                                 *)
RevokeAll ==
  /\ epoch' = second
  /\ UNCHANGED <<second, issuedAt, logoutSeen, blocking, passage>>

Logout ==
  /\ logoutSeen' = TRUE
  /\ UNCHANGED <<second, issuedAt, epoch, blocking, passage>>

PolicyTurns ==
  /\ blocking' = ~blocking
  /\ passage' = [p \in Passages |-> IF passage[p].pc = "away" THEN Away
                                    ELSE [passage[p] EXCEPT !.excused = TRUE]]
  /\ UNCHANGED <<second, issuedAt, epoch, logoutSeen>>

Second ==
  /\ second < MaxSeconds /\ second' = second + 1
  /\ UNCHANGED <<issuedAt, epoch, logoutSeen, blocking, passage>>

GatewayNext ==
  (\E p \in Passages : PassageStep(p)) \/ RevokeAll \/ Logout \/ PolicyTurns \/ Second

GatewaySpec == GatewayInit /\ [][GatewayNext]_gatewayVars

-----------------------------------------------------------------------------
(* A handler behind the token runs only for a token that was not revoked   *)
(* when the request came in, an organization hint that is the token's, a   *)
(* role that suffices for the mount, and, on a path that is not exempt, a  *)
(* user the policy let through at some moment of the request.              *)
HandledMeansAllowed ==
  \A p \in Passages : passage[p].pc = "handler" =>
    LET r == passage[p].req
    IN \/ r.mount \in OperatorMounts /\ r.bearer = OperatorToken[r.mount]
       \/ /\ r.bearer = "access" /\ ~passage[p].revoked /\ r.hint # "other"
          /\ r.mount \in {"departments"} => r.role \in {"org_admin", "account_admin"}
          /\ r.mount = "users" => r.role # "dept_user"
          /\ r.mount \notin {"departments", "users"} => r.role = "org_admin"
          /\ passage[p].excused \/ r.mount = "mfa_policy"

=============================================================================
