----------------------------- MODULE MCEntrance -----------------------------
(* The way of a request into the backend and of a user into an account,     *)
(* each on its own.  `focus` says which moves: the limiter's windows under  *)
(* two clocks, the guards before a handler, one API key, the enrolment of a *)
(* second factor, the policy that asks for it, or a login with some factors *)
(* under single sign-on.  The others stay in one initial state.             *)
EXTENDS SlidingWindow, Gateway, ApiKeys, SsoLogin, TLC

CONSTANTS c1, c2

VARIABLE focus

MCPassages == {"p1"}
MCInstances == {"slow", "fast"}
MCAhead == [slow |-> 0, fast |-> 1]
MCWindow == [tenant |-> 4, user |-> 3, endpoint |-> 4]
MCMax == [tenant |-> 2, user |-> 2, endpoint |-> 2]

LimitedRequests ==
  {[hint |-> None, org |-> "o1", sub |-> "u1", path |-> "/api/users"],
   [hint |-> "o1", org |-> None, sub |-> None, path |-> "/api/search"]}

MCBodies ==
  {[f \in {"active"} |-> TRUE], [f \in {"permissions"} |-> {"read", "write"}],
   [f \in {"permissions", "active"} |-> IF f = "active" THEN TRUE ELSE {"read"}],
   [f \in {"expires"} |-> "later"]}

MCPolicyBodies ==
  {[enabled |-> TRUE, required |-> "all", grace |-> 0, methods |-> {"totp"}],
   [enabled |-> TRUE, required |-> "admins", grace |-> 1, methods |-> {"sms"}]}
MCSamlBodies == [enabled : BOOLEAN, idp : {TRUE}, key : {FALSE}]
MCSamlBefore == {[enabled |-> on, idp |-> on, key |-> FALSE] : on \in BOOLEAN}
MCOidcBodies == [enabled : BOOLEAN, client : {TRUE}, secret : {TRUE}]

SomeFactors ==
  {NoFactors,
   [NoFactors EXCEPT !.enabled = TRUE, !.secret = 1, !.codes = 1],
   [NoFactors EXCEPT !.enabled = TRUE, !.sms = TRUE]}

IdentityInit ==
  /\ SsoInit /\ (focus = "sso" \/ ~saml.enabled)
  /\ role \in IF focus = "policy" THEN Roles ELSE {"dept_user"}
  /\ mfa \in IF focus \in {"policy", "sso"} THEN SomeFactors ELSE {NoFactors}
  /\ enrolled = mfa.secret /\ confirmed = {mfa.secret} \ {0} /\ crossed = FALSE
  /\ policy = NoPolicy /\ now = 0 /\ marked = {}
  /\ call = [c \in Handlers |-> NoHandler] /\ saves = 0
  /\ mails = [d \in Days |-> 0] /\ lost = [d \in Days |-> FALSE] /\ beside = lost
  /\ faults = {}

MCInit ==
  /\ focus \in {"window", "passage", "key", "factors", "policy", "sso"}
  /\ WindowInit /\ GatewayInit /\ KeyInit /\ IdentityInit

SmsStep(c) ==
  /\ VerifySms(c, TRUE) \/ SmsWrite(c) \/ DisableSms(c) \/ SmsOffWrite(c)
  /\ UNCHANGED <<role, policy, now, marked, saves, mails, lost, beside>>

PolicyStep ==
  \/ \E c \in Handlers : SmsStep(c) \/ RemindStep(c)
  \/ \E body \in PolicyBodies : SavePolicy(body)
  \/ NextDay

(* Bound: one change of the factors at a time beside logins and settings.   *)
(* An entry ends a run; the same login, when refused, goes on the same way. *)
OneFactorChange ==
  \E c \in Handlers : \A d \in Handlers \ {c} : call'[d].pc \notin {"sms", "sms_off", "disable"}

MCNext ==
  /\ \/ focus = "window" /\ WindowNext(LimitedRequests) /\ UNCHANGED <<gatewayVars, keyVars, identityVars>>
     \/ focus = "passage" /\ GatewayNext /\ UNCHANGED <<windowVars, keyVars, identityVars>>
     \/ focus = "key" /\ KeyNext /\ UNCHANGED <<windowVars, gatewayVars, identityVars>>
     \/ /\ focus = "factors" /\ \E c \in Handlers : EnrolStep(c)
        /\ UNCHANGED <<windowVars, gatewayVars, keyVars, ssoVars, ssoHistory>>
     \/ focus = "factors" /\ BesideStep /\ UNCHANGED <<windowVars, gatewayVars, keyVars>>
     \/ /\ focus = "policy" /\ PolicyStep
        /\ UNCHANGED <<windowVars, gatewayVars, keyVars, ssoVars, ssoHistory>>
     \/ /\ focus = "sso" /\ entry = NoEntry /\ SsoNext /\ OneFactorChange
        /\ UNCHANGED <<windowVars, gatewayVars, keyVars>>
  /\ UNCHANGED focus

MCSpec == MCInit /\ [][MCNext]_<<windowVars, gatewayVars, keyVars, identityVars, focus>>

(* The enrolment of a second factor alone.                                  *)
EnrolInit == MCInit /\ focus = "factors"
EnrolSpec == EnrolInit /\ [][MCNext]_<<windowVars, gatewayVars, keyVars, identityVars, focus>>

Symmetry == Permutations({c1, c2})
=============================================================================
