------------------------------ MODULE SsoLogin ------------------------------
(***************************************************************************)
(* The ways into an organization: a password, a magic link, its SAML or    *)
(* its OpenID Connect provider, with the settings that open and close      *)
(* them: SamlService, OidcService, SsoEnforcementService and emergency     *)
(* access.  A login is a sequence of reads of those settings and of the    *)
(* second factors of the user; administrators save settings meanwhile.     *)
(* Locks and codes are module Login, provisioning is module Tenancy and    *)
(* group roles are module Access: here they only refuse or let through.    *)
(***************************************************************************)
EXTENDS Factors

CONSTANTS
  EnvKey,      \* SAML_SP_PRIVATE_KEY is set
  SamlBodies,  \* bodies of PUT /organization/saml
  OidcBodies,  \* bodies of PUT /organization/oidc
  SamlBefore,  \* the SAML settings saved before
  MaxStates    \* bound: OpenID logins begun

VARIABLES
  saml,         \* enabled, and whether it has a provider and a key of its own
  oidc,         \* enabled, and whether it has an issuer with a client, a secret
  enforce,      \* sso_settings.enforce
  grant,        \* emergency_access_expires_at: "none", "active" or "over"
  suspended,    \* the organization
  states,       \* OpenID states stored in Redis
  opened,       \* OpenID states handed out
  samlSession,  \* a name of the user at the provider is kept for logout
  barred,       \* history: calls during all of which only the provider may vouch
  armed,        \* history: calls during all of which the user has a factor
  keyed,        \* history: calls during all of which it is an authenticator
  entry         \* how a user comes in, in the state after the login

settings == <<saml, oidc, enforce, grant, suspended>>
ssoVars == <<settings, states, opened, samlSession>>
ssoHistory == <<barred, armed, keyed, entry>>
identityVars == <<factorVars, ssoVars, ssoHistory>>

Ways == {"password", "link", "saml", "oidc"}
Given == {"none", "right", "wrong", "wrong_sms"}  \* the code sent along

NoEntry == [way |-> "none"]

SsoInit ==
  /\ saml \in SamlBefore
  /\ oidc = [enabled |-> FALSE, client |-> FALSE, secret |-> FALSE]
  /\ enforce = FALSE /\ grant = "none" /\ suspended = FALSE
  /\ states = {} /\ opened = 0 /\ samlSession = FALSE
  /\ barred = {} /\ armed = {} /\ keyed = {} /\ entry = NoEntry

enrolFrame == <<role, mfa, policy, now, marked, enrolled, confirmed, crossed, mails, lost,
                beside>>

-----------------------------------------------------------------------------
(* Settings.  A save reads the organization, checks and writes the whole   *)
(* subdocument.  The secrets are not selected by that read: a save without *)
(* one erases it.                                                          *)

SamlNext(body) ==
  [enabled |-> body.enabled, idp |-> saml.idp \/ body.idp, key |-> body.key]

SaveSaml(c, body) ==
  /\ call[c] = NoHandler /\ saves < MaxSaves
  /\ saves' = saves + 1
  /\ IF body.enabled /\ ~(SamlNext(body).idp /\ (body.key \/ EnvKey))
     THEN UNCHANGED call
     ELSE call' = [call EXCEPT ![c] =
                     [pc |-> "save_saml", next |-> SamlNext(body), stale |-> FALSE]]
  /\ UNCHANGED <<ssoVars, enrolFrame, faults>>

WriteSaml(c) ==
  /\ call[c].pc = "save_saml"
  /\ saml' = call[c].next
  /\ call' = [call EXCEPT ![c] = NoHandler]
  /\ UNCHANGED <<oidc, enforce, grant, suspended, states, opened, samlSession,
                 enrolFrame, saves, faults>>

OidcNext(body) ==
  [enabled |-> body.enabled, client |-> oidc.client \/ body.client, secret |-> body.secret]

SaveOidc(c, body) ==
  /\ call[c] = NoHandler /\ saves < MaxSaves
  /\ saves' = saves + 1
  /\ IF body.enabled /\ ~(OidcNext(body).client /\ body.secret)
     THEN UNCHANGED call
     ELSE call' = [call EXCEPT ![c] =
                     [pc |-> "save_oidc", next |-> OidcNext(body), stale |-> FALSE]]
  /\ UNCHANGED <<ssoVars, enrolFrame, faults>>

WriteOidc(c) ==
  /\ call[c].pc = "save_oidc"
  /\ oidc' = call[c].next
  /\ call' = [call EXCEPT ![c] = NoHandler]
  /\ UNCHANGED <<saml, enforce, grant, suspended, states, opened, samlSession,
                 enrolFrame, saves, faults>>

(* The buttons of the login page.                                          *)
SamlOffered == saml.enabled /\ saml.idp
OidcOffered == oidc.enabled /\ oidc.client

SaveEnforcement(c, on) ==
  /\ call[c] = NoHandler /\ saves < MaxSaves
  /\ saves' = saves + 1
  /\ IF on /\ ~SamlOffered /\ ~OidcOffered
     THEN UNCHANGED call
     ELSE call' = [call EXCEPT ![c] = [pc |-> "save_enforce", on |-> on, stale |-> FALSE]]
  /\ UNCHANGED <<ssoVars, enrolFrame, faults>>

WriteEnforcement(c) ==
  /\ call[c].pc = "save_enforce"
  /\ enforce' = call[c].on
  /\ call' = [call EXCEPT ![c] = NoHandler]
  /\ UNCHANGED <<saml, oidc, grant, suspended, states, opened, samlSession,
                 enrolFrame, saves, faults>>

SetGrant(value) ==
  /\ grant' = value
  /\ UNCHANGED <<saml, oidc, enforce, suspended, states, opened, samlSession,
                 enrolFrame, call, faults>>

GrantEmergency == saves < MaxSaves /\ saves' = saves + 1 /\ SetGrant("active")
RevokeEmergency == grant # "none" /\ saves' = saves /\ SetGrant("none")
EmergencyEnds == grant = "active" /\ saves' = saves /\ SetGrant("over")

SuspendOrg ==
  /\ saves < MaxSaves /\ saves' = saves + 1
  /\ suspended' = ~suspended
  /\ UNCHANGED <<saml, oidc, enforce, grant, states, opened, samlSession,
                 enrolFrame, call, faults>>

-----------------------------------------------------------------------------
(* A login.  Only the handlers of a password and a link take a code.       *)

Login(c, state) == Proceed(c, state) /\ UNCHANGED ssoVars
Goto(c, pc) == Login(c, [call[c] EXCEPT !.pc = pc])

LoginState(pc, way) == [pc |-> pc, way |-> way, saw |-> NoFactors, stale |-> FALSE]

Answers(way) ==
  CASE way = "password" -> LoginAnswers
    [] way = "link" -> MagicLinkAnswers
    [] way = "saml" -> SamlCallbackAnswers
    [] way = "oidc" -> OidcCallbackAnswers

Refuse(c, outcome) ==
  /\ Respond(c, call[c].way, Answers(call[c].way), outcome)
  /\ UNCHANGED ssoVars

(* login reads the user at once; a link first finds out whose it is.       *)
PasswordLogin(c) ==
  /\ call[c] = NoHandler
  /\ Login(c, [LoginState("org", "password") EXCEPT !.saw = mfa])

LinkLogin(c) ==
  /\ call[c] = NoHandler
  /\ Login(c, LoginState("org", "link"))

(* checkSSOEnforcement: the organization first ...                         *)
CheckEnforcement(c) ==
  /\ call[c].pc = "org"
  /\ Goto(c, IF enforce THEN "grant" ELSE "account")

(* Mutant: a grant that has ended still opens the door.                    *)
EmergencyActive_Ever == grant # "none"

EmergencyActive == grant = "active"

(* ... then the user.                                                      *)
CheckGrant(c) ==
  /\ call[c].pc = "grant"
  /\ IF EmergencyActive THEN Goto(c, "account") ELSE Refuse(c, "sso_required")

(* Mutant: a provider that vouches for the user answers for the factor.    *)
AsksFactor_NotOfSso(doc, way) == doc.enabled /\ way \in {"password", "link"}

AsksFactor(doc, way) == doc.enabled

(* Mutant: who has SMS is not asked for the authenticator as well.         *)
FactorPasses_SmsUser(doc, given) == given = "right" \/ (given = "wrong" /\ doc.sms)

(* Without an authenticator any code sent as one passes.                   *)
FactorPasses(doc, given) == given = "right" \/ (given = "wrong" /\ doc.secret = 0)

(* The lock, the status, the second factor; then tokens and a session.     *)
(* refusal: what the lock, the password and the status say.                *)
Account(c, refusal, given) ==
  LET way == call[c].way
      doc == IF way = "password" THEN call[c].saw ELSE mfa
      outcome == IF refusal # "ok" THEN refusal
                 ELSE IF ~AsksFactor(doc, way) THEN "ok"
                 ELSE IF given = "none" THEN "mfa_required"
                 ELSE IF FactorPasses(doc, given) THEN "ok" ELSE "invalid_mfa"
  IN
  /\ way \in {"saml", "oidc"} => given = "none"
  /\ Respond(c, way, Answers(way), outcome)
  /\ entry' = IF outcome # "ok" THEN NoEntry
              ELSE [way |-> way, given |-> given, barred |-> c \in barred,
                    armed |-> c \in armed, keyed |-> c \in keyed]
  /\ UNCHANGED ssoVars

-----------------------------------------------------------------------------
(* Handlers beside a login, which leave what this module keeps alone: the  *)
(* buttons of the login page, messages with a code or a link, tokens and   *)
(* sessions (modules Login and Sessions).                                  *)

Beside(c, name, handler, outcome) ==
  /\ call[c] = NoHandler
  /\ Respond(c, name, handler, outcome)
  /\ UNCHANGED ssoVars

(* Not exactly one user of that address: as if nothing were required.      *)
OneUser(found) == found = 1

LoginOptions(c) == Beside(c, "options", LoginOptionsAnswers, "ok")

(* No account at Twilio, or too many codes.  That Twilio fails, a fault,   *)
(* is left out.                                                            *)
SendOutcomes == {"ok", "unavailable", "rate_limited"}

SendSms(c, outcome) == Beside(c, "send_sms", SendSmsAnswers, outcome)

(* A number that was proved is stored encrypted, and read in the clear only *)
(* where the ciphertext is asked for; neither field is selected by itself.  *)
NumberFields == IF mfa.sms THEN {"phone_number_enc", "phone_number_search"} ELSE {}
LoginFields == {"password_hash", "mfa.totp_secret_enc"}
NumberIsRead(stored, selected) == {"phone_number", "phone_number_enc"} \cap stored \cap selected # {}

LoginSms(found, right, outcome) ==
  IF OneUser(found) /\ right /\ mfa.sms /\ NumberIsRead(NumberFields, LoginFields)
  THEN outcome ELSE "invalid_credentials"

SendLoginSms(c, found, right, outcome) ==
  Beside(c, "send_login_sms", SendLoginSmsAnswers, LoginSms(found, right, outcome))

SendLink(c) == Beside(c, "send_link", SendLinkAnswers, "ok")

RefreshTokens(c, outcome) == Beside(c, "refresh", RefreshAnswers, outcome)

LogoutTokens(c, bearer) ==
  Beside(c, "logout", LogoutAnswers, IF bearer THEN "ok" ELSE "no_token")

(* Of oneself, or of another as an administrator of the organization.      *)
RevokeTokens(c, own, admin, found) ==
  Beside(c, "revoke_tokens", RevokeTokensAnswers,
         IF own \/ (admin /\ found) THEN "ok" ELSE IF ~admin THEN "forbidden" ELSE "not_in_org")

ListSessions(c) == Beside(c, "sessions", ListSessionsAnswers, "ok")
RevokeSessions(c) == Beside(c, "revoke_sessions", RevokeSessionsAnswers, "ok")
RevokeSession(c, found) ==
  Beside(c, "revoke_session", RevokeSessionAnswers, IF found THEN "ok" ELSE "not_found")

BesideCall(c) ==
  \/ LoginOptions(c) \/ SendLink(c) \/ ListSessions(c) \/ RevokeSessions(c)
  \/ \E outcome \in SendOutcomes :
       SendSms(c, outcome) \/ \E found \in 0..2, right \in BOOLEAN :
                                 SendLoginSms(c, found, right, outcome)
  \/ \E outcome \in {"ok", "no_token", "unauthorized", "token_reuse",
                      "invalid_refresh_token"} : RefreshTokens(c, outcome)
  \/ \E yes \in BOOLEAN : LogoutTokens(c, yes) \/ RevokeSession(c, yes)
  \/ \E own, admin, found \in BOOLEAN : RevokeTokens(c, own, admin, found)

BesideStep ==
  /\ \E c \in Handlers : BesideCall(c)
  /\ UNCHANGED <<enrolFrame, saves, ssoHistory>>

-----------------------------------------------------------------------------
(* SAML                                                                    *)

SamlReady == SamlOffered /\ ~suspended

(* The assertion is decrypted with the key of the environment: the key of  *)
(* the organization is not selected here either.                           *)
SamlCallback(c, found) ==
  /\ call[c] = NoHandler
  /\ IF SamlReady /\ EnvKey /\ found
     THEN Login(c, LoginState("saml_session", "saml"))
     ELSE /\ Respond(c, "saml", SamlCallbackAnswers,
                     IF ~SamlReady THEN "not_configured"
                     ELSE IF ~EnvKey THEN "assertion_error" ELSE "user_not_found")
          /\ UNCHANGED ssoVars

(* The session at the provider is noted before the user is let in.         *)
SaveSamlSession(c) ==
  /\ call[c].pc = "saml_session"
  /\ samlSession' = TRUE
  /\ call' = [call EXCEPT ![c].pc = "account"]
  /\ UNCHANGED <<faults, settings, states, opened>>

(* The redirect to the provider, and the metadata for it.                  *)
SamlPages(c) ==
  /\ call[c] = NoHandler
  /\ \E handler \in {SamlLoginAnswers, SamlMetadataAnswers} :
       Respond(c, "saml_page", handler, IF SamlReady THEN "ok" ELSE "not_configured")
  /\ UNCHANGED ssoVars

SamlLogout(c) ==
  /\ call[c] = NoHandler
  /\ Respond(c, "saml_logout", SamlLogoutAnswers,
             IF ~SamlReady THEN "not_configured" ELSE IF samlSession THEN "ok" ELSE "nothing")
  /\ samlSession' = (samlSession /\ ~SamlReady)
  /\ UNCHANGED <<settings, states, opened>>

-----------------------------------------------------------------------------
(* OpenID Connect                                                          *)

OidcReady == OidcOffered /\ oidc.secret /\ ~suspended

OidcLogin(c) ==
  /\ call[c] = NoHandler /\ opened < MaxStates
  /\ Respond(c, "oidc_page", OidcLoginAnswers, IF OidcReady THEN "ok" ELSE "not_configured")
  /\ opened' = IF OidcReady THEN opened + 1 ELSE opened
  /\ states' = states \cup {s \in {opened'} : OidcReady}
  /\ UNCHANGED <<settings, samlSession>>

(* consumeOidcPkce reads the state ...                                     *)
OidcCallback(c, state) ==
  /\ call[c] = NoHandler
  /\ IF state \in states
     THEN Login(c, [pc |-> "pkce", way |-> "oidc", saw |-> NoFactors,
                    stale |-> FALSE, state |-> state])
     ELSE Respond(c, "oidc", OidcCallbackAnswers, "callback_failed") /\ UNCHANGED ssoVars

(* ... and deletes it; whose it is, is looked at after that.               *)
ConsumeState(c, mine) ==
  /\ call[c].pc = "pkce"
  /\ states' = states \ {call[c].state}
  /\ IF mine THEN call' = [call EXCEPT ![c] = LoginState("exchange", "oidc")]
                  /\ UNCHANGED faults
     ELSE Respond(c, "oidc", OidcCallbackAnswers, "callback_failed")
  /\ UNCHANGED <<settings, opened, samlSession>>

(* The provider changes the code for the claims, once; then the user.      *)
OidcExchange(c, accepted, found) ==
  /\ call[c].pc = "exchange"
  /\ IF OidcReady /\ accepted /\ found
     THEN Goto(c, "account")
     ELSE Refuse(c, IF ~OidcReady THEN "not_configured"
                    ELSE IF ~accepted THEN "provider_error" ELSE "user_not_found")

StateExpires(state) ==
  /\ state \in states
  /\ states' = states \ {state}
  /\ UNCHANGED <<call, faults, settings, opened, samlSession>>

-----------------------------------------------------------------------------

SettingsStep ==
  /\ \/ \E c \in Handlers :
          \/ \E body \in SamlBodies : SaveSaml(c, body)
          \/ \E body \in OidcBodies : SaveOidc(c, body)
          \/ \E on \in BOOLEAN : SaveEnforcement(c, on)
          \/ WriteSaml(c) \/ WriteOidc(c) \/ WriteEnforcement(c)
     \/ GrantEmergency \/ RevokeEmergency \/ EmergencyEnds \/ SuspendOrg
  /\ entry' = NoEntry

LoginStep ==
  /\ \/ \E c \in Handlers :
          \/ PasswordLogin(c) \/ LinkLogin(c)
          \/ CheckEnforcement(c) \/ CheckGrant(c)
          \/ \E found \in BOOLEAN : SamlCallback(c, found)
          \/ SaveSamlSession(c) \/ SamlPages(c) \/ SamlLogout(c) \/ OidcLogin(c)
          \/ \E state \in 1..opened : OidcCallback(c, state)
          \/ \E mine \in BOOLEAN : ConsumeState(c, mine)
          \/ \E accepted, found \in BOOLEAN : OidcExchange(c, accepted, found)
     \/ \E state \in states : StateExpires(state)
  /\ entry' = NoEntry
  /\ UNCHANGED <<enrolFrame, saves>>

Decision ==
  /\ \E c \in Handlers, refusal \in {"ok", "account_locked", "invalid_credentials"},
        given \in Given : call[c].pc = "account" /\ Account(c, refusal, given)
  /\ UNCHANGED <<enrolFrame, saves>>

(* A number is added or removed meanwhile, or the authenticator removed.   *)
FactorStep ==
  /\ \E c \in Handlers :
       \/ VerifySms(c, TRUE) \/ SmsWrite(c) \/ DisableSms(c) \/ SmsOffWrite(c)
       \/ DisableTotp(c, <<"totp", mfa.secret>>) \/ DisableWrite(c)
  /\ UNCHANGED <<role, policy, now, marked, saves, mails, lost, beside, ssoVars>>
  /\ entry' = NoEntry

PasswordAllowed == ~enforce \/ grant = "active"

HasAuthenticator(doc) == doc.enabled /\ doc.secret # 0

(* The calls, among those before and the new ones, that are in flight.     *)
StillFlying(calls) == {c \in calls \cup (Handlers \ InFlight) : call'[c] # NoHandler}

SsoNext ==
  /\ SettingsStep \/ LoginStep \/ Decision \/ FactorStep
  /\ barred' = IF PasswordAllowed' THEN {} ELSE StillFlying(barred)
  /\ armed' = IF mfa'.enabled THEN StillFlying(armed) ELSE {}
  /\ keyed' = IF HasAuthenticator(mfa') THEN StillFlying(keyed) ELSE {}

-----------------------------------------------------------------------------
(* Properties                                                              *)

(* "Block password / magic-link login when SSO is required.  Allows        *)
(* emergency access users" (sso-enforcement.service.ts:108): a login all   *)
(* of which ran while it was required, without a grant, ends at the        *)
(* provider.  Only one that was under way may still come in.               *)
EnforcedMeansProvider ==
  entry # NoEntry /\ entry.barred => entry.way \in {"saml", "oidc"}

(* "still enforces MFA" (auth.service.ts:248): whichever way a user with   *)
(* an authenticator comes, no one comes in without a code that is right,   *)
(* and without any code no one does who has a second factor; unless it was *)
(* added or removed while the login was under way.  Of a user with SMS     *)
(* alone, any code sent as one of an authenticator is taken.               *)
FactorIsAsked ==
  entry # NoEntry => /\ entry.keyed => entry.given = "right"
                     /\ entry.armed => entry.given # "none"

(* No way in is open that the settings or the factors of the user close.   *)
SignInIsGuarded == EnforcedMeansProvider /\ FactorIsAsked

(* "Send SMS code after password check (pre-login MFA challenge)"           *)
(* (auth.service.ts:695): a user with SMS as second factor who gives the    *)
(* right password is sent a code, if Twilio takes it.                       *)
SmsCodeIsSent == mfa.sms => LoginSms(1, TRUE, "ok") = "ok"

(* A refusal has an answer of its own.  Only the callbacks of the          *)
(* providers answer the refusals of the login that follows as a fault.     *)
RefusalsAreNotFaults == \A f \in faults : f[1] \in {"saml", "oidc"}

=============================================================================
