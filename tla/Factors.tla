------------------------------ MODULE Factors ------------------------------
(***************************************************************************)
(* The second factors of a user, and the policy of the organization that   *)
(* asks for them: MfaService (authenticator and backup codes), the         *)
(* enrolment of SmsMfaService, MfaPolicyService with the middleware that   *)
(* enforces it, and the daily reminder.  A handler reads the user document *)
(* first and writes fields of it later; in between others write it.  How   *)
(* codes are spent is module Login.                                        *)
(*                                                                         *)
(* A secret of an authenticator is a number, 0 is none.  Backup codes are  *)
(* named after the secret they were handed out with.                       *)
(***************************************************************************)
EXTENDS Integers, FiniteSets

(* What the handlers answer: for each the status of a success and of every *)
(* error it has a case for.  Any other error falls to the last lines of    *)
(* the handler, a 500.                                                     *)
Fault == 500

Answer(handler, outcome) ==
  IF outcome \in DOMAIN handler THEN handler[outcome] ELSE Fault

-----------------------------------------------------------------------------
(* AuthController: signing in                                              *)

LoginAnswers ==
  [ok |-> 200, account_locked |-> 423, mfa_required |-> 403, invalid_mfa |-> 401,
   invalid_credentials |-> 401, inactive |-> 403, ambiguous |-> 400, sso_required |-> 403]

(* Mutant: the link's handler lacks the case of a missing second factor.   *)
MagicLinkAnswers_NoFactor ==
  [ok |-> 200, invalid_link |-> 401, sso_required |-> 403, account_locked |-> 423,
   invalid_mfa |-> 401, invalid_credentials |-> 401]

MagicLinkAnswers ==
  [ok |-> 200, invalid_link |-> 401, sso_required |-> 403, account_locked |-> 423,
   mfa_required |-> 403, invalid_mfa |-> 401, invalid_credentials |-> 401]

(* A link that is not sent is not told apart: the limit on sends and the   *)
(* other reasons are swallowed by the service.                             *)
SendLinkAnswers == [ok |-> 204, rate_limited |-> 429]
LoginOptionsAnswers == [ok |-> 200]

-----------------------------------------------------------------------------
(* AuthController: tokens and sessions                                     *)

RefreshAnswers ==
  [ok |-> 200, no_token |-> 401, unauthorized |-> 401, token_reuse |-> 401,
   invalid_refresh_token |-> 401]
LogoutAnswers == [ok |-> 204, no_token |-> 401]
RevokeTokensAnswers == [ok |-> 200, forbidden |-> 403, not_in_org |-> 404]
ListSessionsAnswers == [ok |-> 200]
RevokeSessionAnswers == [ok |-> 204, not_found |-> 404]
RevokeSessionsAnswers == [ok |-> 200]

-----------------------------------------------------------------------------
(* AuthController: second factors                                          *)

SetupTotpAnswers == [ok |-> 200, already_enabled |-> 409]
VerifyTotpAnswers == [ok |-> 200, not_pending |-> 400, invalid_mfa |-> 401]
BackupCodeStatusAnswers == [ok |-> 200, not_enabled |-> 404]
RegenerateAnswers == [ok |-> 200, not_enabled |-> 404, invalid_mfa |-> 401]
DisableTotpAnswers == [ok |-> 204, not_enabled |-> 404, invalid_mfa |-> 401]
SendSmsAnswers == [ok |-> 204, rate_limited |-> 429, unavailable |-> 503]
SendLoginSmsAnswers ==
  [ok |-> 204, rate_limited |-> 429, unavailable |-> 503, invalid_credentials |-> 401]
VerifySmsAnswers == [ok |-> 200, invalid_code |-> 401]
DisableSmsAnswers == [ok |-> 204, not_enabled |-> 404]

-----------------------------------------------------------------------------
(* SamlController and OidcController.  Neither has a case for an error of  *)
(* the authentication that follows: locked, inactive, second factor asked. *)

SamlLoginAnswers == [ok |-> 302, not_configured |-> 404]
SamlCallbackAnswers ==
  [ok |-> 302, not_configured |-> 404, user_not_found |-> 403, no_response |-> 401]
SamlMetadataAnswers == [ok |-> 200, not_configured |-> 404]
SamlLogoutAnswers == [ok |-> 302, nothing |-> 204, not_configured |-> 404]
OidcLoginAnswers == [ok |-> 302, not_configured |-> 404]
OidcCallbackAnswers ==
  [ok |-> 302, not_configured |-> 404, user_not_found |-> 403, callback_failed |-> 401]

-----------------------------------------------------------------------------

CONSTANTS
  Handlers,      \* requests in flight
  PolicyBodies,  \* bodies of PUT /organization/mfa-policy
  MaxEnrolments, \* bound: secrets issued
  MaxSaves,      \* bound: saves of a setting
  MaxMails,      \* bound: mails of a day
  MaxTime        \* bound: days

ASSUME TimeAssumption == MaxTime \in Nat

Roles == {"org_admin", "account_admin", "dept_manager", "dept_user"}
Methods == {"totp", "sms", "email", "webauthn"}
Days == 0..MaxTime

VARIABLES
  role,       \* of the user
  mfa,        \* mfa_enabled and mfa of the user document
  policy,     \* mfa_policies of the organization
  now,
  marked,     \* days with a reminder key in Redis
  call,
  saves,
  enrolled,   \* secrets shown to the user so far
  confirmed,  \* history: secrets proven by a code
  crossed,    \* history: a write based on a stale read broke the document
  mails,      \* history: reminders mailed under the key of each day
  lost,       \* history: days a job died between mail and key
  beside,     \* history: days two jobs ran at once
  faults      \* the last answer, if it was a fault

factorVars == <<role, mfa, policy, now, marked, call, saves, enrolled, confirmed, crossed,
                mails, lost, beside, faults>>

NoFactors == [enabled |-> FALSE, secret |-> 0, pending |-> FALSE, sms |-> FALSE, codes |-> 0]
NoPolicy == [enabled |-> FALSE, required |-> "none", grace |-> 14, methods |-> {"totp", "sms"},
             since |-> 0]

NoHandler == [pc |-> "idle"]
InFlight == {c \in Handlers : call[c] # NoHandler}
WrongToken == <<"wrong", 0>>
Tokens == {WrongToken} \cup ({"totp", "backup"} \X (1..enrolled))

FactorsInit ==
  /\ role \in Roles
  /\ mfa = NoFactors /\ policy = NoPolicy /\ now = 0 /\ marked = {}
  /\ call = [c \in Handlers |-> NoHandler]
  /\ saves = 0 /\ enrolled = 0 /\ confirmed = {} /\ crossed = FALSE
  /\ mails = [d \in Days |-> 0] /\ lost = [d \in Days |-> FALSE] /\ beside = lost /\ faults = {}

-----------------------------------------------------------------------------
(* Requests                                                                *)

(* What a handler answers.  A refusal of the service that its handler has  *)
(* no case for is answered as a fault.                                     *)
Noted(name, handler, outcome) ==
  faults' = {x \in {<<name, outcome>>} : Answer(handler, outcome) = Fault}

Respond(c, name, handler, outcome) ==
  /\ call' = [call EXCEPT ![c] = NoHandler]
  /\ Noted(name, handler, outcome)

Proceed(c, state) ==
  /\ call' = [call EXCEPT ![c] = state]
  /\ faults' = {}

(* A document is whole when it asks for a factor the user has shown, a     *)
(* secret not shown yet is pending, and the backup codes go with a secret. *)
Whole(m, shown) ==
  /\ m.enabled => m.sms \/ m.secret \in shown
  /\ m.secret # 0 /\ ~m.pending => m.secret \in shown
  /\ m.codes # 0 => m.codes = m.secret

(* An update of the document.  Requests in flight have read an older one.  *)
(* next: the state the request goes on in, or NoHandler.                   *)
SetFields(c, doc, next) ==
  /\ mfa' = doc
  /\ crossed' = ((crossed \/ call[c].stale) /\ ~Whole(doc, confirmed))
  /\ call' = [d \in Handlers |-> IF d = c THEN next
                              ELSE IF call[d] = NoHandler THEN NoHandler
                              ELSE [call[d] EXCEPT !.stale = TRUE]]

Read(pc, doc, token) == [pc |-> pc, saw |-> doc, token |-> token, stale |-> FALSE]

-----------------------------------------------------------------------------
(* MfaService: the authenticator                                           *)

SetupTotp(c) ==
  /\ call[c] = NoHandler /\ enrolled < MaxEnrolments
  /\ IF mfa.enabled
     THEN Respond(c, "setup", SetupTotpAnswers, "already_enabled") /\ UNCHANGED enrolled
     ELSE Proceed(c, Read("setup", mfa, <<"totp", enrolled + 1>>)) /\ enrolled' = enrolled + 1
  /\ UNCHANGED <<mfa, confirmed, crossed>>

SetupWrite(c) ==
  /\ call[c].pc = "setup"
  /\ SetFields(c, [mfa EXCEPT !.secret = call[c].token[2], !.pending = TRUE, !.codes = 0], NoHandler)
  /\ UNCHANGED <<enrolled, confirmed, faults>>

VerifyTotp(c, token) ==
  /\ call[c] = NoHandler
  /\ IF ~mfa.pending \/ mfa.secret = 0
     THEN Respond(c, "verify", VerifyTotpAnswers, "not_pending") /\ UNCHANGED confirmed
     ELSE IF token # <<"totp", mfa.secret>>
     THEN Respond(c, "verify", VerifyTotpAnswers, "invalid_mfa") /\ UNCHANGED confirmed
     ELSE Proceed(c, Read("enable", mfa, token)) /\ confirmed' = confirmed \cup {mfa.secret}
  /\ UNCHANGED <<mfa, enrolled, crossed>>

EnableWrite(c) ==
  /\ call[c].pc = "enable"
  /\ SetFields(c, [mfa EXCEPT !.enabled = TRUE, !.pending = FALSE],
            [call[c] EXCEPT !.pc = "codes"])
  /\ UNCHANGED <<enrolled, confirmed, faults>>

(* Backup codes, after enrolment and when they are asked for again.        *)
CodesWrite(c) ==
  /\ call[c].pc = "codes"
  /\ SetFields(c, [mfa EXCEPT !.codes = call[c].token[2]], NoHandler)
  /\ UNCHANGED <<enrolled, confirmed, faults>>

BackupCodesStatus(c) ==
  /\ call[c] = NoHandler
  /\ Respond(c, "codes", BackupCodeStatusAnswers, IF mfa.enabled THEN "ok" ELSE "not_enabled")
  /\ UNCHANGED <<mfa, enrolled, confirmed, crossed>>

RegenerateCodes(c, token) ==
  /\ call[c] = NoHandler
  /\ IF ~mfa.enabled \/ mfa.secret = 0
     THEN Respond(c, "regenerate", RegenerateAnswers, "not_enabled")
     ELSE IF token # <<"totp", mfa.secret>>
     THEN Respond(c, "regenerate", RegenerateAnswers, "invalid_mfa")
     ELSE Proceed(c, Read("codes", mfa, token))
  /\ UNCHANGED <<mfa, enrolled, confirmed, crossed>>

DisableTotp(c, token) ==
  /\ call[c] = NoHandler
  /\ IF ~mfa.enabled \/ mfa.secret = 0
     THEN Respond(c, "disable", DisableTotpAnswers, "not_enabled")
     ELSE Proceed(c, Read(IF token = <<"totp", mfa.secret>> THEN "disable" ELSE "backup",
                          mfa, token))
  /\ UNCHANGED <<mfa, enrolled, confirmed, crossed>>

(* useBackupCode reads the document again.                                 *)
DisableByCode(c) ==
  /\ call[c].pc = "backup"
  /\ IF mfa.codes # 0 /\ call[c].token = <<"backup", mfa.codes>>
     THEN Proceed(c, [call[c] EXCEPT !.pc = "disable"])
     ELSE Respond(c, "disable", DisableTotpAnswers, "invalid_mfa")
  /\ UNCHANGED <<mfa, enrolled, confirmed, crossed>>

(* Mutant: the backup codes stay.                                          *)
Disabled_KeepsCodes(doc) == [doc EXCEPT !.enabled = FALSE, !.pending = FALSE, !.secret = 0]

Disabled(doc) ==
  [doc EXCEPT !.enabled = FALSE, !.pending = FALSE, !.codes = 0, !.secret = 0]

DisableWrite(c) ==
  /\ call[c].pc = "disable"
  /\ SetFields(c, Disabled(mfa), NoHandler)
  /\ UNCHANGED <<enrolled, confirmed, faults>>

-----------------------------------------------------------------------------
(* SmsMfaService: enrolment.  The code is checked against Redis.           *)

VerifySms(c, right) ==
  /\ call[c] = NoHandler
  /\ IF right THEN Proceed(c, Read("sms", mfa, WrongToken))
              ELSE Respond(c, "verify_sms", VerifySmsAnswers, "invalid_code")
  /\ UNCHANGED <<mfa, enrolled, confirmed, crossed>>

SmsWrite(c) ==
  /\ call[c].pc = "sms"
  /\ SetFields(c, [mfa EXCEPT !.enabled = TRUE, !.sms = TRUE], NoHandler)
  /\ UNCHANGED <<enrolled, confirmed, faults>>

DisableSms(c) ==
  /\ call[c] = NoHandler
  /\ IF mfa.sms THEN Proceed(c, Read("sms_off", mfa, WrongToken))
                ELSE Respond(c, "disable_sms", DisableSmsAnswers, "not_enabled")
  /\ UNCHANGED <<mfa, enrolled, confirmed, crossed>>

StillTotp(doc) == doc.secret # 0 /\ ~doc.pending

SmsOffWrite(c) ==
  /\ call[c].pc = "sms_off"
  /\ SetFields(c, [mfa EXCEPT !.enabled = StillTotp(call[c].saw), !.sms = FALSE], NoHandler)
  /\ UNCHANGED <<enrolled, confirmed, faults>>

-----------------------------------------------------------------------------
(* The policy                                                              *)

(* Any enabled second factor meets a policy that allows authenticators.    *)
Satisfies(m, methods) ==
  \/ "totp" \in methods /\ m.enabled
  \/ "sms" \in methods /\ m.sms

Requires(p, r) ==
  /\ p.enabled
  /\ p.required # "none"
  /\ p.required = "all" \/ r \in {"org_admin", "account_admin"}

InGrace(p, day) == day <= p.since + p.grace

(* evaluateForUser: whether a request to the tenant API is let through.    *)
Evaluation(p, m, r, day) ==
  IF ~Requires(p, r) \/ Satisfies(m, p.methods) THEN "free"
  ELSE IF InGrace(p, day) THEN "grace" ELSE "blocked"

(* Every save without a date of its own starts the grace period again.     *)
SavePolicy(body) ==
  /\ saves < MaxSaves
  /\ saves' = saves + 1
  /\ policy' = [enabled |-> body.enabled, required |-> body.required, grace |-> body.grace,
                methods |-> body.methods, since |-> now]
  /\ UNCHANGED <<role, mfa, now, marked, call, enrolled, confirmed, crossed, mails, lost,
                 beside, faults>>

NextDay ==
  /\ now < MaxTime
  /\ now' = now + 1
  /\ UNCHANGED <<role, mfa, policy, marked, call, saves, enrolled, confirmed, crossed, mails,
                 lost, beside, faults>>

-----------------------------------------------------------------------------
(* The daily reminder.  The list of users is made first, and the day of    *)
(* the key is the day the job began.                                       *)

reminderFrame == <<role, mfa, policy, now, saves, enrolled, confirmed, crossed, faults>>

Remind(c) ==
  /\ call[c] = NoHandler
  /\ Evaluation(policy, mfa, role, now) = "grace"
  /\ call' = [call EXCEPT ![c] = [pc |-> "remind", day |-> now, stale |-> FALSE]]
  /\ beside' = [beside EXCEPT ![now] = @ \/ \E d \in Handlers : call[d].pc \in {"remind", "mail", "mark"}
                                                            /\ call[d].day = now]
  /\ UNCHANGED <<marked, mails, lost, reminderFrame>>

(* Mutant: the key is not looked at.                                       *)
RemindOnce_Always(c) ==
  /\ call[c].pc = "remind"
  /\ call' = [call EXCEPT ![c].pc = "mail"]
  /\ UNCHANGED <<marked, mails, lost, beside, reminderFrame>>

RemindOnce(c) ==
  /\ call[c].pc = "remind"
  /\ call' = [call EXCEPT ![c] = IF call[c].day \in marked THEN NoHandler ELSE [@ EXCEPT !.pc = "mail"]]
  /\ UNCHANGED <<marked, mails, lost, beside, reminderFrame>>

(* The mail may fail, and then no key is set.                              *)
RemindMail(c, sent) ==
  /\ call[c].pc = "mail"
  /\ mails[call[c].day] < MaxMails
  /\ mails' = [mails EXCEPT ![call[c].day] = @ + (IF sent THEN 1 ELSE 0)]
  /\ call' = [call EXCEPT ![c] = IF sent THEN [@ EXCEPT !.pc = "mark"] ELSE NoHandler]
  /\ UNCHANGED <<marked, lost, beside, reminderFrame>>

RemindMark(c) ==
  /\ call[c].pc = "mark"
  /\ marked' = marked \cup {call[c].day}
  /\ call' = [call EXCEPT ![c] = NoHandler]
  /\ UNCHANGED <<mails, lost, beside, reminderFrame>>

(* The worker dies, or Redis cannot be reached: the job is run again.      *)
RemindLost(c) ==
  /\ call[c].pc = "mark"
  /\ lost' = [lost EXCEPT ![call[c].day] = TRUE]
  /\ call' = [call EXCEPT ![c] = NoHandler]
  /\ UNCHANGED <<marked, mails, beside, reminderFrame>>

-----------------------------------------------------------------------------

EnrolStep(c) ==
  /\ \/ SetupTotp(c) \/ SetupWrite(c) \/ EnableWrite(c) \/ CodesWrite(c)
     \/ DisableByCode(c) \/ DisableWrite(c)
     \/ \E token \in Tokens : VerifyTotp(c, token) \/ RegenerateCodes(c, token)
                              \/ DisableTotp(c, token)
     \/ \E right \in BOOLEAN : VerifySms(c, right)
     \/ SmsWrite(c) \/ DisableSms(c) \/ SmsOffWrite(c) \/ BackupCodesStatus(c)
  /\ UNCHANGED <<role, policy, now, marked, saves, mails, lost, beside>>

RemindStep(c) ==
  \/ Remind(c) \/ RemindOnce(c)
  \/ \E sent \in BOOLEAN : RemindMail(c, sent)
  \/ RemindMark(c) \/ RemindLost(c)

FactorsNext ==
  \/ \E c \in Handlers : EnrolStep(c) \/ RemindStep(c)
  \/ \E body \in PolicyBodies : SavePolicy(body)
  \/ NextDay

FactorsSpec == FactorsInit /\ [][FactorsNext]_factorVars

-----------------------------------------------------------------------------
(* Properties                                                              *)

(* "Confirm enrollment with a TOTP code; enables MFA"                      *)
(* (mfa.service.ts:130).  A login is only asked for a factor the user has  *)
(* shown to have, and backup codes go with the secret in place.  The       *)
(* handlers write fields of a document they read before, so two enrolments *)
(* at once can break this; one at a time they cannot.                      *)
FactorsAreWhole == ~Whole(mfa, confirmed) => crossed

(* "Already sent today" (mfa-policy-reminder.service.ts:43): a user is      *)
(* mailed once for a day, unless a job died between the mail and its key,  *)
(* or two jobs ran at once.                                                *)
MailedOnce == \A d \in Days : mails[d] > 1 => lost[d] \/ beside[d]

(* What the policy asks for is asked once and enrolled whole.              *)
EnrolmentHolds == FactorsAreWhole /\ MailedOnce

=============================================================================
