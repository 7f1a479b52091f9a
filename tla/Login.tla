------------------------------- MODULE Login --------------------------------
(***************************************************************************)
(* How a user with a second factor logs in: AuthService.login and          *)
(* authenticateVerifiedUser, the lockout counter of LockoutService, and    *)
(* the codes that are to work once: magic links and SMS codes in Redis,    *)
(* backup codes in the user document.  What follows a successful login     *)
(* (tokens, session) is module Sessions.                                   *)
(*                                                                         *)
(* A code is <<kind, n>>, the n-th of its kind.  A set of backup codes is  *)
(* represented by one of its places.                                       *)
(***************************************************************************)
EXTENDS Integers, FiniteSets

CONSTANTS
  Visitors,     \* login requests in flight
  Threshold,    \* MAX_FAILED_ATTEMPTS_BEFORE_LOCK
  SendMax,      \* MAGIC_LINK_SEND_RATE_MAX, SMS_RATE_LIMIT_MAX
  MaxSent,      \* bound: codes of a kind
  MaxLogins,    \* bound: requests ever begun
  MaxLoginCrashes  \* bound: requests that die half way

ASSUME ThresholdAssumption ==
  /\ Threshold \in Nat \ {0} /\ SendMax \in Nat \ {0}
  /\ IsFiniteSet(Visitors) /\ MaxSent \in Nat \ {0}

Kinds == {"link", "sms", "backup"}
Counters == {"attempts", "link", "sms"}   \* lockout:, magic_send_rate:, sms_mfa_rate:

VARIABLES
  count,     \* the counters, 0 when the key is absent
  expiring,  \* the counters with a time to live
  lock,      \* locked:{user}: the attempts that placed it, or 0
  sent,      \* codes of each kind so far
  live,      \* codes that are stored and unused
  attempt,
  loginRequests, loginCrashes,
  abandoned, \* history: counters a request died on before it set their time to live
  tries,     \* history: secrets found wrong since a lock or a clean counter
  accepted,  \* history: how often each code was accepted
  overlapped \* history: codes that two requests read before one spent them

counters == <<count, expiring, abandoned>>
codes == <<sent, live, accepted, overlapped>>
loginVars == <<counters, lock, codes, attempt, loginRequests, loginCrashes, tries>>

NoAttempt == [pc |-> "idle"]
Attempting == {c \in Visitors : attempt[c] # NoAttempt}
Issued == {x \in Kinds \X (1..MaxSent) : x[2] <= sent[x[1]]}
NoCode == <<"none", 0>>
Totp == <<"totp", 0>>       \* the right code of the authenticator
Wrong == <<"wrong", 0>>
Factors == {NoCode, Totp, Wrong} \cup {x \in Issued : x[1] # "link"}

LoginTypeOK ==
  /\ count \in [Counters -> Nat]
  /\ expiring \subseteq {k \in Counters : count[k] > 0}
  /\ lock \in Nat /\ (lock = 0 \/ lock >= Threshold)
  /\ sent \in [Kinds -> 0..MaxSent]
  /\ live \subseteq Issued
  /\ \A k \in {"sms", "backup"} : \A x, y \in live : x[1] = k /\ y[1] = k => x = y
  /\ loginRequests \in 0..MaxLogins /\ loginCrashes \in 0..MaxLoginCrashes
  /\ \A c \in Attempting : attempt[c].factor \in Factors /\ attempt[c].overtaken \in BOOLEAN

LoginInit ==
  /\ count = [k \in Counters |-> 0] /\ expiring = {} /\ abandoned = {} /\ lock = 0
  /\ sent = [k \in Kinds |-> IF k = "backup" THEN 1 ELSE 0]
  /\ live = {<<"backup", 1>>}
  /\ attempt = [c \in Visitors |-> NoAttempt]
  /\ loginRequests = 0 /\ loginCrashes = 0 /\ tries = 0
  /\ accepted = [x \in Kinds \X (1..MaxSent) |-> 0] /\ overlapped = {}

AttemptAt(c, pc) == attempt' = [attempt EXCEPT ![c].pc = pc]
EndAttempt(c) == attempt' = [attempt EXCEPT ![c] = NoAttempt]

BeginAttempt(c, pc, right, link, factor, key) ==
  /\ attempt[c] = NoAttempt
  /\ loginRequests < MaxLogins
  /\ loginRequests' = loginRequests + 1
  /\ attempt' = [attempt EXCEPT ![c] =
       [pc |-> pc, right |-> right, link |-> link, factor |-> factor, key |-> key,
        seen |-> 0, overtaken |-> FALSE]]
  /\ UNCHANGED <<counters, lock, codes, loginCrashes, tries>>

-----------------------------------------------------------------------------
(* Codes that work once                                                    *)

(* Another request has read the code and not spent it yet.                 *)
Reading(x) == {y \in {x} : \E d \in Attempting :
  \/ attempt[d].pc = "spend_link" /\ attempt[d].link = x
  \/ attempt[d].pc = "spend" /\ attempt[d].factor = x}

(* A link has a key of its own.  The SMS code is the one key of the user   *)
(* and a backup code a place in the list: what is there now is spent.  The *)
(* result of the write is not looked at, and the code accepted.            *)
Spend(x) ==
  /\ live' = live \ {y \in live : y = x \/ (x[1] # "link" /\ y[1] = x[1])}
  /\ accepted' = [accepted EXCEPT ![x] = @ + 1]

(* verifyMagicLink reads the token ...                                     *)
FollowLink(c, x, factor) ==
  /\ x \in Issued /\ x[1] = "link"
  /\ BeginAttempt(c, "link", TRUE, x, factor, "attempts")

LinkRead(c) ==
  /\ attempt[c].pc = "link"
  /\ IF attempt[c].link \in live THEN AttemptAt(c, "spend_link") ELSE EndAttempt(c)
  /\ overlapped' = overlapped \cup (Reading(attempt[c].link) \cap live)
  /\ UNCHANGED <<counters, lock, sent, live, accepted, loginRequests, loginCrashes, tries>>

(* ... and deletes it, before anything else is asked.                      *)
LinkSpend(c) ==
  /\ attempt[c].pc = "spend_link"
  /\ Spend(attempt[c].link)
  /\ AttemptAt(c, "check")
  /\ UNCHANGED <<counters, lock, sent, overlapped, loginRequests, loginCrashes, tries>>

-----------------------------------------------------------------------------
(* login; a magic link goes on at the lock with the password proven        *)

PasswordLogin(c, right, factor) == BeginAttempt(c, "check", right, NoCode, factor, "attempts")

(* Mutant: a lock is not looked at.                                        *)
Check_Skips(c) ==
  /\ attempt[c].pc = "check"
  /\ attempt' = [attempt EXCEPT ![c].pc = "password", ![c].overtaken = FALSE]
  /\ UNCHANGED <<counters, lock, codes, loginRequests, loginCrashes, tries>>

Check(c) ==
  /\ attempt[c].pc = "check"
  /\ IF lock # 0 THEN EndAttempt(c)
     ELSE attempt' = [attempt EXCEPT ![c].pc = "password", ![c].overtaken = FALSE]
  /\ UNCHANGED <<counters, lock, codes, loginRequests, loginCrashes, tries>>

(* A wrong secret is counted; until then this is what the request knows.   *)
Reject(c) == AttemptAt(c, "incr") /\ tries' = tries + 1

Password(c) ==
  /\ attempt[c].pc = "password"
  /\ IF attempt[c].right THEN AttemptAt(c, "factor") /\ UNCHANGED tries ELSE Reject(c)
  /\ UNCHANGED <<counters, lock, codes, loginRequests, loginCrashes>>

(* assertMfaIfRequired: no factor at all is refused and not counted.       *)
Factor(c) ==
  /\ attempt[c].pc = "factor"
  /\ LET x == attempt[c].factor IN
     /\ CASE x = NoCode -> EndAttempt(c) /\ UNCHANGED tries
          [] x = Totp -> AttemptAt(c, "clear") /\ UNCHANGED tries
          [] x \in live -> AttemptAt(c, "spend") /\ UNCHANGED tries
          [] OTHER -> Reject(c)
     /\ overlapped' = overlapped \cup (Reading(x) \cap live)
  /\ UNCHANGED <<counters, lock, sent, live, accepted, loginRequests, loginCrashes>>

FactorSpend(c) ==
  /\ attempt[c].pc = "spend"
  /\ Spend(attempt[c].factor)
  /\ AttemptAt(c, "clear")
  /\ UNCHANGED <<counters, lock, sent, overlapped, loginRequests, loginCrashes, tries>>

(* clearLockout: the login succeeds.                                       *)
Clear(c) ==
  /\ attempt[c].pc = "clear"
  /\ count' = [count EXCEPT !["attempts"] = 0]
  /\ expiring' = expiring \ {"attempts"}
  /\ lock' = 0 /\ tries' = 0
  /\ EndAttempt(c)
  /\ UNCHANGED <<abandoned, codes, loginRequests, loginCrashes>>

-----------------------------------------------------------------------------
(* Counters: recordFailedAttempt, and the rate limits of sending           *)

Incr(c) ==
  /\ attempt[c].pc = "incr"
  /\ LET n == count[attempt[c].key] + 1 IN
     /\ count' = [count EXCEPT ![attempt[c].key] = n]
     /\ attempt' = [attempt EXCEPT ![c].seen = n,
          ![c].pc = IF attempt[c].key = "attempts" \/ n = 1 THEN "expire"
                    ELSE IF n <= SendMax THEN "send" ELSE "refused"]
  /\ UNCHANGED <<expiring, abandoned, lock, codes, loginRequests, loginCrashes, tries>>

(* Mutant: the account is locked one attempt late.                         *)
Expire_LocksLate(c) ==
  /\ attempt[c].pc = "expire"
  /\ expiring' = expiring \cup {k \in {attempt[c].key} : count[k] > 0}
  /\ IF attempt[c].key # "attempts" THEN AttemptAt(c, "send")
     ELSE IF attempt[c].seen > Threshold THEN AttemptAt(c, "lock") ELSE EndAttempt(c)
  /\ UNCHANGED <<count, abandoned, lock, codes, loginRequests, loginCrashes, tries>>

(* EXPIRE of a key that is gone does nothing.                              *)
Expire(c) ==
  /\ attempt[c].pc = "expire"
  /\ expiring' = expiring \cup {k \in {attempt[c].key} : count[k] > 0}
  /\ IF attempt[c].key # "attempts" THEN AttemptAt(c, "send")
     ELSE IF attempt[c].seen >= Threshold THEN AttemptAt(c, "lock") ELSE EndAttempt(c)
  /\ UNCHANGED <<count, abandoned, lock, codes, loginRequests, loginCrashes, tries>>

(* The lock replaces any other; requests past their check are overtaken.   *)
Lock(c) ==
  /\ attempt[c].pc = "lock"
  /\ lock' = attempt[c].seen
  /\ tries' = 0
  /\ attempt' = [d \in Visitors |-> IF d = c \/ attempt[d] = NoAttempt THEN NoAttempt
                              ELSE [attempt[d] EXCEPT !.overtaken = TRUE]]
  /\ UNCHANGED <<counters, codes, loginRequests, loginCrashes>>

(* A request whose sending is rate limited ends.                           *)
Refused(c) ==
  /\ attempt[c].pc = "refused"
  /\ EndAttempt(c)
  /\ UNCHANGED <<counters, lock, codes, loginRequests, loginCrashes, tries>>

(* sendMagicLink and sendSMSCode, the user being active.                   *)
RequestCode(c, k) ==
  /\ k \in {"link", "sms"}
  /\ sent[k] < MaxSent
  /\ BeginAttempt(c, "incr", TRUE, NoCode, NoCode, k)

NewCode(k) ==
  /\ sent[k] < MaxSent
  /\ sent' = [sent EXCEPT ![k] = @ + 1]
  /\ live' = {y \in live : y[1] # k \/ k = "link"} \cup {<<k, sent[k] + 1>>}

Send(c) ==
  /\ attempt[c].pc = "send"
  /\ NewCode(attempt[c].key)
  /\ EndAttempt(c)
  /\ UNCHANGED <<counters, lock, accepted, overlapped, loginRequests, loginCrashes, tries>>

(* regenerateBackupCodes, with a TOTP code: one update of the document.    *)
Regenerate ==
  /\ NewCode("backup")
  /\ UNCHANGED <<counters, lock, accepted, overlapped, attempt, loginRequests, loginCrashes, tries>>

-----------------------------------------------------------------------------
(* Time, and what dies                                                     *)

WindowPasses(k) ==
  /\ k \in expiring
  /\ count' = [count EXCEPT ![k] = 0]
  /\ expiring' = expiring \ {k}
  /\ tries' = IF k = "attempts" THEN 0 ELSE tries
  /\ UNCHANGED <<abandoned, lock, codes, attempt, loginRequests, loginCrashes>>

LockPasses ==
  /\ lock # 0
  /\ lock' = 0
  /\ UNCHANGED <<counters, codes, attempt, loginRequests, loginCrashes, tries>>

CodeExpires(x) ==
  /\ x \in live /\ x[1] # "backup"
  /\ live' = live \ {x}
  /\ UNCHANGED <<counters, lock, sent, accepted, overlapped, attempt, loginRequests, loginCrashes, tries>>

CrashAttempt(c) ==
  /\ c \in Attempting
  /\ loginCrashes < MaxLoginCrashes
  /\ loginCrashes' = loginCrashes + 1
  /\ abandoned' = abandoned \cup {k \in Counters : attempt[c].pc = "expire" /\ attempt[c].key = k}
  /\ EndAttempt(c)
  /\ UNCHANGED <<count, expiring, lock, codes, loginRequests, tries>>

LoginNext ==
  \/ \E c \in Visitors :
       \/ \E factor \in Factors :
            \/ \E right \in BOOLEAN : PasswordLogin(c, right, factor)
            \/ \E x \in Issued : FollowLink(c, x, factor)
       \/ \E k \in {"link", "sms"} : RequestCode(c, k)
       \/ LinkRead(c) \/ LinkSpend(c)
       \/ Check(c) \/ Password(c) \/ Factor(c) \/ FactorSpend(c) \/ Clear(c)
       \/ Incr(c) \/ Expire(c) \/ Lock(c) \/ Refused(c) \/ Send(c)
       \/ CrashAttempt(c)
  \/ Regenerate
  \/ \E k \in Counters : WindowPasses(k)
  \/ LockPasses
  \/ \E x \in Issued : CodeExpires(x)

LoginSpec == LoginInit /\ [][LoginNext]_loginVars

-----------------------------------------------------------------------------
(* Properties                                                              *)

(* MAX_FAILED_ATTEMPTS_BEFORE_LOCK (lockout.service.ts:10).  The lock is   *)
(* asked for before a secret is verified and placed after it was counted,  *)
(* so login requests in flight at the limit are not held by it: no more than     *)
(* those, and those that died, come on top of the limit.                   *)
TriesBounded == tries <= Threshold - 1 + Cardinality(Visitors) + loginCrashes

(* A lock runs its time: it is replaced, or removed by a successful login, *)
(* only through a request that had passed the check before it was placed.  *)
(* Attempts made while it is in place do not prolong it.                   *)
LockIsStable ==
  [][(lock # 0 /\ lock' # lock /\ attempt' # attempt)
       => \E c \in Attempting : attempt[c].overtaken /\ attempt'[c] = NoAttempt]_loginVars

(* A link, an SMS code or a backup code is accepted once, unless a second  *)
(* request read it before the first one spent it.                          *)
CodeWorksOnce == \A x \in Issued : accepted[x] > 1 => x \in overlapped

(* "Failed-attempt counter TTL" (lockout.service.ts:12) and the windows of *)
(* the rate limits: a counter without a time to live would never go down.  *)
(* INCR and EXPIRE are two commands; only a death between them leaves one.  *)
CountersExpire ==
  \A k \in Counters :
    count[k] > 0 => \/ k \in expiring
                    \/ \E c \in Attempting : attempt[c].pc = "expire" /\ attempt[c].key = k
                    \/ k \in abandoned

(* The limits on guessing hold up to what was in flight when they were     *)
(* reached or what died there.                                             *)
GuessingIsBounded == TriesBounded /\ CodeWorksOnce /\ CountersExpire

=============================================================================
