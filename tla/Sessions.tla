------------------------------ MODULE Sessions ------------------------------
(***************************************************************************)
(* The refresh tokens and the session records of one user, both in Redis:  *)
(* AuthService.refreshTokens, logout and the revocations, over             *)
(* RefreshTokenStore, AuthSessionService and TokenBlacklistService.        *)
(* Consuming a token is one Lua script; everything else is a sequence of   *)
(* Redis commands that other requests run in between, among them the       *)
(* heartbeat that every authenticated request starts and does not await.   *)
(*                                                                         *)
(* A token is the number of its jti; issued[j] is the session it is for.   *)
(* Keys do not expire but for the marker of a concurrent duplicate.        *)
(***************************************************************************)
EXTENDS Integers, Sequences, FiniteSets, SequencesExt

CONSTANTS
  Calls,          \* requests in flight
  SessionIds,
  MaxConcurrent,  \* config.authSessions.maxConcurrent
  MaxTokens,      \* bound: refresh tokens ever issued
  MaxRequests,    \* bound: requests ever begun
  MaxCrashes      \* bound: requests that die half way

ASSUME LimitAssumption == MaxConcurrent \in Nat \ {0}

None == 0         \* no session record; a record is the jti it holds

VARIABLES
  issued,     \* sessions of the tokens issued so far
  active,     \* refresh:{user}:{jti}
  used,       \* refresh:used:{user}:{jti}
  recent,     \* refresh:concurrent:{user}:{jti}
  blacklist,  \* blacklist:{token}, of refresh tokens
  barred,     \* tokens issued before the second of auth:revoked:{user}
  record,     \* auth:session:{id}: its refresh_jti, or None
  index,      \* auth:sessions:user:{user}, by last activity
  call,
  requests,
  crashes,
  exchanged,  \* history: tokens whose refresh ended with a new one for the client
  unanswered, \* history: tokens whose refresh was refused, died or took long
  overtaken,  \* history: tokens a logout took while a refresh had them
  crossed,    \* history: sessions that a request wrote from a stale read
  rushed      \* history: two logins overlapped

store == <<active, used, recent>>
revocations == <<blacklist, barred>>
sessions == <<record, index>>
marks == <<exchanged, unanswered, overtaken>>
history == <<requests, crashes, marks, crossed, rushed>>
sessionVars == <<issued, store, revocations, sessions, call, history>>

Idle == [pc |-> "idle"]
Tokens == 1..Len(issued)
InFlight == {c \in Calls : call[c] # Idle}

SessionsTypeOK ==
  /\ issued \in Seq(SessionIds) /\ Len(issued) <= MaxTokens
  /\ active \cup used \cup recent \cup blacklist \cup barred \subseteq Tokens
  /\ exchanged \cup unanswered \cup overtaken \subseteq Tokens
  /\ active \cap used = {}
  /\ record \in [SessionIds -> Tokens \cup {None}]
  /\ index \in Seq(SessionIds) /\ IsInjective(index)
  /\ \A c \in InFlight : call[c].sid \in SessionIds \cup {"all"}
  /\ requests \in 0..MaxRequests /\ crashes \in 0..MaxCrashes
  /\ crossed \subseteq SessionIds
  /\ rushed \in BOOLEAN

SessionsInit ==
  /\ issued = << >>
  /\ active = {} /\ used = {} /\ recent = {}
  /\ blacklist = {} /\ barred = {}
  /\ record = [s \in SessionIds |-> None]
  /\ index = << >>
  /\ call = [c \in Calls |-> Idle]
  /\ requests = 0 /\ crashes = 0 /\ crossed = {} /\ rushed = FALSE
  /\ exchanged = {} /\ unanswered = {} /\ overtaken = {}

Goto(c, pc) == call' = [call EXCEPT ![c].pc = pc]
Done(c) == call' = [call EXCEPT ![c] = Idle]
Of(s) == {j \in Tokens : issued[j] = s}

(* The token a refresh has consumed and not yet answered for.              *)
Spent(x) == IF x.pc \in {"issue", "rotate", "rotated"} THEN {x.spent} ELSE {}

(* The record changed since it was read, or the token is spent already.    *)
Crossing(c, s) ==
  {t \in {s} : record[t] # call[c].read \/ (call[c].pc = "rotated" /\ call[c].jti \notin active)}

(* zrem, and zadd with the time of now.                                    *)
Without(q, s) ==
  IF s \in ToSet(q) THEN RemoveAt(q, CHOOSE i \in DOMAIN q : q[i] = s) ELSE q
Bumped(s) == Append(Without(index, s), s)

Begin(c, kind, pc, s, j) ==
  /\ call[c] = Idle
  /\ requests < MaxRequests
  /\ requests' = requests + 1
  /\ call' = [call EXCEPT ![c] = [kind |-> kind, pc |-> pc, sid |-> s, jti |-> j,
                                  read |-> IF kind = "touch" THEN record[s] ELSE None,
                                  ids |-> << >>, spent |-> None]]

(* A request that has begun and written nothing yet.                       *)
Fresh ==
  UNCHANGED <<issued, store, revocations, sessions, crashes, marks, crossed, rushed>>

(* JwtService.generateTokens and RefreshTokenStore.register.               *)
Issue(s) ==
  /\ Len(issued) < MaxTokens
  /\ issued' = Append(issued, s)
  /\ active' = active \cup {Len(issued) + 1}

-----------------------------------------------------------------------------
(* finalizeSuccessfulLogin                                                 *)

Login(c, s) ==
  /\ Of(s) = {} /\ \A d \in InFlight : call[d].sid # s
  /\ Issue(s)
  /\ Begin(c, "login", "limit", s, Len(issued) + 1)
  /\ rushed' = (rushed \/ \E d \in InFlight : call[d].kind = "login")
  /\ UNCHANGED <<used, recent, revocations, sessions, crashes, marks, crossed>>

(* enforceMaxConcurrentSessions: the least active sessions have to go ...  *)
Limit(c) ==
  /\ call[c].pc = "limit"
  /\ call' = [call EXCEPT ![c].pc = "evict",
       ![c].ids = SubSeq(index, 1, Len(index) - MaxConcurrent + 1)]
  /\ UNCHANGED <<issued, store, revocations, sessions, history>>

(* ... one by one, as in revokeSession ...                                 *)
Evict(c) ==
  /\ call[c].pc = "evict" /\ call[c].ids # << >>
  /\ LET s == Head(call[c].ids) IN
     call' = [call EXCEPT ![c].pc = IF record[s] = None THEN "drop" ELSE "remove",
                          ![c].read = record[s]]
  /\ UNCHANGED <<issued, store, revocations, sessions, history>>

(* ... and one without a record is taken out of the index.                 *)
Drop(c) ==
  /\ call[c].pc = "drop"
  /\ LET s == Head(call[c].ids) IN
     /\ index' = Without(index, s)
     /\ record' = [record EXCEPT ![s] = None]
     /\ crossed' = crossed \cup Crossing(c, s)
  /\ call' = [call EXCEPT ![c].pc = "evict", ![c].ids = Tail(@)]
  /\ UNCHANGED <<issued, store, revocations, requests, crashes, marks, rushed>>

(* createSession writes the record and the index at once.                  *)
Create(c) ==
  /\ call[c].pc = "evict" /\ call[c].ids = << >>
  /\ record' = [record EXCEPT ![call[c].sid] = call[c].jti]
  /\ index' = Bumped(call[c].sid)
  /\ Done(c)
  /\ UNCHANGED <<issued, store, revocations, history>>

-----------------------------------------------------------------------------
(* refreshTokens                                                           *)

(* The client presents any token it ever had; the blacklist and the        *)
(* revocation epoch are asked.                                             *)
Refresh(c, j) ==
  /\ j \in Tokens \ (blacklist \cup barred)
  /\ Begin(c, "refresh", "consume", issued[j], j)
  /\ Fresh

(* Mutant: the used key is looked up before the marker of a duplicate.     *)
ConsumeResult_UsedFirst(j) ==
  CASE j \in active -> "consumed"
    [] j \notin active /\ j \in used -> "reuse"
    [] j \notin active \cup used /\ j \in recent -> "already_consumed"
    [] OTHER -> "unknown"

(* CONSUME_REFRESH_SCRIPT: the result, and what it does to the keys.       *)
ConsumeResult(j) ==
  CASE j \in active -> "consumed"
    [] j \notin active /\ j \in recent -> "already_consumed"
    [] j \notin active \cup recent /\ j \in used -> "reuse"
    [] OTHER -> "unknown"

(* Mutant: the token is marked but stays active.                           *)
ConsumeKeys_KeepsActive(j) ==
  IF j \in active
  THEN /\ UNCHANGED active
       /\ used' = used \cup {j}
       /\ recent' = recent \cup {j}
  ELSE UNCHANGED store

ConsumeKeys(j) ==
  IF j \in active
  THEN /\ active' = active \ {j}
       /\ used' = used \cup {j}
       /\ recent' = recent \cup {j}
  ELSE UNCHANGED store

Consume(c) ==
  /\ call[c].pc = "consume" /\ call[c].kind = "refresh"
  /\ LET result == ConsumeResult(call[c].jti) IN
     /\ call' = [call EXCEPT ![c] =
          CASE result = "consumed" -> [@ EXCEPT !.pc = "issue", !.spent = call[c].jti]
            [] result = "reuse" -> [@ EXCEPT !.pc = "invalidate", !.kind = "reuse", !.sid = "all"]
            [] OTHER -> Idle]
  /\ ConsumeKeys(call[c].jti)
  /\ UNCHANGED <<issued, revocations, sessions, history>>

(* A user who is no longer active gets nothing; the token is spent.        *)
Deny(c) ==
  /\ call[c].pc = "issue"
  /\ unanswered' = unanswered \cup Spent(call[c])
  /\ Done(c)
  /\ UNCHANGED <<issued, store, revocations, sessions, exchanged, overtaken>>
  /\ UNCHANGED <<requests, crashes, crossed, rushed>>

IssueNext(c) ==
  /\ call[c].pc = "issue"
  /\ Issue(call[c].sid)
  /\ call' = [call EXCEPT ![c].pc = "rotate", ![c].jti = Len(issued) + 1]
  /\ UNCHANGED <<used, recent, revocations, sessions, history>>

(* rotateRefreshJti reads the record; without one it returns.              *)
RotateRead(c) ==
  /\ call[c].pc = "rotate"
  /\ IF record[call[c].sid] = None
     THEN /\ Done(c)
          /\ exchanged' = exchanged \cup Spent(call[c])
          /\ crossed' = crossed \cup {call[c].sid}
     ELSE /\ call' = [call EXCEPT ![c].pc = "rotated", ![c].read = record[call[c].sid]]
          /\ UNCHANGED <<exchanged, crossed>>
  /\ UNCHANGED <<issued, store, revocations, sessions, unanswered, overtaken>>
  /\ UNCHANGED <<requests, crashes, rushed>>

RotateWrite(c) ==
  /\ call[c].pc = "rotated"
  /\ record' = [record EXCEPT ![call[c].sid] = call[c].jti]
  /\ index' = Bumped(call[c].sid)
  /\ crossed' = crossed \cup Crossing(c, call[c].sid)
  /\ exchanged' = exchanged \cup Spent(call[c])
  /\ Done(c)
  /\ UNCHANGED <<issued, store, revocations, unanswered, overtaken, requests, crashes, rushed>>

-----------------------------------------------------------------------------
(* touchLastActive: the record is read, and written back as it was read.   *)

TouchRead(c, s) ==
  /\ record[s] # None
  /\ Begin(c, "touch", "touch", s, None)
  /\ Fresh

TouchWrite(c) ==
  /\ call[c].pc = "touch"
  /\ record' = [record EXCEPT ![call[c].sid] = call[c].read]
  /\ index' = Bumped(call[c].sid)
  /\ crossed' = crossed \cup Crossing(c, call[c].sid)
  /\ Done(c)
  /\ UNCHANGED <<issued, store, revocations, requests, crashes, marks, rushed>>

-----------------------------------------------------------------------------
(* revokeSession, alone, in a logout, or for a login that evicts           *)

Revoke(c, s) ==
  /\ Begin(c, "revoke", "get", s, None)
  /\ Fresh

(* logout with the refresh token j.                                        *)
Logout(c, j) ==
  /\ Begin(c, "logout", "get", issued[j], j)
  /\ Fresh

(* Where a revocation that is finished, or found no record, leads to.      *)
AfterRevoke(c) ==
  call' = [call EXCEPT ![c] =
    CASE @.kind = "login" -> [@ EXCEPT !.pc = "evict", !.ids = Tail(call[c].ids), !.read = None]
      [] @.kind = "logout" -> [@ EXCEPT !.pc = "blacklist", !.read = None]
      [] OTHER -> Idle]

RevokeRead(c) ==
  /\ call[c].pc = "get"
  /\ IF record[call[c].sid] = None THEN AfterRevoke(c)
     ELSE call' = [call EXCEPT ![c].pc = "remove", ![c].read = record[call[c].sid]]
  /\ UNCHANGED <<issued, store, revocations, sessions, history>>

Target(c) == IF call[c].kind = "login" THEN Head(call[c].ids) ELSE call[c].sid

(* removeSessionRecord.                                                    *)
RevokeRemove(c) ==
  /\ call[c].pc = "remove"
  /\ record' = [record EXCEPT ![Target(c)] = None]
  /\ index' = Without(index, Target(c))
  /\ crossed' = crossed \cup Crossing(c, Target(c))
  /\ Goto(c, "del")
  /\ UNCHANGED <<issued, store, revocations, requests, crashes, marks, rushed>>

(* The refresh token that the record named.                                *)
RevokeDel(c) ==
  /\ call[c].pc = "del"
  /\ active' = active \ {call[c].read}
  /\ AfterRevoke(c)
  /\ UNCHANGED <<issued, used, recent, revocations, sessions, history>>

(* Mutant: the refresh token is not blacklisted.                           *)
LogoutBlacklist_AccessOnly(c) ==
  /\ call[c].pc = "blacklist"
  /\ Goto(c, "consume")
  /\ UNCHANGED <<issued, store, revocations, sessions, history>>

(* A refresh that is past the check of the blacklist goes on.              *)
LogoutBlacklist(c) ==
  /\ call[c].pc = "blacklist"
  /\ blacklist' = blacklist \cup {call[c].jti}
  /\ overtaken' = overtaken \cup
       {j \in {call[c].jti} : \E d \in InFlight : call[d].kind = "refresh"
                                                  /\ call[d].pc = "consume" /\ call[d].jti = j}
  /\ Goto(c, "consume")
  /\ UNCHANGED <<issued, store, barred, sessions, exchanged, unanswered>>
  /\ UNCHANGED <<requests, crashes, crossed, rushed>>

(* The token is consumed, whatever comes of it, and the session revoked    *)
(* again in case it is still there.                                        *)
LogoutConsume(c) ==
  /\ call[c].pc = "consume" /\ call[c].kind = "logout"
  /\ ConsumeKeys(call[c].jti)
  /\ call' = [call EXCEPT ![c].pc = "get", ![c].kind = "revoke"]
  /\ UNCHANGED <<issued, revocations, sessions, history>>

-----------------------------------------------------------------------------
(* Everything of the user: after a password change, by an administrator    *)
(* (revokeAllUserTokens), by the user (revokeAllMySessions, which begins   *)
(* with the sessions), or because a token was used twice.                  *)

RevokeAll(c) ==
  /\ \/ Begin(c, "password", "epoch", "all", None)
     \/ Begin(c, "mine", "list", "all", None)
  /\ Fresh

(* The epoch is the current second: tokens of earlier seconds are barred,  *)
(* those of this second are not.                                           *)
SetEpoch(c) ==
  /\ call[c].pc = "epoch"
  /\ \E n \in 0..Len(issued) : barred' = barred \cup 1..n
  /\ Goto(c, "invalidate")
  /\ UNCHANGED <<issued, store, blacklist, sessions, history>>

(* invalidateAllUserTokens; in revokeAllMySessions before the epoch too.   *)
Invalidate(c) ==
  /\ call[c].pc = "invalidate"
  /\ active' = {} /\ used' = {} /\ recent' = {}
  /\ call' = [call EXCEPT ![c] =
       CASE @.kind = "mine" -> [@ EXCEPT !.kind = "own", !.pc = "epoch"]
         [] @.kind = "own" -> Idle
         [] OTHER -> [@ EXCEPT !.pc = "list"]]
  /\ UNCHANGED <<issued, revocations, sessions, history>>

(* revokeAllForUser.                                                       *)
List(c) ==
  /\ call[c].pc = "list"
  /\ call' = [call EXCEPT ![c].pc = "each", ![c].ids = index]
  /\ UNCHANGED <<issued, store, revocations, sessions, history>>

(* Each record is deleted, without its token: a token that is active after *)
(* Invalidate was registered behind its back.                              *)
RemoveEach(c) ==
  /\ call[c].pc = "each" /\ call[c].ids # << >>
  /\ LET s == Head(call[c].ids) IN
     /\ record' = [record EXCEPT ![s] = None]
     /\ index' = Without(index, s)
     /\ crossed' = crossed \cup {t \in {s} : call[c].kind # "mine" /\ Of(t) \cap active # {}}
  /\ call' = [call EXCEPT ![c].ids = Tail(@)]
  /\ UNCHANGED <<issued, store, revocations, requests, crashes, marks, rushed>>

(* The index is deleted as a whole, sessions created since it was read     *)
(* included; revokeAllMySessions goes on with                              *)
(* invalidateAllUserTokens, the epoch and invalidateAllUserTokens again.   *)
RemoveIndex(c) ==
  /\ call[c].pc = "each" /\ call[c].ids = << >>
  /\ index' = << >>
  /\ crossed' = crossed \cup ToSet(index)
  /\ IF call[c].kind = "mine" THEN Goto(c, "invalidate") ELSE Done(c)
  /\ UNCHANGED <<issued, store, revocations, record, requests, crashes, marks, rushed>>

-----------------------------------------------------------------------------
(* The marker of a concurrent duplicate expires after five seconds.        *)
MarkerExpires(j) ==
  /\ j \in recent
  /\ recent' = recent \ {j}
  /\ unanswered' = unanswered \cup ({j} \cap UNION {Spent(call[c]) : c \in Calls})
  /\ UNCHANGED <<issued, active, used, revocations, sessions, call, exchanged, overtaken>>
  /\ UNCHANGED <<requests, crashes, crossed, rushed>>

(* The process dies, or Redis does not answer.                             *)
Crash(c) ==
  /\ c \in InFlight
  /\ crashes < MaxCrashes
  /\ crashes' = crashes + 1
  /\ crossed' = crossed \cup (IF call[c].sid = "all" THEN SessionIds
                              ELSE {call[c].sid} \cup ToSet(call[c].ids))
  /\ unanswered' = unanswered \cup Spent(call[c])
  /\ Done(c)
  /\ UNCHANGED <<issued, store, revocations, sessions, requests, exchanged, overtaken, rushed>>

SessionsNext ==
  \/ \E c \in Calls :
       \/ \E s \in SessionIds : Login(c, s) \/ Revoke(c, s) \/ TouchRead(c, s)
       \/ \E j \in Tokens : Refresh(c, j) \/ Logout(c, j)
       \/ Limit(c) \/ Evict(c) \/ Drop(c) \/ Create(c)
       \/ Consume(c) \/ Deny(c) \/ IssueNext(c) \/ RotateRead(c) \/ RotateWrite(c)
       \/ TouchWrite(c)
       \/ RevokeRead(c) \/ RevokeRemove(c) \/ RevokeDel(c)
       \/ LogoutBlacklist(c) \/ LogoutConsume(c)
       \/ RevokeAll(c) \/ SetEpoch(c) \/ Invalidate(c) \/ List(c)
       \/ RemoveEach(c) \/ RemoveIndex(c)
       \/ Crash(c)
  \/ \E j \in Tokens : MarkerExpires(j)

SessionsSpec == SessionsInit /\ [][SessionsNext]_sessionVars

-----------------------------------------------------------------------------
(* Properties                                                              *)

(* Whatever overlaps and dies, a session has at most one refresh token     *)
(* that can be exchanged: consuming is atomic (refresh-token.store.ts:41)  *)
(* and a new token is registered only for one that was consumed.           *)
OneTokenPerSession ==
  \A s \in SessionIds : Cardinality(Of(s) \cap active) <= 1

(* Outside of requests a token that can be exchanged is the one its        *)
(* session record names, so that listing shows it and revoking the session *)
(* ends it; and no token outlives a revocation.  The exceptions are        *)
(* sessions a request wrote from a stale read, and requests that died.     *)
Busy(s) ==
  \E c \in InFlight : call[c].sid \in {s, "all"} \/ s \in ToSet(call[c].ids)

TokensHaveSessions ==
  \A j \in active : record[issued[j]] = j \/ Busy(issued[j]) \/ issued[j] \in crossed

(* config.authSessions.maxConcurrent: no more sessions than that, unless   *)
(* two logins overlapped or a stale write brought a session back.          *)
SessionLimit == (~rushed /\ crossed = {}) => Len(index) <= MaxConcurrent

(* Tokens and session records tell the same story.                        *)
TokensMatchSessions == OneTokenPerSession /\ TokensHaveSessions /\ SessionLimit

(* "Reuse of a consumed token invalidates all refresh tokens for the user" *)
(* (auth.service.ts:439).  A client that uses each token once and waits    *)
(* for its answer is never taken for a thief: the alarm is raised for a    *)
(* token whose exchange ended with a new one for the client, not for one   *)
(* presented twice at the same time, nor for one that a logout has spent.  *)
(* Excepted are the exchanges without an answer, refused, dead, or slower  *)
(* than the marker, whose repetition the code cannot tell from theft, and  *)
(* a refresh that was past the check when a logout blacklisted its token.  *)
AlarmMeansExchanged ==
  [][\A c \in Calls :
       (c \in InFlight /\ call[c].kind = "refresh" /\ call'[c] # Idle /\ call'[c].kind = "reuse")
          => call[c].jti \in exchanged \cup unanswered \cup overtaken]_sessionVars

=============================================================================
