--------------------------- MODULE SlidingWindow ---------------------------
(***************************************************************************)
(* The sliding-window limiter in front of /api.  A request is counted in   *)
(* three Redis sorted sets at once: its tenant's, its user's and its       *)
(* endpoint's.  The instance that serves it reads its own clock first and  *)
(* passes that time to one atomic script, which purges what has left each  *)
(* window, refuses if a set is full and otherwise adds the request to all  *)
(* three.  Instances' clocks differ by at most Skew, and the script runs   *)
(* at most Delay after the clock was read.                                 *)
(***************************************************************************)
EXTENDS Integers, FiniteSets

CONSTANTS
  Tenants, Users, Endpoints,  \* as the limiter tells requests apart
  Instances,     \* API processes
  Ahead,         \* [Instances -> 0..Skew], how far each clock is ahead
  Skew, Delay,
  Window, Max,   \* [Dimensions -> Nat \ {0}]: lengths and maxima of the tiers
  ExpensiveMax,  \* the endpoint's maximum on an expensive path
  Calls, None,
  MaxClock       \* bound of a run

Dimensions == {"tenant", "user", "endpoint"}

ASSUME WindowAssumption ==
  /\ Window \in [Dimensions -> Nat \ {0}] /\ Max \in [Dimensions -> Nat \ {0}]
  /\ ExpensiveMax \in Nat \ {0}
  /\ Skew \in Nat /\ Delay \in Nat /\ Ahead \in [Instances -> 0..Skew]
  /\ "public" \in Tenants /\ "anon" \in Users

VARIABLES
  clock,     \* real time
  windows,   \* [Keys -> set of entries], the sorted sets
  expires,   \* [Keys -> time], when Redis drops the set
  limited,   \* [Calls -> request under way], at the limiter
  passed     \* history: per key, the entries of the requests let through

windowVars == <<clock, windows, expires, limited, passed>>

(* A member of a sorted set carries a UUID.  Here the real time it was      *)
(* added and a number tell it from the others of its score.                 *)
Entry(score, at, nr) == [score |-> score, at |-> at, nr |-> nr]

(* A request as the limiter sees it.  The tenant is the x-org-id hint, else *)
(* the token's organization, else public; the user is the token's subject, *)
(* else the x-user-id header, else the address.                            *)
LimitRequests ==
  [hint : Tenants \cup {None}, org : Tenants \cup {None}, sub : Users \cup {None}, path : Endpoints]

TenantOf(r) == IF r.hint # None THEN r.hint ELSE IF r.org # None THEN r.org ELSE "public"
UserOf(r) == IF r.sub # None THEN r.sub ELSE "anon"

Keys == {<<"tenant", t>> : t \in Tenants}
        \cup {<<"user", t, u>> : t \in Tenants, u \in Users}
        \cup {<<"endpoint", t, e>> : t \in Tenants, e \in Endpoints}

KeyOf(r, d) ==
  CASE d = "tenant"   -> <<"tenant", TenantOf(r)>>
    [] d = "user"     -> <<"user", TenantOf(r), UserOf(r)>>
    [] d = "endpoint" -> <<"endpoint", TenantOf(r), r.path>>

KeysOf(r) == {KeyOf(r, d) : d \in Dimensions}

Expensive(path) == path = "/api/search"

Limit(k) ==
  IF k[1] = "endpoint" /\ Expensive(k[3]) THEN ExpensiveMax ELSE Max[k[1]]

Idle == [pc |-> "idle"]

WindowInit ==
  /\ clock = 0
  /\ windows = [k \in Keys |-> {}] /\ passed = [k \in Keys |-> {}]
  /\ expires = [k \in Keys |-> 0]
  /\ limited = [c \in Calls |-> Idle]

-----------------------------------------------------------------------------
(* The instance reads its clock, then the tag and the tiers of the request. *)
Stamp(c, r, i) ==
  /\ limited[c].pc = "idle"
  /\ limited' = [limited EXCEPT ![c] =
       [pc |-> "stamped", req |-> r, now |-> clock + Ahead[i], at |-> clock]]
  /\ UNCHANGED <<clock, windows, expires, passed>>

(* No Redis, or the limiter is switched off: the request goes on unlimited. *)
FailOpen(c) ==
  /\ limited[c].pc = "stamped"
  /\ limited' = [limited EXCEPT ![c] = Idle]
  /\ UNCHANGED <<clock, windows, expires, passed>>

(* Mutant: the purge reaches one tick into the window.                     *)
Kept_Early(entries, now, w) == {e \in entries : e.score > now - w + 1}

(* What stays of a set when the script has purged it.                      *)
Kept(entries, now, w) == {e \in entries : e.score > now - w}

MaxOf(S) == CHOOSE x \in S : \A y \in S : y <= x

(* Every set lives one more tick than the longest window.                  *)
Lifetime == MaxOf({Window[d] : d \in Dimensions}) + 1

(* Mutant: the script wants room for one request more.                     *)
Refusing_Eager(r, kept) ==
  {d \in Dimensions : Cardinality(kept[KeyOf(r, d)]) + 1 >= Limit(KeyOf(r, d))}

(* The full sets of a request.                                             *)
Refusing(r, kept) ==
  {d \in Dimensions : Cardinality(kept[KeyOf(r, d)]) >= Limit(KeyOf(r, d))}

(* The answer names the first of them, in the script's order.              *)
FirstOf(full) ==
  IF "tenant" \in full THEN "tenant" ELSE IF "user" \in full THEN "user" ELSE "endpoint"

(* The member that is added to the sets.                                   *)
Added(k, score) ==
  Entry(score, clock, Cardinality({e \in passed[k] : e.score = score /\ e.at = clock}) + 1)

Evaluate(c) ==
  LET call == limited[c]
      r == call.req
      kept == [k \in Keys |-> IF k \in KeysOf(r)
                              THEN Kept(windows[k], call.now, Window[k[1]]) ELSE windows[k]]
      full == Refusing(r, kept)
  IN /\ call.pc = "stamped"
     /\ \/ /\ full # {}
           /\ windows' = kept
           /\ limited' = [limited EXCEPT ![c] =
                [pc |-> "refused", key |-> KeyOf(r, FirstOf(full)), at |-> clock]]
           /\ UNCHANGED <<expires, passed>>
        \/ /\ full = {}
           /\ windows' = [k \in Keys |-> IF k \in KeysOf(r)
                THEN kept[k] \cup {Added(k, call.now)} ELSE kept[k]]
           /\ expires' = [k \in Keys |-> IF k \in KeysOf(r) THEN clock + Lifetime ELSE expires[k]]
           /\ passed' = [k \in Keys |-> IF k \in KeysOf(r)
                THEN passed[k] \cup {Added(k, call.now)} ELSE passed[k]]
           /\ limited' = [limited EXCEPT ![c] = Idle]
     /\ UNCHANGED clock

(* The 429 has gone out with its Retry-After.                              *)
Answered(c) ==
  /\ limited[c].pc = "refused"
  /\ limited' = [limited EXCEPT ![c] = Idle]
  /\ UNCHANGED <<clock, windows, expires, passed>>

(* How long the history of a key matters.                                  *)
Span(k) == Window[k[1]] + Skew + Delay

Since(entries, time) == {e \in entries : e.at > time}

(* Time passes, and Redis drops the sets whose time has come.  No request  *)
(* waits longer than Delay between its clock and its script.               *)
Tick ==
  /\ clock < MaxClock
  /\ \A c \in Calls : /\ limited[c].pc = "stamped" => limited[c].at + Delay > clock
                      /\ limited[c].pc # "refused"
  /\ clock' = clock + 1
  /\ windows' = [k \in Keys |-> IF expires[k] <= clock + 1 THEN {} ELSE windows[k]]
  /\ passed' = [k \in Keys |-> Since(passed[k], clock - Span(k))]
  /\ expires' = [k \in Keys |-> IF expires[k] <= clock + 1 THEN 0 ELSE expires[k]]
  /\ UNCHANGED limited

LimiterStep(c) == FailOpen(c) \/ Evaluate(c) \/ Answered(c)

WindowNext(requests) ==
  \/ \E c \in Calls : LimiterStep(c)
  \/ \E c \in Calls, r \in requests, i \in Instances : Stamp(c, r, i)
  \/ Tick

WindowSpec == WindowInit /\ [][WindowNext(LimitRequests)]_windowVars

-----------------------------------------------------------------------------
(* Whatever the order in which scripts with different clocks run, no key   *)
(* lets through more than its maximum in any stretch of real time shorter  *)
(* than its window, less the clocks' difference and the delay.             *)
WindowHolds ==
  \A k \in Keys : \A first \in passed[k] :
    LET t == first.at
        inside == {e \in passed[k] : t <= e.at /\ e.at < t + Window[k[1]] - Skew - Delay}
    IN Cardinality(inside) <= Limit(k)

(* A request is refused only because that many were let through on the key *)
(* the answer names, within its window and those margins: refusals do not  *)
(* count, so a client that keeps retrying does not keep itself out.        *)
RefusalsAreEarned ==
  \A c \in Calls : limited[c].pc = "refused" =>
    LET k == limited[c].key
    IN Cardinality(Since(passed[k], limited[c].at - Span(k))) >= Limit(k)

(* The limiter keeps its limits: it never lets through more, and it never  *)
(* refuses with less.                                                      *)
LimitsAreKept == WindowHolds /\ RefusalsAreEarned

=============================================================================
