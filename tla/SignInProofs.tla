---------------------------- MODULE SignInProofs ----------------------------
(***************************************************************************)
(* Signing in: how often a secret may be guessed, and the tokens and       *)
(* sessions that follow a login.                                           *)
(***************************************************************************)
EXTENDS Sessions, Login, FiniteSetTheorems, TLAPS

-----------------------------------------------------------------------------
(* Logins.  What a request in flight is for the counters and the codes:    *)
(* it has found a wrong secret and not counted it; it has counted enough   *)
(* to lock, and has not; it has read a code and not spent it; it has       *)
(* counted and not yet set the time to live; it has passed the check.      *)

Uncounted(x) == x.pc = "incr" /\ x.key = "attempts"
Pending(x) ==
  \/ Uncounted(x)
  \/ x.pc \in {"expire", "lock"} /\ x.key = "attempts" /\ x.seen >= Threshold
Spends(x, y) ==
  (x.pc = "spend_link" /\ x.link = y) \/ (x.pc = "spend" /\ x.factor = y)
Expiring(x, k) == x.pc = "expire" /\ x.key = k
Past(x) ==
  \/ x.pc \in {"password", "factor", "spend", "clear"}
  \/ x.pc \in {"incr", "expire", "lock"} /\ x.key = "attempts"

Shaped(x) ==
  x = NoAttempt \/
    /\ x \in [pc : {x.pc}, right : {x.right}, link : {x.link}, factor : {x.factor},
              key : {x.key}, seen : {x.seen}, overtaken : {x.overtaken}]
    /\ x.pc # "idle" /\ x.key \in Counters /\ x.seen \in Nat
    /\ x.pc \notin {"incr", "expire", "send", "refused"} => x.key = "attempts"
    /\ x.pc \in {"send", "refused"} => x.key # "attempts"

Codes == Kinds \X (1..MaxSent)

LoginTyped ==
  /\ attempt = [c \in Visitors |-> attempt[c]] /\ \A c \in Visitors : Shaped(attempt[c])
  /\ count \in [Counters -> Nat]
  /\ sent \in [Kinds -> 0..MaxSent] /\ live \subseteq Issued
  /\ accepted \in [Codes -> Nat]
  /\ tries \in Nat /\ loginCrashes \in Nat

TheUncounted == {c \in Visitors : Uncounted(attempt[c])}
ThePending == {c \in Visitors : Pending(attempt[c])}

(* Whoever found a wrong secret has counted it, will, or has died; and     *)
(* whoever counted up to the threshold locks, unless it dies.              *)
TriesAreCounted ==
  /\ tries <= count["attempts"] + Cardinality(TheUncounted) + loginCrashes
  /\ tries <= Threshold - 1 + Cardinality(ThePending) + loginCrashes

(* While a code is there, or a request is about to spend it, nobody has    *)
(* been let in with it; and one request at most is about to spend it.      *)
Unspent(y) ==
  /\ accepted[y] <= 1
  /\ y \in live => accepted[y] = 0
  /\ \A c \in Visitors : Spends(attempt[c], y) => accepted[y] = 0
  /\ \A c, d \in Visitors : Spends(attempt[c], y) /\ Spends(attempt[d], y) => c = d

CodesAreSpentOnce ==
  /\ \A y \in Codes \ overlapped : Unspent(y)
  /\ \A y \in Codes \ Issued : accepted[y] = 0
  /\ \A c \in Visitors : \A y : Spends(attempt[c], y) => y \in Issued

OvertakenByLock == lock # 0 => \A c \in Visitors : Past(attempt[c]) => attempt[c].overtaken

LoginInv ==
  LoginTyped /\ TriesAreCounted /\ CodesAreSpentOnce /\ CountersExpire /\ OvertakenByLock

-----------------------------------------------------------------------------
LEMMA NoAttemptIsNothing ==
  ~Uncounted(NoAttempt) /\ ~Pending(NoAttempt) /\ ~Past(NoAttempt) /\ Shaped(NoAttempt)
  /\ (\A y : ~Spends(NoAttempt, y)) /\ \A k : ~Expiring(NoAttempt, k)
<1>1. NoAttempt.pc = "idle"
  BY DEF NoAttempt
<1> QED BY <1>1 DEF Uncounted, Pending, Past, Shaped, Spends, Expiring

(* A set that changes by at most one element.                              *)
LEMMA OneMember ==
  ASSUME NEW W, IsFiniteSet(W), NEW S \in SUBSET W, NEW T \in SUBSET W, NEW c \in W,
         \A d \in W \ {c} : d \in T <=> d \in S
  PROVE  /\ Cardinality(S) \in Nat /\ Cardinality(T) \in Nat
         /\ c \in S /\ c \notin T => Cardinality(T) = Cardinality(S) - 1
         /\ c \in T /\ c \notin S => Cardinality(T) = Cardinality(S) + 1
         /\ (c \in S <=> c \in T) => Cardinality(T) = Cardinality(S)
<1>1. IsFiniteSet(S) /\ IsFiniteSet(T)
  BY FS_Subset
<1>2. Cardinality(S) \in Nat /\ Cardinality(T) \in Nat
  BY <1>1, FS_CardinalityType
<1>3. CASE c \in S /\ c \notin T
  <2>1. T = S \ {c}
    BY <1>3
  <2> QED BY <1>1, <1>2, <1>3, <2>1, FS_RemoveElement
<1>4. CASE c \in T /\ c \notin S
  <2>1. T = S \cup {c}
    BY <1>4
  <2> QED BY <1>1, <1>2, <1>4, <2>1, FS_AddElement
<1>5. CASE c \in S <=> c \in T
  <2>1. T = S
    BY <1>5
  <2> QED BY <1>2, <1>5, <2>1
<1> QED BY <1>2, <1>3, <1>4, <1>5

(* One request goes on as y, the others stay.                              *)
OneGoesOn(c, y) ==
  /\ attempt' = [d \in Visitors |-> attempt'[d]]
  /\ \A d \in Visitors : Shaped(attempt'[d])
  /\ attempt'[c] = y /\ \A d \in Visitors \ {c} : attempt'[d] = attempt[d]

LEMMA GoesOn ==
  ASSUME LoginTyped, NEW c \in Visitors, NEW y, Shaped(y), attempt' = [attempt EXCEPT ![c] = y]
  PROVE  OneGoesOn(c, y)
BY DEF LoginTyped, OneGoesOn

(* The same request with other fields.                                     *)
Keeps(x, y) == y.link = x.link /\ y.factor = x.factor /\ y.key = x.key /\ y.overtaken = x.overtaken

LEMMA AttemptMoves ==
  ASSUME LoginTyped, NEW c \in Visitors, attempt[c].pc # "idle", NEW pc, AttemptAt(c, pc),
         pc # "idle",
         pc \notin {"incr", "expire", "send", "refused"} => attempt[c].key = "attempts",
         pc \in {"send", "refused"} => attempt[c].key # "attempts"
  PROVE  \E y : /\ OneGoesOn(c, y) /\ y.pc = pc /\ y.seen = attempt[c].seen
                /\ Keeps(attempt[c], y)
<1> DEFINE x == attempt[c]
<1>1. PICK y : y = [x EXCEPT !.pc = pc]
  OBVIOUS
<1>2. Shaped(x) /\ x # NoAttempt
  BY DEF LoginTyped, NoAttempt
<1>3. /\ y \in [pc : {pc}, right : {x.right}, link : {x.link}, factor : {x.factor},
                key : {x.key}, seen : {x.seen}, overtaken : {x.overtaken}]
      /\ x.key \in Counters /\ x.seen \in Nat
  BY <1>1, <1>2 DEF Shaped
<1>4. /\ y.pc = pc /\ y.right = x.right /\ y.link = x.link /\ y.factor = x.factor
      /\ y.key = x.key /\ y.seen = x.seen /\ y.overtaken = x.overtaken
  BY <1>3
<1>5. Shaped(y)
  BY <1>3, <1>4 DEF Shaped
<1>6. attempt' = [attempt EXCEPT ![c] = y]
  BY <1>1, <1>2 DEF AttemptAt, LoginTyped
<1> QED BY <1>4, <1>5, <1>6, GoesOn DEF Keeps

LEMMA CardinalitiesAreNumbers ==
  /\ Cardinality(TheUncounted) \in Nat /\ Cardinality(ThePending) \in Nat
  /\ Cardinality(ThePending) <= Cardinality(Visitors) /\ Cardinality(Visitors) \in Nat
<1>1. IsFiniteSet(Visitors) /\ TheUncounted \in SUBSET Visitors /\ ThePending \in SUBSET Visitors
  BY ThresholdAssumption DEF TheUncounted, ThePending
<1>2. IsFiniteSet(TheUncounted) /\ IsFiniteSet(ThePending)
  BY <1>1, FS_Subset
<1>3. Cardinality(ThePending) <= Cardinality(Visitors)
  BY <1>1, FS_Subset
<1> QED BY <1>1, <1>2, <1>3, FS_CardinalityType

(* How the two sets change when one request goes on.                       *)
LEMMA Counted ==
  ASSUME NEW c \in Visitors, NEW y, OneGoesOn(c, y)
  PROVE  LET x == attempt[c]
             U == Cardinality(TheUncounted)
             P == Cardinality(ThePending)
         IN /\ U \in Nat /\ P \in Nat /\ U' \in Nat /\ P' \in Nat
            /\ (Uncounted(x) <=> Uncounted(y)) => U' = U
            /\ ~Uncounted(x) /\ Uncounted(y) => U' = U + 1
            /\ Uncounted(x) /\ ~Uncounted(y) => U' = U - 1
            /\ (Pending(x) <=> Pending(y)) => P' = P
            /\ ~Pending(x) /\ Pending(y) => P' = P + 1
            /\ Pending(x) /\ ~Pending(y) => P' = P - 1
<1> DEFINE U2 == {d \in Visitors : Uncounted(attempt'[d])}
           P2 == {d \in Visitors : Pending(attempt'[d])}
<1>1. TheUncounted' = U2 /\ ThePending' = P2
  BY DEF TheUncounted, ThePending, Uncounted, Pending
<1>2. /\ IsFiniteSet(Visitors) /\ U2 \in SUBSET Visitors /\ P2 \in SUBSET Visitors
      /\ TheUncounted \in SUBSET Visitors /\ ThePending \in SUBSET Visitors
  BY ThresholdAssumption DEF TheUncounted, ThePending
<1>3. \A d \in Visitors \ {c} : (d \in U2 <=> d \in TheUncounted) /\ (d \in P2 <=> d \in ThePending)
  BY DEF OneGoesOn, TheUncounted, ThePending
<1>4. /\ c \in TheUncounted <=> Uncounted(attempt[c])
      /\ c \in ThePending <=> Pending(attempt[c])
      /\ c \in U2 <=> Uncounted(y)
      /\ c \in P2 <=> Pending(y)
  BY DEF OneGoesOn, TheUncounted, ThePending
<1> HIDE DEF U2, P2
<1>5. /\ Cardinality(TheUncounted) \in Nat /\ Cardinality(U2) \in Nat
      /\ c \in TheUncounted /\ c \notin U2 => Cardinality(U2) = Cardinality(TheUncounted) - 1
      /\ c \in U2 /\ c \notin TheUncounted => Cardinality(U2) = Cardinality(TheUncounted) + 1
      /\ (c \in TheUncounted <=> c \in U2) => Cardinality(U2) = Cardinality(TheUncounted)
  BY <1>2, <1>3, OneMember
<1>6. /\ Cardinality(ThePending) \in Nat /\ Cardinality(P2) \in Nat
      /\ c \in ThePending /\ c \notin P2 => Cardinality(P2) = Cardinality(ThePending) - 1
      /\ c \in P2 /\ c \notin ThePending => Cardinality(P2) = Cardinality(ThePending) + 1
      /\ (c \in ThePending <=> c \in P2) => Cardinality(P2) = Cardinality(ThePending)
  BY <1>2, <1>3, OneMember
<1> QED BY <1>1, <1>4, <1>5, <1>6

LEMMA TriesStay ==
  ASSUME LoginInv, NEW c \in Visitors, NEW y, OneGoesOn(c, y),
         UNCHANGED <<count, loginCrashes, tries>>,
         Uncounted(attempt[c]) => Uncounted(y), Pending(attempt[c]) => Pending(y)
  PROVE  TriesAreCounted'
<1>1. /\ count["attempts"] \in Nat /\ tries \in Nat /\ loginCrashes \in Nat /\ Threshold \in Nat
      /\ TriesAreCounted
  BY ThresholdAssumption DEF LoginInv, LoginTyped, Counters
<1> DEFINE U == Cardinality(TheUncounted)
           P == Cardinality(ThePending)
<1>2. /\ U \in Nat /\ P \in Nat /\ U' \in Nat /\ P' \in Nat
      /\ (U' = U \/ U' = U + 1) /\ (P' = P \/ P' = P + 1)
  BY Counted
<1>3. /\ tries <= count["attempts"] + U + loginCrashes
      /\ tries <= Threshold - 1 + P + loginCrashes
  BY <1>1 DEF TriesAreCounted
<1> HIDE DEF U, P
<1>4. tries <= count["attempts"] + U' + loginCrashes
  BY <1>1, <1>2, <1>3
<1>5. CASE P' = P
  BY <1>3, <1>4, <1>5 DEF TriesAreCounted, U, P
<1>6. CASE P' = P + 1
  <2>1. tries <= Threshold - 1 + P' + loginCrashes
    BY <1>1, <1>2, <1>3, <1>6
  <2> QED BY <1>4, <2>1 DEF TriesAreCounted, U, P
<1> QED BY <1>2, <1>5, <1>6

(* A wrong secret: one try more, one more to be counted.                   *)
LEMMA TriesGrow ==
  ASSUME LoginInv, NEW c \in Visitors, NEW y, OneGoesOn(c, y),
         UNCHANGED <<count, loginCrashes>>, tries' = tries + 1,
         ~Pending(attempt[c]), Uncounted(y)
  PROVE  TriesAreCounted'
<1>1. /\ count["attempts"] \in Nat /\ tries \in Nat /\ loginCrashes \in Nat /\ Threshold \in Nat
      /\ TriesAreCounted
  BY ThresholdAssumption DEF LoginInv, LoginTyped, Counters
<1> DEFINE U == Cardinality(TheUncounted)
           P == Cardinality(ThePending)
<1>2. ~Uncounted(attempt[c]) /\ Pending(y)
  BY DEF Pending
<1>3. /\ U \in Nat /\ P \in Nat /\ U' \in Nat /\ P' \in Nat
      /\ U' = U + 1 /\ P' = P + 1
  BY <1>2, Counted
<1>4. /\ tries <= count["attempts"] + U + loginCrashes
      /\ tries <= Threshold - 1 + P + loginCrashes
  BY <1>1 DEF TriesAreCounted
<1> HIDE DEF U, P
<1>5. /\ tries + 1 <= count["attempts"] + U' + loginCrashes
      /\ tries + 1 <= Threshold - 1 + P' + loginCrashes
  BY <1>1, <1>3, <1>4
<1> QED BY <1>5 DEF TriesAreCounted, U, P

LEMMA TriesStartAnew ==
  ASSUME tries' = 0, count'["attempts"] \in Nat, loginCrashes' \in Nat
  PROVE  TriesAreCounted'
<1>1. Cardinality(TheUncounted)' \in Nat /\ Cardinality(ThePending)' \in Nat
  <2>1. \A S \in SUBSET Visitors : Cardinality(S) \in Nat
    BY ThresholdAssumption, FS_Subset, FS_CardinalityType
  <2>2. {d \in Visitors : Uncounted(attempt'[d])} \in SUBSET Visitors
        /\ {d \in Visitors : Pending(attempt'[d])} \in SUBSET Visitors
    OBVIOUS
  <2>3. TheUncounted' = {d \in Visitors : Uncounted(attempt'[d])}
        /\ ThePending' = {d \in Visitors : Pending(attempt'[d])}
    BY DEF TheUncounted, ThePending, Uncounted, Pending
  <2> QED BY <2>1, <2>2, <2>3
<1>2. Threshold - 1 \in Nat
  BY ThresholdAssumption
<1> QED BY <1>1, <1>2 DEF TriesAreCounted

-----------------------------------------------------------------------------
(* What a step does to the codes.                                          *)

LEMMA CodesStay ==
  ASSUME LoginInv, NEW c \in Visitors, NEW y, OneGoesOn(c, y), UNCHANGED <<sent, accepted>>,
         live' \subseteq live, overlapped \subseteq overlapped',
         \A z : Spends(y, z) => Spends(attempt[c], z)
  PROVE  CodesAreSpentOnce'
<1>1. CodesAreSpentOnce
  BY DEF LoginInv
<1>2. \A d \in Visitors : \A z : Spends(attempt'[d], z) => Spends(attempt[d], z)
  BY DEF OneGoesOn
<1>3. Issued' = Issued
  BY DEF Issued
<1>4. ASSUME NEW z \in Codes \ overlapped'
      PROVE  Unspent(z)'
  <2>1. Unspent(z)
    BY <1>1, <1>4 DEF CodesAreSpentOnce
  <2> QED BY <1>2, <2>1 DEF Unspent
<1>5. \A z \in Codes \ Issued' : accepted'[z] = 0
  BY <1>1, <1>3 DEF CodesAreSpentOnce
<1>6. \A d \in Visitors : \A z : Spends(attempt'[d], z) => z \in Issued'
  BY <1>1, <1>2, <1>3 DEF CodesAreSpentOnce
<1> QED BY <1>4, <1>5, <1>6 DEF CodesAreSpentOnce

(* A code that is there is read: it was not spent, and whoever reads it    *)
(* beside another is noted.                                                *)
LEMMA CodeIsRead ==
  ASSUME LoginInv, NEW c \in Visitors, NEW y, OneGoesOn(c, y), UNCHANGED <<sent, live, accepted>>,
         NEW x, x \in live, \A z : ~Spends(attempt[c], z), \A z : Spends(y, z) => z = x,
         overlapped' = overlapped \cup (Reading(x) \cap live)
  PROVE  CodesAreSpentOnce'
<1>1. CodesAreSpentOnce /\ live \subseteq Issued
  BY DEF LoginInv, LoginTyped
<1>2. \A d \in Visitors : \A z : Spends(attempt'[d], z) => Spends(attempt[d], z) \/ (d = c /\ z = x)
  BY DEF OneGoesOn
<1>3. Issued' = Issued
  BY DEF Issued
<1>4. ASSUME NEW z \in Codes \ overlapped'
      PROVE  Unspent(z)'
  <2>1. Unspent(z)
    BY <1>1, <1>4 DEF CodesAreSpentOnce
  <2>2. CASE z # x
    BY <1>2, <2>1, <2>2 DEF Unspent
  <2>3. CASE z = x
    <3>1. accepted[z] = 0
      BY <2>1, <2>3 DEF Unspent
    <3>2. ASSUME NEW d \in Visitors, Spends(attempt[d], z)
          PROVE  FALSE
      <4>1. d \in Attempting
        BY <3>2, NoAttemptIsNothing DEF Attempting
      <4>2. z \in Reading(x)
        BY <2>3, <3>2, <4>1 DEF Reading, Spends
      <4> QED BY <1>4, <2>3, <4>2
    <3> QED BY <1>2, <3>1, <3>2 DEF Unspent
  <2> QED BY <2>2, <2>3
<1>5. \A z \in Codes \ Issued' : accepted'[z] = 0
  BY <1>1, <1>3 DEF CodesAreSpentOnce
<1>6. \A d \in Visitors : \A z : Spends(attempt'[d], z) => z \in Issued'
  BY <1>1, <1>2, <1>3 DEF CodesAreSpentOnce
<1> QED BY <1>4, <1>5, <1>6 DEF CodesAreSpentOnce

LEMMA CodeIsSpent ==
  ASSUME LoginInv, NEW c \in Visitors, NEW y, OneGoesOn(c, y), UNCHANGED <<sent, overlapped>>,
         NEW x \in Codes, Spends(attempt[c], x), Spend(x), \A z : ~Spends(y, z)
  PROVE  CodesAreSpentOnce'
<1>1. CodesAreSpentOnce /\ accepted \in [Codes -> Nat]
  BY DEF LoginInv, LoginTyped
<1>2. \A d \in Visitors : \A z : Spends(attempt'[d], z) => Spends(attempt[d], z) /\ d # c
  BY DEF OneGoesOn
<1>3. Issued' = Issued
  BY DEF Issued
<1>4. /\ live' \subseteq live \ {x}
      /\ accepted'[x] = accepted[x] + 1 /\ \A z \in Codes \ {x} : accepted'[z] = accepted[z]
  BY <1>1 DEF Spend
<1>5. ASSUME NEW z \in Codes \ overlapped'
      PROVE  Unspent(z)'
  <2>1. Unspent(z)
    BY <1>1, <1>5 DEF CodesAreSpentOnce
  <2>2. CASE z # x
    BY <1>2, <1>4, <2>1, <2>2 DEF Unspent
  <2>3. CASE z = x
    <3>1. accepted[z] = 0 /\ \A d \in Visitors : ~Spends(attempt'[d], z)
      BY <1>2, <2>1, <2>3 DEF Unspent
    <3> QED BY <1>4, <2>3, <3>1 DEF Unspent
  <2> QED BY <2>2, <2>3
<1>6. x \in Issued
  BY <1>1 DEF CodesAreSpentOnce
<1>7. \A z \in Codes \ Issued' : accepted'[z] = 0
  BY <1>1, <1>3, <1>4, <1>6 DEF CodesAreSpentOnce
<1>8. \A d \in Visitors : \A z : Spends(attempt'[d], z) => z \in Issued'
  BY <1>1, <1>2, <1>3 DEF CodesAreSpentOnce
<1> QED BY <1>5, <1>7, <1>8 DEF CodesAreSpentOnce

(* A new code was never accepted and is read by nobody yet.                *)
LEMMA CodeIsNew ==
  ASSUME LoginInv, NEW k \in Kinds, NewCode(k), UNCHANGED <<accepted, overlapped>>,
         \A d \in Visitors : \A z : Spends(attempt'[d], z) => Spends(attempt[d], z)
  PROVE  CodesAreSpentOnce' /\ live' \subseteq Issued'
<1>1. /\ CodesAreSpentOnce /\ live \subseteq Issued
      /\ sent \in [Kinds -> 0..MaxSent] /\ MaxSent \in Nat
  BY ThresholdAssumption DEF LoginInv, LoginTyped
<1> DEFINE new == <<k, sent[k] + 1>>
<1>2. new \in Codes /\ new \notin Issued /\ new \in Issued'
  BY <1>1 DEF NewCode, Codes, Issued
<1>3. Issued \subseteq Issued'
  BY <1>1 DEF NewCode, Issued
<1>4. live' \subseteq live \cup {new}
  BY DEF NewCode
<1> HIDE DEF new
<1>5. ASSUME NEW z \in Codes \ overlapped'
      PROVE  Unspent(z)'
  <2>1. Unspent(z)
    BY <1>1, <1>5 DEF CodesAreSpentOnce
  <2>2. z = new => accepted[z] = 0
    BY <1>1, <1>2 DEF CodesAreSpentOnce
  <2> QED BY <1>4, <2>1, <2>2 DEF Unspent
<1>6. \A z \in Codes \ Issued' : accepted'[z] = 0
  BY <1>1, <1>3 DEF CodesAreSpentOnce
<1>7. \A d \in Visitors : \A z : Spends(attempt'[d], z) => z \in Issued'
  BY <1>1, <1>3 DEF CodesAreSpentOnce
<1> QED BY <1>1, <1>2, <1>3, <1>4, <1>5, <1>6, <1>7 DEF CodesAreSpentOnce

-----------------------------------------------------------------------------
(* Times to live, the lock, and the shape of the state.                    *)

LEMMA ExpiryStays ==
  ASSUME LoginInv, NEW c \in Visitors, NEW y, OneGoesOn(c, y), UNCHANGED count,
         expiring \subseteq expiring', abandoned \subseteq abandoned',
         \A k : Expiring(attempt[c], k) => Expiring(y, k) \/ k \in expiring' \/ k \in abandoned'
                                           \/ ~(count[k] > 0)
  PROVE  CountersExpire'
<1>1. CountersExpire
  BY DEF LoginInv
<1>2. ASSUME NEW k \in Counters, count[k] > 0
      PROVE  \/ k \in expiring' \/ k \in abandoned'
             \/ \E d \in Visitors : Expiring(attempt'[d], k)
  <2>1. CASE k \in expiring \/ k \in abandoned
    BY <2>1
  <2>2. CASE \E d \in Attempting : Expiring(attempt[d], k)
    <3>1. PICK d \in Attempting : Expiring(attempt[d], k)
      BY <2>2
    <3>2. d \in Visitors
      BY DEF Attempting
    <3> QED BY <1>2, <3>1, <3>2 DEF OneGoesOn
  <2> QED BY <1>1, <1>2, <2>1, <2>2 DEF CountersExpire, Expiring
<1>3. \A d \in Visitors : \A k : Expiring(attempt'[d], k) => d \in Attempting'
  BY NoAttemptIsNothing DEF Attempting
<1> QED BY <1>2, <1>3 DEF CountersExpire, Expiring

LEMMA LockStays ==
  ASSUME LoginInv, NEW c \in Visitors, NEW y, OneGoesOn(c, y), lock' = lock \/ lock' = 0,
         Past(y) /\ lock # 0 => Past(attempt[c]) /\ y.overtaken = attempt[c].overtaken
  PROVE  OvertakenByLock'
BY DEF LoginInv, OvertakenByLock, OneGoesOn

LEMMA TypedStays ==
  ASSUME LoginInv, NEW c \in Visitors, NEW y, OneGoesOn(c, y), UNCHANGED <<sent, tries>>,
         live' \subseteq live, count' \in [Counters -> Nat], accepted' \in [Codes -> Nat],
         loginCrashes' \in Nat
  PROVE  LoginTyped'
<1>1. LoginTyped
  BY DEF LoginInv
<1>2. Issued' = Issued
  BY DEF Issued
<1> QED BY <1>1, <1>2 DEF LoginTyped, OneGoesOn

(* A step in which a request goes on and nothing is counted, stored, spent *)
(* or locked.                                                              *)
LEMMA QuietStep ==
  ASSUME LoginInv, NEW c \in Visitors, NEW y, OneGoesOn(c, y),
         UNCHANGED <<count, expiring, abandoned, lock, sent, live, accepted, overlapped,
                     loginCrashes, tries>>,
         Uncounted(attempt[c]) => Uncounted(y), Pending(attempt[c]) => Pending(y),
         \A z : Spends(y, z) => Spends(attempt[c], z),
         \A k : Expiring(attempt[c], k) => Expiring(y, k),
         Past(y) /\ lock # 0 => Past(attempt[c]) /\ y.overtaken = attempt[c].overtaken
  PROVE  LoginInv'
<1>1. LoginTyped'
  <2>1. count' \in [Counters -> Nat] /\ accepted' \in [Codes -> Nat] /\ loginCrashes' \in Nat
    BY DEF LoginInv, LoginTyped
  <2> QED BY <2>1, TypedStays
<1>2. TriesAreCounted'
  BY TriesStay
<1>3. CodesAreSpentOnce'
  BY CodesStay
<1>4. CountersExpire'
  BY ExpiryStays
<1>5. OvertakenByLock'
  BY LockStays
<1> QED BY <1>1, <1>2, <1>3, <1>4, <1>5 DEF LoginInv

(* A request that has nothing to count, spend or expire ends.              *)
LEMMA QuietEnd ==
  ASSUME LoginInv, NEW c \in Visitors, EndAttempt(c),
         ~Uncounted(attempt[c]), ~Pending(attempt[c]), \A k : ~Expiring(attempt[c], k),
         UNCHANGED <<count, expiring, abandoned, lock, sent, live, accepted, overlapped,
                     loginCrashes, tries>>
  PROVE  LoginInv'
<1>1. OneGoesOn(c, NoAttempt)
  BY GoesOn, NoAttemptIsNothing DEF EndAttempt, LoginInv
<1> QED BY <1>1, QuietStep, NoAttemptIsNothing

-----------------------------------------------------------------------------
(* The steps of a request.                                                 *)

LEMMA BeginKeeps ==
  ASSUME LoginInv, NEW c \in Visitors, NEW pc, NEW right, NEW link, NEW factor,
         NEW key \in Counters, BeginAttempt(c, pc, right, link, factor, key),
         \/ pc \in {"link", "check"} /\ key = "attempts"
         \/ pc = "incr" /\ key # "attempts"
  PROVE  LoginInv'
<1>1. PICK y : y = [pc |-> pc, right |-> right, link |-> link, factor |-> factor, key |-> key,
                    seen |-> 0, overtaken |-> FALSE]
  OBVIOUS
<1>2. /\ y \in [pc : {y.pc}, right : {y.right}, link : {y.link}, factor : {y.factor},
                key : {y.key}, seen : {y.seen}, overtaken : {y.overtaken}]
      /\ y.pc = pc /\ y.key = key /\ y.seen = 0
  BY <1>1
<1>3. Shaped(y) /\ ~Uncounted(y) /\ ~Past(y) /\ (\A z : ~Spends(y, z))
  BY <1>2 DEF Shaped, Uncounted, Past, Spends
<1>4. attempt[c] = NoAttempt /\ attempt' = [attempt EXCEPT ![c] = y]
  BY <1>1 DEF BeginAttempt
<1>5. OneGoesOn(c, y)
  BY <1>3, <1>4, GoesOn DEF LoginInv
<1>6. UNCHANGED <<count, expiring, abandoned, lock, sent, live, accepted, overlapped,
                  loginCrashes, tries>>
  BY DEF BeginAttempt, counters, codes
<1> QED BY <1>3, <1>4, <1>5, <1>6, QuietStep, NoAttemptIsNothing

LEMMA LinkReadKeeps ==
  ASSUME LoginInv, NEW c \in Visitors, LinkRead(c)
  PROVE  LoginInv'
<1> DEFINE x == attempt[c]
<1>1. /\ x.pc = "link" /\ LoginTyped
      /\ UNCHANGED <<count, expiring, abandoned, lock, sent, live, accepted, loginCrashes, tries>>
      /\ overlapped' = overlapped \cup (Reading(x.link) \cap live)
      /\ IF x.link \in live THEN AttemptAt(c, "spend_link") ELSE EndAttempt(c)
  BY DEF LinkRead, counters, LoginInv
<1>2. /\ ~Uncounted(x) /\ ~Pending(x) /\ (\A k : ~Expiring(x, k)) /\ (\A z : ~Spends(x, z))
  BY <1>1 DEF Uncounted, Pending, Expiring, Spends
<1>3. CASE x.link \in live
  <2>1. x.key = "attempts"
    BY <1>1, NoAttemptIsNothing DEF LoginTyped, Shaped, NoAttempt
  <2>2. PICK y : OneGoesOn(c, y) /\ y.pc = "spend_link" /\ Keeps(x, y)
    BY <1>1, <1>3, <2>1, AttemptMoves
  <2>3. ~Past(y) /\ (\A z : Spends(y, z) => z = x.link)
    BY <2>2 DEF Past, Spends, Keeps
  <2>4. LoginTyped'
    BY <1>1, <2>2, TypedStays DEF LoginTyped
  <2>5. TriesAreCounted'
    BY <1>1, <1>2, <2>2, TriesStay
  <2>6. CodesAreSpentOnce'
    BY <1>1, <1>2, <1>3, <2>2, <2>3, CodeIsRead
  <2>7. CountersExpire'
    BY <1>1, <1>2, <2>2, ExpiryStays
  <2>8. OvertakenByLock'
    BY <1>1, <2>2, <2>3, LockStays
  <2> QED BY <2>4, <2>5, <2>6, <2>7, <2>8 DEF LoginInv
<1>4. CASE x.link \notin live
  <2>1. EndAttempt(c)
    BY <1>1, <1>4
  <2>2. Reading(x.link) \cap live = {}
    BY <1>4 DEF Reading
  <2>3. overlapped' = overlapped
    BY <1>1, <2>2
  <2> QED BY <1>1, <1>2, <2>1, <2>3, QuietEnd
<1> QED BY <1>3, <1>4

(* A code that is spent and what follows it, for links and for factors.    *)
LEMMA SpendKeeps ==
  ASSUME LoginInv, NEW c \in Visitors, NEW x, Spend(x), Spends(attempt[c], x), x \in Codes,
         NEW pc, AttemptAt(c, pc),
         \/ attempt[c].pc = "spend_link" /\ pc = "check"
         \/ attempt[c].pc = "spend" /\ pc = "clear",
         UNCHANGED <<count, expiring, abandoned, lock, sent, overlapped, loginCrashes, tries>>
  PROVE  LoginInv'
<1>1. LoginTyped /\ attempt[c].pc # "idle"
  BY DEF LoginInv
<1>2. attempt[c].key = "attempts"
  BY <1>1, NoAttemptIsNothing DEF LoginTyped, Shaped, NoAttempt
<1>3. PICK y : OneGoesOn(c, y) /\ y.pc = pc /\ Keeps(attempt[c], y)
  BY <1>1, <1>2, AttemptMoves
<1>4. /\ ~Uncounted(attempt[c]) /\ ~Pending(attempt[c]) /\ (\A k : ~Expiring(attempt[c], k))
      /\ \A z : ~Spends(y, z)
  BY <1>3 DEF Uncounted, Pending, Expiring, Spends
<1>5. live' \subseteq live /\ accepted' \in [Codes -> Nat]
  BY <1>1 DEF Spend, LoginTyped
<1>6. LoginTyped'
  BY <1>1, <1>3, <1>5, TypedStays DEF LoginTyped
<1>7. TriesAreCounted'
  BY <1>3, <1>4, TriesStay
<1>8. CodesAreSpentOnce'
  BY <1>3, <1>4, CodeIsSpent
<1>9. CountersExpire'
  BY <1>3, <1>4, ExpiryStays
<1>10. OvertakenByLock'
  BY <1>3, LockStays DEF Past, Keeps
<1> QED BY <1>6, <1>7, <1>8, <1>9, <1>10 DEF LoginInv

LEMMA LinkSpendKeeps ==
  ASSUME LoginInv, NEW c \in Visitors, LinkSpend(c)
  PROVE  LoginInv'
<1>1. Spends(attempt[c], attempt[c].link)
  BY DEF LinkSpend, Spends
<1>2. attempt[c].link \in Codes
  BY <1>1 DEF LoginInv, CodesAreSpentOnce, Issued, Codes
<1>3. /\ attempt[c].pc = "spend_link" /\ Spend(attempt[c].link) /\ AttemptAt(c, "check")
      /\ UNCHANGED <<count, expiring, abandoned, lock, sent, overlapped, loginCrashes, tries>>
  BY DEF LinkSpend, counters
<1>4. PICK x, pc : x = attempt[c].link /\ pc = "check"
  OBVIOUS
<1>5. /\ Spends(attempt[c], x) /\ x \in Codes /\ Spend(x) /\ AttemptAt(c, pc)
      /\ \/ attempt[c].pc = "spend_link" /\ pc = "check"
         \/ attempt[c].pc = "spend" /\ pc = "clear"
  BY <1>1, <1>2, <1>3, <1>4
<1> QED BY <1>3, <1>5, SpendKeeps

LEMMA FactorSpendKeeps ==
  ASSUME LoginInv, NEW c \in Visitors, FactorSpend(c)
  PROVE  LoginInv'
<1>1. Spends(attempt[c], attempt[c].factor)
  BY DEF FactorSpend, Spends
<1>2. attempt[c].factor \in Codes
  BY <1>1 DEF LoginInv, CodesAreSpentOnce, Issued, Codes
<1>3. /\ attempt[c].pc = "spend" /\ Spend(attempt[c].factor) /\ AttemptAt(c, "clear")
      /\ UNCHANGED <<count, expiring, abandoned, lock, sent, overlapped, loginCrashes, tries>>
  BY DEF FactorSpend, counters
<1>4. PICK x, pc : x = attempt[c].factor /\ pc = "clear"
  OBVIOUS
<1>5. /\ Spends(attempt[c], x) /\ x \in Codes /\ Spend(x) /\ AttemptAt(c, pc)
      /\ \/ attempt[c].pc = "spend_link" /\ pc = "check"
         \/ attempt[c].pc = "spend" /\ pc = "clear"
  BY <1>1, <1>2, <1>3, <1>4
<1> QED BY <1>3, <1>5, SpendKeeps

LEMMA CheckKeeps ==
  ASSUME LoginInv, NEW c \in Visitors, Check(c)
  PROVE  LoginInv'
<1> DEFINE x == attempt[c]
<1>1. /\ x.pc = "check" /\ LoginTyped
      /\ UNCHANGED <<count, expiring, abandoned, lock, sent, live, accepted, overlapped,
                     loginCrashes, tries>>
  BY DEF Check, counters, codes, LoginInv
<1>2. /\ ~Uncounted(x) /\ ~Pending(x) /\ (\A k : ~Expiring(x, k)) /\ (\A z : ~Spends(x, z))
  BY <1>1 DEF Uncounted, Pending, Expiring, Spends
<1>3. CASE lock # 0
  BY <1>1, <1>2, <1>3, QuietEnd DEF Check
<1>4. CASE lock = 0
  <2>1. PICK y : y = [x EXCEPT !.pc = "password", !.overtaken = FALSE]
    OBVIOUS
  <2>2. Shaped(x) /\ x # NoAttempt
    BY <1>1 DEF LoginTyped, NoAttempt
  <2>3. /\ y \in [pc : {y.pc}, right : {y.right}, link : {y.link}, factor : {y.factor},
                  key : {y.key}, seen : {y.seen}, overtaken : {y.overtaken}]
        /\ y.pc = "password" /\ y.key = x.key /\ y.seen = x.seen
        /\ x.key = "attempts" /\ x.key \in Counters /\ x.seen \in Nat
    BY <1>1, <2>1, <2>2 DEF Shaped
  <2>4. Shaped(y) /\ \A z : ~Spends(y, z)
    BY <2>3 DEF Shaped, Spends
  <2>5. attempt' = [attempt EXCEPT ![c] = y]
    BY <1>1, <1>4, <2>1 DEF Check, LoginTyped
  <2>6. OneGoesOn(c, y)
    BY <1>1, <2>4, <2>5, GoesOn
  <2> QED BY <1>1, <1>2, <1>4, <2>4, <2>6, QuietStep
<1> QED BY <1>3, <1>4

(* A wrong secret.                                                         *)
LEMMA RejectKeeps ==
  ASSUME LoginInv, NEW c \in Visitors, Reject(c), attempt[c].pc \in {"password", "factor"},
         UNCHANGED <<count, expiring, abandoned, lock, sent, live, accepted, loginCrashes>>,
         overlapped \subseteq overlapped'
  PROVE  LoginInv'
<1> DEFINE x == attempt[c]
<1>1. LoginTyped /\ x.pc # "idle"
  BY DEF LoginInv
<1>2. x.key = "attempts"
  BY <1>1, NoAttemptIsNothing DEF LoginTyped, Shaped, NoAttempt
<1>3. PICK y : OneGoesOn(c, y) /\ y.pc = "incr" /\ Keeps(x, y)
  BY <1>1, AttemptMoves DEF Reject
<1>4. /\ ~Uncounted(x) /\ ~Pending(x) /\ (\A k : ~Expiring(x, k)) /\ (\A z : ~Spends(y, z))
      /\ Uncounted(y) /\ Past(x)
  BY <1>2, <1>3 DEF Uncounted, Pending, Expiring, Spends, Past, Keeps
<1>5. LoginTyped'
  <2>1. tries' \in Nat /\ Issued' = Issued
    BY <1>1 DEF Reject, LoginTyped, Issued
  <2> QED BY <1>1, <1>3, <2>1 DEF LoginTyped, OneGoesOn
<1>6. TriesAreCounted'
  BY <1>3, <1>4, TriesGrow DEF Reject
<1>7. CodesAreSpentOnce'
  BY <1>3, <1>4, CodesStay
<1>8. CountersExpire'
  BY <1>3, <1>4, ExpiryStays
<1>9. OvertakenByLock'
  BY <1>3, <1>4, LockStays DEF Keeps
<1> QED BY <1>5, <1>6, <1>7, <1>8, <1>9 DEF LoginInv

LEMMA PasswordKeeps ==
  ASSUME LoginInv, NEW c \in Visitors, Password(c)
  PROVE  LoginInv'
<1> DEFINE x == attempt[c]
<1>1. /\ x.pc = "password" /\ LoginTyped
      /\ UNCHANGED <<count, expiring, abandoned, lock, sent, live, accepted, overlapped,
                     loginCrashes>>
  BY DEF Password, counters, codes, LoginInv
<1>2. CASE x.right
  <2>1. AttemptAt(c, "factor") /\ tries' = tries
    BY <1>2 DEF Password
  <2>2. x.key = "attempts"
    BY <1>1, NoAttemptIsNothing DEF LoginTyped, Shaped, NoAttempt
  <2>3. PICK y : OneGoesOn(c, y) /\ y.pc = "factor" /\ Keeps(x, y)
    BY <1>1, <2>1, <2>2, AttemptMoves
  <2>4. /\ ~Uncounted(x) /\ ~Pending(x) /\ (\A k : ~Expiring(x, k)) /\ (\A z : ~Spends(y, z))
        /\ Past(x) /\ y.overtaken = x.overtaken
    BY <1>1, <2>3 DEF Uncounted, Pending, Expiring, Spends, Past, Keeps
  <2> QED BY <1>1, <2>1, <2>3, <2>4, QuietStep
<1>3. CASE ~x.right
  <2>1. Reject(c)
    BY <1>3 DEF Password
  <2> QED BY <1>1, <2>1, RejectKeeps
<1> QED BY <1>2, <1>3

LEMMA FactorKeeps ==
  ASSUME LoginInv, NEW c \in Visitors, Factor(c)
  PROVE  LoginInv'
<1> DEFINE x == attempt[c]
           f == attempt[c].factor
<1>1. /\ x.pc = "factor" /\ LoginTyped
      /\ UNCHANGED <<count, expiring, abandoned, lock, sent, live, accepted, loginCrashes>>
      /\ overlapped' = overlapped \cup (Reading(f) \cap live)
      /\ \/ f = NoCode /\ EndAttempt(c) /\ tries' = tries
         \/ f = Totp /\ AttemptAt(c, "clear") /\ tries' = tries
         \/ f \in live /\ AttemptAt(c, "spend") /\ tries' = tries
         \/ Reject(c)
  BY DEF Factor, counters, LoginInv
<1>2. /\ ~Uncounted(x) /\ ~Pending(x) /\ (\A k : ~Expiring(x, k)) /\ (\A z : ~Spends(x, z))
      /\ Past(x)
  BY <1>1 DEF Uncounted, Pending, Expiring, Spends, Past
<1>3. x.key = "attempts"
  BY <1>1, NoAttemptIsNothing DEF LoginTyped, Shaped, NoAttempt
<1>4. overlapped \subseteq overlapped' /\ (f \notin live => overlapped' = overlapped)
  BY <1>1 DEF Reading
<1>5. CASE Reject(c)
  BY <1>1, <1>4, <1>5, RejectKeeps
<1>6. NoCode \notin live /\ Totp \notin live
  BY <1>1 DEF LoginTyped, Issued, Kinds, NoCode, Totp
<1>7. CASE f = NoCode /\ EndAttempt(c) /\ tries' = tries
  BY <1>1, <1>2, <1>4, <1>6, <1>7, QuietEnd
<1>8. CASE f = Totp /\ AttemptAt(c, "clear") /\ tries' = tries
  <2>1. PICK y : OneGoesOn(c, y) /\ y.pc = "clear" /\ Keeps(x, y)
    BY <1>1, <1>3, <1>8, AttemptMoves
  <2>2. (\A z : ~Spends(y, z)) /\ y.overtaken = x.overtaken
    BY <2>1 DEF Spends, Keeps
  <2> QED BY <1>1, <1>2, <1>4, <1>6, <1>8, <2>1, <2>2, QuietStep
<1>9. CASE f \in live /\ AttemptAt(c, "spend") /\ tries' = tries
  <2>1. PICK y : OneGoesOn(c, y) /\ y.pc = "spend" /\ Keeps(x, y)
    BY <1>1, <1>3, <1>9, AttemptMoves
  <2>2. (\A z : Spends(y, z) => z = f) /\ y.overtaken = x.overtaken
    BY <2>1 DEF Spends, Keeps
  <2>3. LoginTyped'
    BY <1>1, <1>9, <2>1, TypedStays DEF LoginTyped
  <2>4. TriesAreCounted'
    BY <1>1, <1>2, <1>9, <2>1, TriesStay
  <2>5. CodesAreSpentOnce'
    BY <1>1, <1>2, <1>9, <2>1, <2>2, CodeIsRead
  <2>6. CountersExpire'
    BY <1>1, <1>2, <2>1, ExpiryStays
  <2>7. OvertakenByLock'
    BY <1>1, <1>2, <2>1, <2>2, LockStays
  <2> QED BY <2>3, <2>4, <2>5, <2>6, <2>7 DEF LoginInv
<1> QED BY <1>1, <1>5, <1>7, <1>8, <1>9

-----------------------------------------------------------------------------
(* Counting.                                                               *)

LEMMA ExpiryMoves ==
  ASSUME LoginInv, NEW c \in Visitors, NEW y, OneGoesOn(c, y), abandoned \subseteq abandoned',
         \A k \in Counters : count'[k] > 0 =>
           \/ Expiring(y, k) \/ k \in expiring' \/ k \in abandoned'
           \/ count[k] > 0 /\ ~Expiring(attempt[c], k) /\ k \notin expiring
  PROVE  CountersExpire'
<1>1. CountersExpire
  BY DEF LoginInv
<1>2. ASSUME NEW k \in Counters, count'[k] > 0
      PROVE  \/ k \in expiring' \/ k \in abandoned'
             \/ \E d \in Visitors : Expiring(attempt'[d], k)
  <2>1. CASE Expiring(y, k)
    BY <2>1 DEF OneGoesOn
  <2>2. CASE count[k] > 0 /\ ~Expiring(attempt[c], k) /\ k \notin expiring
    <3>1. k \in abandoned \/ \E d \in Attempting : Expiring(attempt[d], k)
      BY <1>1, <2>2 DEF CountersExpire, Expiring
    <3>2. CASE \E d \in Attempting : Expiring(attempt[d], k)
      <4>1. PICK d \in Attempting : Expiring(attempt[d], k)
        BY <3>2
      <4>2. d \in Visitors \ {c}
        BY <2>2, <4>1 DEF Attempting
      <4> QED BY <4>1, <4>2 DEF OneGoesOn
    <3> QED BY <3>1, <3>2
  <2> QED BY <1>2, <2>1, <2>2
<1>3. \A d \in Visitors : \A k : Expiring(attempt'[d], k) => d \in Attempting'
  BY NoAttemptIsNothing DEF Attempting
<1> QED BY <1>2, <1>3 DEF CountersExpire, Expiring

LEMMA ClearKeeps ==
  ASSUME LoginInv, NEW c \in Visitors, Clear(c)
  PROVE  LoginInv'
<1>1. /\ attempt[c].pc = "clear" /\ LoginTyped /\ EndAttempt(c)
      /\ count' = [count EXCEPT !["attempts"] = 0] /\ expiring' = expiring \ {"attempts"}
      /\ lock' = 0 /\ tries' = 0
      /\ UNCHANGED <<abandoned, sent, live, accepted, overlapped, loginCrashes>>
  BY DEF Clear, codes, LoginInv
<1>2. OneGoesOn(c, NoAttempt)
  BY <1>1, GoesOn, NoAttemptIsNothing DEF EndAttempt
<1>3. /\ count' \in [Counters -> Nat] /\ count'["attempts"] = 0
      /\ \A k \in Counters \ {"attempts"} : count'[k] = count[k]
  BY <1>1 DEF LoginTyped, Counters
<1>4. LoginTyped'
  BY <1>1, <1>2, <1>3 DEF LoginTyped, OneGoesOn, Issued
<1>5. TriesAreCounted'
  BY <1>1, <1>3, TriesStartAnew DEF LoginTyped
<1>6. CodesAreSpentOnce'
  BY <1>1, <1>2, CodesStay, NoAttemptIsNothing
<1>7. CountersExpire'
  <2>1. \A k : ~Expiring(attempt[c], k)
    BY <1>1 DEF Expiring
  <2>2. \A k \in Counters : count'[k] > 0 => k \in expiring' \/ (count[k] > 0 /\ k \notin expiring)
    BY <1>1, <1>3
  <2> QED BY <1>1, <1>2, <2>1, <2>2, ExpiryMoves
<1>8. OvertakenByLock'
  BY <1>1 DEF OvertakenByLock
<1> QED BY <1>4, <1>5, <1>6, <1>7, <1>8 DEF LoginInv

LEMMA UncountedAreFew == Cardinality(TheUncounted) <= Cardinality(ThePending)
<1>1. TheUncounted \subseteq ThePending
  BY DEF TheUncounted, ThePending, Pending
<1>2. IsFiniteSet(ThePending)
  BY ThresholdAssumption, FS_Subset DEF ThePending
<1> QED BY <1>1, <1>2, FS_Subset

(* A wrong secret is counted: the request has not to count it any more,    *)
(* and when that does not reach the threshold, nobody else brought the     *)
(* tries to it but those who have yet to count theirs.                     *)
LEMMA TriesCounted ==
  ASSUME LoginInv, NEW c \in Visitors, NEW y, OneGoesOn(c, y),
         UNCHANGED <<loginCrashes, tries>>, count'["attempts"] = count["attempts"] + 1,
         Uncounted(attempt[c]), ~Uncounted(y),
         Pending(y) \/ count["attempts"] + 1 < Threshold
  PROVE  TriesAreCounted'
<1>1. /\ count["attempts"] \in Nat /\ tries \in Nat /\ loginCrashes \in Nat /\ Threshold \in Nat
      /\ TriesAreCounted
  BY ThresholdAssumption DEF LoginInv, LoginTyped, Counters
<1> DEFINE U == Cardinality(TheUncounted)
           P == Cardinality(ThePending)
<1>2. Pending(attempt[c])
  BY DEF Pending
<1>3. /\ U \in Nat /\ P \in Nat /\ U' \in Nat /\ P' \in Nat
      /\ U' = U - 1 /\ (Pending(y) => P' = P) /\ (~Pending(y) => P' = P - 1)
  BY <1>2, Counted
<1>4. /\ tries <= count["attempts"] + U + loginCrashes
      /\ tries <= Threshold - 1 + P + loginCrashes
      /\ U <= P
  BY <1>1, UncountedAreFew DEF TriesAreCounted
<1> HIDE DEF U, P
<1>5. tries <= count'["attempts"] + U' + loginCrashes
  BY <1>1, <1>3, <1>4
<1>6. CASE Pending(y)
  <2>1. P' = P
    BY <1>3, <1>6
  <2> QED BY <1>4, <1>5, <2>1 DEF TriesAreCounted, U, P
<1>7. CASE ~Pending(y)
  <2>1. P' = P - 1 /\ count["attempts"] + 1 < Threshold
    BY <1>3, <1>7
  <2>2. count["attempts"] <= Threshold - 2
    BY <1>1, <2>1
  <2>3. tries <= Threshold - 1 + P' + loginCrashes
    BY <1>1, <1>3, <1>4, <2>1, <2>2
  <2> QED BY <1>5, <2>3 DEF TriesAreCounted, U, P
<1> QED BY <1>6, <1>7

LEMMA IncrKeeps ==
  ASSUME LoginInv, NEW c \in Visitors, Incr(c)
  PROVE  LoginInv'
<1> DEFINE x == attempt[c]
<1>1. PICK n, p : /\ n = count[x.key] + 1
                  /\ p = IF x.key = "attempts" \/ n = 1 THEN "expire"
                         ELSE IF n <= SendMax THEN "send" ELSE "refused"
  OBVIOUS
<1>2. /\ x.pc = "incr" /\ LoginTyped
      /\ count' = [count EXCEPT ![x.key] = n]
      /\ attempt' = [attempt EXCEPT ![c].seen = n, ![c].pc = p]
      /\ UNCHANGED <<expiring, abandoned, lock, sent, live, accepted, overlapped,
                     loginCrashes, tries>>
  BY <1>1 DEF Incr, counters, codes, LoginInv
<1>3. Shaped(x) /\ x # NoAttempt
  BY <1>2 DEF LoginTyped, NoAttempt
<1>4. PICK y : y = [x EXCEPT !.seen = n, !.pc = p]
  OBVIOUS
<1>5. x.key \in Counters /\ count \in [Counters -> Nat]
  BY <1>2, <1>3 DEF Shaped, LoginTyped
<1>6. n \in Nat \ {0}
  BY <1>1, <1>5
<1>7. /\ y \in [pc : {y.pc}, right : {y.right}, link : {y.link}, factor : {y.factor},
                key : {y.key}, seen : {y.seen}, overtaken : {y.overtaken}]
      /\ y.pc = p /\ y.key = x.key /\ y.seen = n /\ y.overtaken = x.overtaken
  BY <1>3, <1>4 DEF Shaped
<1>8. /\ p \in {"expire", "send", "refused"}
      /\ x.key = "attempts" => p = "expire"
      /\ n = 1 => p = "expire"
  BY <1>1
<1>9. Shaped(y)
  BY <1>5, <1>6, <1>7, <1>8 DEF Shaped
<1>10. attempt' = [attempt EXCEPT ![c] = y]
  BY <1>2, <1>4 DEF LoginTyped
<1>11. OneGoesOn(c, y)
  BY <1>2, <1>9, <1>10, GoesOn
<1>12. /\ count' \in [Counters -> Nat] /\ count'[x.key] = n
       /\ \A k \in Counters \ {x.key} : count'[k] = count[k]
  BY <1>2, <1>5, <1>6
<1>13. LoginTyped'
  BY <1>2, <1>11, <1>12, TypedStays DEF LoginTyped
<1>14. (\A z : ~Spends(y, z)) /\ ~Uncounted(y)
  BY <1>7, <1>8 DEF Spends, Uncounted
<1>15. TriesAreCounted'
  <2>1. CASE x.key = "attempts"
    <3>1. Uncounted(x) /\ count'["attempts"] = count["attempts"] + 1
      BY <1>1, <1>2, <1>12, <2>1 DEF Uncounted
    <3>2. Pending(y) \/ count["attempts"] + 1 < Threshold
      BY <1>1, <1>5, <1>7, <1>8, <2>1, ThresholdAssumption DEF Pending
    <3> QED BY <1>2, <1>11, <1>14, <3>1, <3>2, TriesCounted
  <2>2. CASE x.key # "attempts"
    <3>1. ~Uncounted(x) /\ ~Pending(x)
      BY <2>2 DEF Uncounted, Pending
    <3>2. count'["attempts"] = count["attempts"]
      BY <1>12, <2>2 DEF Counters
    <3>3. TriesAreCounted /\ ~Pending(y)
      BY <1>7, <2>2 DEF LoginInv, Pending, Uncounted
    <3>4. Cardinality(TheUncounted)' = Cardinality(TheUncounted)
          /\ Cardinality(ThePending)' = Cardinality(ThePending)
      BY <1>11, <1>14, <3>1, <3>3, Counted
    <3> QED BY <1>2, <3>2, <3>3, <3>4 DEF TriesAreCounted
  <2> QED BY <2>1, <2>2
<1>16. CodesAreSpentOnce'
  BY <1>2, <1>11, <1>14, CodesStay
<1>17. CountersExpire'
  <2>1. \A k : ~Expiring(x, k)
    BY <1>2 DEF Expiring
  <2>2. n = 1 => Expiring(y, x.key)
    BY <1>7, <1>8 DEF Expiring
  <2>3. \A k \in Counters : count'[k] > 0 => (k = x.key /\ n = 1) \/ count[k] > 0
    BY <1>1, <1>5, <1>12
  <2>4. \A k \in Counters : count'[k] > 0 =>
          Expiring(y, k) \/ k \in expiring' \/ (count[k] > 0 /\ k \notin expiring)
    BY <1>2, <2>2, <2>3
  <2> QED BY <1>2, <1>11, <2>1, <2>4, ExpiryMoves
<1>18. OvertakenByLock'
  <2>1. Past(y) => Past(x)
    BY <1>2, <1>7, <1>8 DEF Past
  <2> QED BY <1>2, <1>7, <1>11, <2>1, LockStays
<1> QED BY <1>13, <1>15, <1>16, <1>17, <1>18 DEF LoginInv

LEMMA ExpireKeeps ==
  ASSUME LoginInv, NEW c \in Visitors, Expire(c)
  PROVE  LoginInv'
<1> DEFINE x == attempt[c]
<1>1. /\ x.pc = "expire" /\ LoginTyped
      /\ expiring' = expiring \cup {k \in {x.key} : count[k] > 0}
      /\ UNCHANGED <<count, abandoned, lock, sent, live, accepted, overlapped,
                     loginCrashes, tries>>
      /\ \/ x.key # "attempts" /\ AttemptAt(c, "send")
         \/ x.key = "attempts" /\ x.seen >= Threshold /\ AttemptAt(c, "lock")
         \/ x.key = "attempts" /\ ~(x.seen >= Threshold) /\ EndAttempt(c)
  BY DEF Expire, codes, LoginInv
<1>2. PICK y : /\ OneGoesOn(c, y) /\ (\A z : ~Spends(y, z)) /\ ~Uncounted(y)
               /\ Pending(x) <=> Pending(y)
               /\ Past(y) => Past(x) /\ y.overtaken = x.overtaken
  <2>1. CASE x.key # "attempts" /\ AttemptAt(c, "send")
    <3>1. PICK y : OneGoesOn(c, y) /\ y.pc = "send" /\ Keeps(x, y)
      BY <1>1, <2>1, AttemptMoves
    <3>2. (\A z : ~Spends(y, z)) /\ ~Uncounted(y) /\ ~Pending(y) /\ ~Pending(x) /\ ~Past(y)
      BY <2>1, <3>1 DEF Spends, Uncounted, Pending, Past, Keeps
    <3> QED BY <3>1, <3>2
  <2>2. CASE x.key = "attempts" /\ x.seen >= Threshold /\ AttemptAt(c, "lock")
    <3>1. PICK y : OneGoesOn(c, y) /\ y.pc = "lock" /\ y.seen = x.seen /\ Keeps(x, y)
      BY <1>1, <2>2, AttemptMoves
    <3>2. /\ (\A z : ~Spends(y, z)) /\ ~Uncounted(y) /\ Pending(y) /\ Pending(x)
          /\ Past(x) /\ y.overtaken = x.overtaken
      BY <1>1, <2>2, <3>1 DEF Spends, Uncounted, Pending, Past, Keeps
    <3> QED BY <3>1, <3>2
  <2>3. CASE x.key = "attempts" /\ ~(x.seen >= Threshold) /\ EndAttempt(c)
    <3>1. OneGoesOn(c, NoAttempt)
      BY <1>1, <2>3, GoesOn, NoAttemptIsNothing DEF EndAttempt
    <3>2. ~Pending(x)
      BY <1>1, <2>3 DEF Pending, Uncounted
    <3> QED BY <3>1, <3>2, NoAttemptIsNothing
  <2> QED BY <1>1, <2>1, <2>2, <2>3
<1>3. ~Uncounted(x) /\ (\A k : Expiring(x, k) => k = x.key)
  BY <1>1 DEF Uncounted, Expiring
<1>4. LoginTyped'
  BY <1>1, <1>2, TypedStays DEF LoginTyped
<1>5. TriesAreCounted'
  BY <1>1, <1>2, <1>3, TriesStay
<1>6. CodesAreSpentOnce'
  BY <1>1, <1>2, CodesStay
<1>7. CountersExpire'
  <2>1. \A k : Expiring(x, k) => k \in expiring' \/ ~(count[k] > 0)
    BY <1>1, <1>3
  <2> QED BY <1>1, <1>2, <2>1, ExpiryStays
<1>8. OvertakenByLock'
  BY <1>1, <1>2, LockStays
<1> QED BY <1>4, <1>5, <1>6, <1>7, <1>8 DEF LoginInv

LEMMA LockKeeps ==
  ASSUME LoginInv, NEW c \in Visitors, Lock(c)
  PROVE  LoginInv'
<1>1. /\ attempt[c].pc = "lock" /\ LoginTyped /\ tries' = 0
      /\ attempt' = [d \in Visitors |-> IF d = c \/ attempt[d] = NoAttempt THEN NoAttempt
                       ELSE [attempt[d] EXCEPT !.overtaken = TRUE]]
      /\ UNCHANGED <<count, expiring, abandoned, sent, live, accepted, overlapped, loginCrashes>>
  BY DEF Lock, counters, codes, LoginInv
<1>2. ASSUME NEW d \in Visitors
      PROVE  \/ attempt'[d] = NoAttempt /\ (d = c \/ attempt[d] = NoAttempt)
             \/ /\ Shaped(attempt'[d]) /\ attempt'[d].overtaken
                /\ \A z : Spends(attempt'[d], z) => Spends(attempt[d], z)
                /\ \A k : Expiring(attempt[d], k) => Expiring(attempt'[d], k)
  <2> DEFINE x == attempt[d]
  <2>1. CASE d # c /\ x # NoAttempt
    <3>1. PICK y : y = [x EXCEPT !.overtaken = TRUE]
      OBVIOUS
    <3>2. attempt'[d] = y /\ Shaped(x)
      BY <1>1, <2>1, <3>1 DEF LoginTyped
    <3>3. /\ y \in [pc : {y.pc}, right : {y.right}, link : {y.link}, factor : {y.factor},
                    key : {y.key}, seen : {y.seen}, overtaken : {y.overtaken}]
          /\ y.pc = x.pc /\ y.key = x.key /\ y.seen = x.seen /\ y.overtaken = TRUE
          /\ y.link = x.link /\ y.factor = x.factor
      BY <2>1, <3>1, <3>2 DEF Shaped
    <3>4. Shaped(y)
      BY <2>1, <3>2, <3>3 DEF Shaped
    <3>5. (\A z : Spends(y, z) => Spends(x, z)) /\ (\A k : Expiring(x, k) => Expiring(y, k))
      BY <3>3 DEF Spends, Expiring
    <3> QED BY <3>2, <3>3, <3>4, <3>5
  <2> QED BY <1>1, <2>1
<1>3. \A d \in Visitors : /\ Shaped(attempt'[d]) /\ (Past(attempt'[d]) => attempt'[d].overtaken)
                          /\ \A z : Spends(attempt'[d], z) => Spends(attempt[d], z)
  BY <1>2, NoAttemptIsNothing
<1>4. LoginTyped'
  <2>1. attempt' = [d \in Visitors |-> attempt'[d]]
    BY <1>1
  <2> QED BY <1>1, <1>3, <2>1 DEF LoginTyped, Issued
<1>5. TriesAreCounted'
  BY <1>1, TriesStartAnew DEF LoginTyped, Counters
<1>6. CodesAreSpentOnce'
  <2>1. CodesAreSpentOnce /\ Issued' = Issued
    BY <1>1 DEF LoginInv, Issued
  <2>2. ASSUME NEW z \in Codes \ overlapped'
        PROVE  Unspent(z)'
    BY <1>1, <1>3, <2>1, <2>2 DEF CodesAreSpentOnce, Unspent
  <2> QED BY <1>1, <1>3, <2>1, <2>2 DEF CodesAreSpentOnce
<1>7. CountersExpire'
  <2>1. CountersExpire
    BY DEF LoginInv
  <2>2. \A d \in Visitors, k \in Counters : Expiring(attempt[d], k) => Expiring(attempt'[d], k)
    BY <1>1, <1>2, NoAttemptIsNothing DEF Expiring
  <2>3. \A d \in Visitors : \A k : Expiring(attempt'[d], k) => d \in Attempting'
    BY NoAttemptIsNothing DEF Attempting
  <2> QED BY <1>1, <2>1, <2>2, <2>3 DEF CountersExpire, Expiring, Attempting
<1>8. OvertakenByLock'
  BY <1>3 DEF OvertakenByLock
<1> QED BY <1>4, <1>5, <1>6, <1>7, <1>8 DEF LoginInv

LEMMA RefusedKeeps ==
  ASSUME LoginInv, NEW c \in Visitors, Refused(c)
  PROVE  LoginInv'
<1>1. ~Uncounted(attempt[c]) /\ ~Pending(attempt[c]) /\ \A k : ~Expiring(attempt[c], k)
  BY DEF Refused, Uncounted, Pending, Expiring
<1> QED BY <1>1, QuietEnd DEF Refused, counters, codes

LEMMA SendKeeps ==
  ASSUME LoginInv, NEW c \in Visitors, Send(c)
  PROVE  LoginInv'
<1> DEFINE x == attempt[c]
<1>1. /\ x.pc = "send" /\ LoginTyped /\ EndAttempt(c) /\ NewCode(x.key)
      /\ UNCHANGED <<count, expiring, abandoned, lock, accepted, overlapped,
                     loginCrashes, tries>>
  BY DEF Send, counters, LoginInv
<1>2. OneGoesOn(c, NoAttempt)
  BY <1>1, GoesOn, NoAttemptIsNothing DEF EndAttempt
<1>3. ~Uncounted(x) /\ ~Pending(x) /\ \A k : ~Expiring(x, k)
  BY <1>1 DEF Uncounted, Pending, Expiring
<1>4. x.key \in Kinds
  <2>1. x # NoAttempt /\ x.key \in Counters
    BY <1>1 DEF LoginTyped, Shaped, NoAttempt
  <2>2. x.key # "attempts"
    BY <1>1, <2>1, NoAttemptIsNothing DEF LoginTyped, Shaped
  <2> QED BY <1>1, <2>1, <2>2 DEF Counters, Kinds
<1>5. CodesAreSpentOnce' /\ live' \subseteq Issued'
  BY <1>1, <1>2, <1>4, CodeIsNew, NoAttemptIsNothing DEF OneGoesOn
<1>6. LoginTyped'
  <2>1. sent' \in [Kinds -> 0..MaxSent]
    BY <1>1, <1>4, ThresholdAssumption DEF NewCode, LoginTyped
  <2> QED BY <1>1, <1>2, <1>5, <2>1 DEF LoginTyped, OneGoesOn
<1>7. TriesAreCounted'
  BY <1>1, <1>2, <1>3, TriesStay
<1>8. CountersExpire'
  BY <1>1, <1>2, <1>3, ExpiryStays
<1>9. OvertakenByLock'
  BY <1>1, <1>2, LockStays, NoAttemptIsNothing
<1> QED BY <1>5, <1>6, <1>7, <1>8, <1>9 DEF LoginInv

(* A request that dies takes what it had to count with it: that is what    *)
(* the deaths are counted for.                                             *)
LEMMA CrashKeeps ==
  ASSUME LoginInv, NEW c \in Visitors, CrashAttempt(c)
  PROVE  LoginInv'
<1>1. /\ LoginTyped /\ EndAttempt(c) /\ loginCrashes' = loginCrashes + 1
      /\ abandoned' = abandoned \cup {k \in Counters : attempt[c].pc = "expire" /\ attempt[c].key = k}
      /\ UNCHANGED <<count, expiring, lock, sent, live, accepted, overlapped, tries>>
  BY DEF CrashAttempt, codes, LoginInv
<1>2. OneGoesOn(c, NoAttempt)
  BY <1>1, GoesOn, NoAttemptIsNothing DEF EndAttempt
<1>3. LoginTyped'
  BY <1>1, <1>2, TypedStays DEF LoginTyped
<1>4. TriesAreCounted'
  <2>1. /\ count["attempts"] \in Nat /\ tries \in Nat /\ loginCrashes \in Nat /\ Threshold \in Nat
        /\ TriesAreCounted
    BY ThresholdAssumption DEF LoginInv, LoginTyped, Counters
  <2> DEFINE U == Cardinality(TheUncounted)
             P == Cardinality(ThePending)
  <2>2. /\ U \in Nat /\ P \in Nat /\ U' \in Nat /\ P' \in Nat
        /\ (U' = U \/ U' = U - 1) /\ (P' = P \/ P' = P - 1)
    BY <1>2, Counted, NoAttemptIsNothing
  <2>3. /\ tries <= count["attempts"] + U + loginCrashes
        /\ tries <= Threshold - 1 + P + loginCrashes
    BY <2>1 DEF TriesAreCounted
  <2> HIDE DEF U, P
  <2>4. tries <= count["attempts"] + U' + loginCrashes'
    <3>1. CASE U' = U
      BY <1>1, <2>1, <2>2, <2>3, <3>1
    <3>2. CASE U' = U - 1
      BY <1>1, <2>1, <2>2, <2>3, <3>2
    <3> QED BY <2>2, <3>1, <3>2
  <2>5. tries <= Threshold - 1 + P' + loginCrashes'
    <3>1. CASE P' = P
      BY <1>1, <2>1, <2>2, <2>3, <3>1
    <3>2. CASE P' = P - 1
      BY <1>1, <2>1, <2>2, <2>3, <3>2
    <3> QED BY <2>2, <3>1, <3>2
  <2> QED BY <1>1, <2>4, <2>5 DEF TriesAreCounted, U, P
<1>5. CodesAreSpentOnce'
  BY <1>1, <1>2, CodesStay, NoAttemptIsNothing
<1>6. CountersExpire'
  <2>1. \A k \in Counters : Expiring(attempt[c], k) => k \in abandoned'
    BY <1>1 DEF Expiring
  <2>2. \A k \in Counters : count'[k] = count[k] /\ (k \in expiring => k \in expiring')
    BY <1>1
  <2>3. abandoned \subseteq abandoned'
    BY <1>1
  <2>4. \A k \in Counters : count'[k] > 0 =>
          \/ k \in expiring' \/ k \in abandoned'
          \/ count[k] > 0 /\ ~Expiring(attempt[c], k) /\ k \notin expiring
    BY <2>1, <2>2
  <2> QED BY <1>2, <2>3, <2>4, ExpiryMoves
<1>7. OvertakenByLock'
  BY <1>1, <1>2, LockStays, NoAttemptIsNothing
<1> QED BY <1>3, <1>4, <1>5, <1>6, <1>7 DEF LoginInv

-----------------------------------------------------------------------------
(* What happens beside the requests.                                       *)

LEMMA RegenerateKeeps ==
  ASSUME LoginInv, Regenerate
  PROVE  LoginInv'
<1>1. /\ LoginTyped /\ NewCode("backup")
      /\ UNCHANGED <<count, expiring, abandoned, lock, accepted, overlapped, attempt,
                     loginCrashes, tries>>
  BY DEF Regenerate, counters, LoginInv
<1>2. CodesAreSpentOnce' /\ live' \subseteq Issued'
  BY <1>1, CodeIsNew DEF Kinds
<1>3. LoginTyped'
  <2>1. sent' \in [Kinds -> 0..MaxSent]
    BY <1>1, ThresholdAssumption DEF NewCode, LoginTyped, Kinds
  <2> QED BY <1>1, <1>2, <2>1 DEF LoginTyped
<1>4. TriesAreCounted' /\ CountersExpire' /\ OvertakenByLock'
  BY <1>1 DEF LoginInv, TriesAreCounted, TheUncounted, ThePending, CountersExpire, Attempting,
              OvertakenByLock
<1> QED BY <1>2, <1>3, <1>4 DEF LoginInv

LEMMA WindowKeeps ==
  ASSUME LoginInv, NEW k \in Counters, WindowPasses(k)
  PROVE  LoginInv'
<1>1. /\ LoginTyped /\ count' = [count EXCEPT ![k] = 0] /\ expiring' = expiring \ {k}
      /\ tries' = IF k = "attempts" THEN 0 ELSE tries
      /\ UNCHANGED <<abandoned, lock, sent, live, accepted, overlapped, attempt, loginCrashes>>
  BY DEF WindowPasses, codes, LoginInv
<1>2. /\ count' \in [Counters -> Nat] /\ count'[k] = 0
      /\ \A j \in Counters \ {k} : count'[j] = count[j]
  BY <1>1 DEF LoginTyped
<1>3. LoginTyped'
  BY <1>1, <1>2 DEF LoginTyped, Issued
<1>4. TriesAreCounted'
  <2>1. CASE k = "attempts"
    BY <1>1, <1>2, <2>1, TriesStartAnew DEF LoginTyped
  <2>2. CASE k # "attempts"
    <3>1. count'["attempts"] = count["attempts"] /\ tries' = tries
      BY <1>1, <1>2, <2>2 DEF Counters
    <3> QED BY <1>1, <3>1 DEF LoginInv, TriesAreCounted, TheUncounted, ThePending
  <2> QED BY <2>1, <2>2
<1>5. CodesAreSpentOnce'
  BY <1>1 DEF LoginInv, CodesAreSpentOnce, Unspent, Issued
<1>6. CountersExpire'
  BY <1>1, <1>2 DEF LoginInv, CountersExpire, Attempting
<1>7. OvertakenByLock'
  BY <1>1 DEF LoginInv, OvertakenByLock
<1> QED BY <1>3, <1>4, <1>5, <1>6, <1>7 DEF LoginInv

LEMMA LockPassesKeeps ==
  ASSUME LoginInv, LockPasses
  PROVE  LoginInv'
<1>1. /\ lock' = 0
      /\ UNCHANGED <<count, expiring, abandoned, sent, live, accepted, overlapped, attempt,
                     loginCrashes, tries>>
  BY DEF LockPasses, counters, codes
<1>2. LoginTyped' /\ CodesAreSpentOnce'
  BY <1>1 DEF LoginInv, LoginTyped, CodesAreSpentOnce, Unspent, Issued
<1>3. TriesAreCounted' /\ CountersExpire' /\ OvertakenByLock'
  BY <1>1 DEF LoginInv, TriesAreCounted, TheUncounted, ThePending, CountersExpire, Attempting,
              OvertakenByLock
<1> QED BY <1>2, <1>3 DEF LoginInv

LEMMA CodeExpiresKeeps ==
  ASSUME LoginInv, NEW x, CodeExpires(x)
  PROVE  LoginInv'
<1>1. /\ live' \subseteq live
      /\ UNCHANGED <<count, expiring, abandoned, lock, sent, accepted, overlapped, attempt,
                     loginCrashes, tries>>
  BY DEF CodeExpires, counters
<1>2. LoginTyped'
  BY <1>1 DEF LoginInv, LoginTyped, Issued
<1>3. CodesAreSpentOnce'
  BY <1>1 DEF LoginInv, CodesAreSpentOnce, Unspent, Issued
<1>4. TriesAreCounted' /\ CountersExpire' /\ OvertakenByLock'
  BY <1>1 DEF LoginInv, TriesAreCounted, TheUncounted, ThePending, CountersExpire, Attempting,
              OvertakenByLock
<1> QED BY <1>2, <1>3, <1>4 DEF LoginInv

LEMMA LoginStart == LoginInit => LoginInv
<1> SUFFICES ASSUME LoginInit PROVE LoginInv
  OBVIOUS
<1>1. /\ count = [k \in Counters |-> 0] /\ lock = 0 /\ loginCrashes = 0 /\ tries = 0
      /\ sent = [k \in Kinds |-> IF k = "backup" THEN 1 ELSE 0] /\ live = {<<"backup", 1>>}
      /\ attempt = [c \in Visitors |-> NoAttempt]
      /\ accepted = [x \in Codes |-> 0]
  BY DEF LoginInit, Codes
<1>2. \A c \in Visitors : /\ Shaped(attempt[c]) /\ ~Past(attempt[c])
                          /\ \A y : ~Spends(attempt[c], y)
  BY <1>1, NoAttemptIsNothing
<1>3. MaxSent \in Nat /\ 1 <= MaxSent
  BY ThresholdAssumption
<1>4. <<"backup", 1>> \in Issued
  BY <1>1, <1>3 DEF Issued, Kinds
<1>5. LoginTyped
  BY <1>1, <1>2, <1>3, <1>4 DEF LoginTyped
<1>6. TriesAreCounted
  <2>1. /\ Cardinality(TheUncounted) \in Nat /\ Cardinality(ThePending) \in Nat
        /\ Threshold - 1 \in Nat /\ count["attempts"] = 0
    BY <1>1, CardinalitiesAreNumbers, ThresholdAssumption DEF Counters
  <2> QED BY <1>1, <2>1 DEF TriesAreCounted
<1>7. CodesAreSpentOnce
  BY <1>1, <1>2 DEF CodesAreSpentOnce, Unspent
<1>8. CountersExpire /\ OvertakenByLock
  BY <1>1 DEF CountersExpire, OvertakenByLock
<1> QED BY <1>5, <1>6, <1>7, <1>8 DEF LoginInv

LEMMA LoginKeeps == LoginInv /\ [LoginNext]_loginVars => LoginInv'
<1> SUFFICES ASSUME LoginInv, [LoginNext]_loginVars PROVE LoginInv'
  OBVIOUS
<1>1. ASSUME NEW c \in Visitors, NEW factor, NEW right, PasswordLogin(c, right, factor)
      PROVE  LoginInv'
  <2>1. PICK pc, key : pc = "check" /\ key = "attempts"
    OBVIOUS
  <2>2. BeginAttempt(c, pc, right, NoCode, factor, key) /\ key \in Counters
    BY <1>1, <2>1 DEF PasswordLogin, Counters
  <2> QED BY <2>1, <2>2, BeginKeeps
<1>2. ASSUME NEW c \in Visitors, NEW factor, NEW x, FollowLink(c, x, factor)
      PROVE  LoginInv'
  <2>1. PICK pc, key : pc = "link" /\ key = "attempts"
    OBVIOUS
  <2>2. BeginAttempt(c, pc, TRUE, x, factor, key) /\ key \in Counters
    BY <1>2, <2>1 DEF FollowLink, Counters
  <2> QED BY <2>1, <2>2, BeginKeeps
<1>3. ASSUME NEW c \in Visitors, NEW k \in {"link", "sms"}, RequestCode(c, k)
      PROVE  LoginInv'
  <2>1. PICK pc : pc = "incr"
    OBVIOUS
  <2>2. BeginAttempt(c, pc, TRUE, NoCode, NoCode, k) /\ k \in Counters /\ k # "attempts"
    BY <1>3, <2>1 DEF RequestCode, Counters
  <2> QED BY <2>1, <2>2, BeginKeeps
<1>4. ASSUME NEW c \in Visitors,
             \/ LinkRead(c) \/ LinkSpend(c)
             \/ Check(c) \/ Password(c) \/ Factor(c) \/ FactorSpend(c) \/ Clear(c)
             \/ Incr(c) \/ Expire(c) \/ Lock(c) \/ Refused(c) \/ Send(c)
             \/ CrashAttempt(c)
      PROVE  LoginInv'
  BY <1>4, LinkReadKeeps, LinkSpendKeeps, CheckKeeps, PasswordKeeps, FactorKeeps,
     FactorSpendKeeps, ClearKeeps, IncrKeeps, ExpireKeeps, LockKeeps, RefusedKeeps, SendKeeps,
     CrashKeeps
<1>5. CASE Regenerate
  BY <1>5, RegenerateKeeps
<1>6. ASSUME NEW k \in Counters, WindowPasses(k) PROVE LoginInv'
  BY <1>6, WindowKeeps
<1>7. CASE LockPasses
  BY <1>7, LockPassesKeeps
<1>8. ASSUME NEW x \in Issued, CodeExpires(x) PROVE LoginInv'
  BY <1>8, CodeExpiresKeeps
<1>9. CASE UNCHANGED loginVars
  <2>1. UNCHANGED <<count, expiring, abandoned, lock, sent, live, accepted, overlapped, attempt,
                    loginCrashes, tries>>
    BY <1>9 DEF loginVars, counters, codes
  <2>2. LoginTyped' /\ CodesAreSpentOnce'
    BY <2>1 DEF LoginInv, LoginTyped, CodesAreSpentOnce, Unspent, Issued
  <2>3. TriesAreCounted' /\ CountersExpire' /\ OvertakenByLock'
    BY <2>1 DEF LoginInv, TriesAreCounted, TheUncounted, ThePending, CountersExpire, Attempting,
                OvertakenByLock
  <2> QED BY <2>2, <2>3 DEF LoginInv
<1> QED BY <1>1, <1>2, <1>3, <1>4, <1>5, <1>6, <1>7, <1>8, <1>9 DEF LoginNext

(* Guessing (lockout.service.ts:10 and :12): at whatever threshold and     *)
(* with however many requests at a time, no more wrong secrets are taken   *)
(* than the threshold allows, the requests in flight and those that died;  *)
(* a code is accepted once unless two requests read it together; and no    *)
(* counter stands still but after a death between INCR and EXPIRE.         *)
THEOREM GuessingHolds == LoginSpec => []GuessingIsBounded
<1>1. LoginInv => GuessingIsBounded
  <2> SUFFICES ASSUME LoginInv PROVE GuessingIsBounded
    OBVIOUS
  <2>1. TriesBounded
    <3>1. /\ tries \in Nat /\ loginCrashes \in Nat /\ Threshold \in Nat
          /\ tries <= Threshold - 1 + Cardinality(ThePending) + loginCrashes
      BY ThresholdAssumption DEF LoginInv, LoginTyped, TriesAreCounted
    <3> QED BY <3>1, CardinalitiesAreNumbers DEF TriesBounded
  <2>2. CodeWorksOnce
    <3>1. Issued \subseteq Codes /\ accepted \in [Codes -> Nat]
      BY DEF LoginInv, LoginTyped, Issued, Codes
    <3>2. \A x \in Codes \ overlapped : accepted[x] <= 1 /\ accepted[x] \in Nat
      BY <3>1 DEF LoginInv, CodesAreSpentOnce, Unspent
    <3>3. \A x \in Codes \ overlapped : ~(accepted[x] > 1)
      BY <3>2
    <3> QED BY <3>1, <3>3 DEF CodeWorksOnce
  <2> QED BY <2>1, <2>2 DEF LoginInv, GuessingIsBounded
<1> QED BY <1>1, LoginStart, LoginKeeps, PTL DEF LoginSpec

(* A lock that is in place (lockout.service.ts:38) is replaced or lifted   *)
(* by a request only when that had passed the check before it was placed.  *)
THEOREM LocksRunTheirTime == LoginSpec => LockIsStable
<1>1. ASSUME LoginInv, [LoginNext]_loginVars, lock # 0, lock' # lock, attempt' # attempt
      PROVE  \E c \in Attempting : attempt[c].overtaken /\ attempt'[c] = NoAttempt
  <2>1. PICK c \in Visitors : Clear(c) \/ Lock(c)
    BY <1>1 DEF LoginNext, loginVars, counters, codes, PasswordLogin, FollowLink, RequestCode,
         BeginAttempt, LinkRead, LinkSpend, Check, Password, Factor, FactorSpend, Incr, Expire,
         Refused, Send, CrashAttempt, Regenerate, WindowPasses, LockPasses, CodeExpires
  <2>2. attempt'[c] = NoAttempt
    BY <1>1, <2>1 DEF Clear, Lock, EndAttempt, LoginInv, LoginTyped
  <2>3. Past(attempt[c])
    <3>1. CASE Clear(c)
      BY <3>1 DEF Clear, Past
    <3>2. CASE Lock(c)
      BY <1>1, <3>2, NoAttemptIsNothing DEF Lock, Past, LoginInv, LoginTyped, Shaped, NoAttempt
    <3> QED BY <2>1, <3>1, <3>2
  <2>4. c \in Attempting /\ attempt[c].overtaken
    BY <1>1, <2>3, NoAttemptIsNothing DEF LoginInv, OvertakenByLock, Attempting
  <2> QED BY <2>2, <2>4
<1>2. LoginInv /\ [LoginNext]_loginVars =>
        [(lock # 0 /\ lock' # lock /\ attempt' # attempt)
           => \E c \in Attempting : attempt[c].overtaken /\ attempt'[c] = NoAttempt]_loginVars
  BY <1>1
<1> QED BY <1>2, LoginStart, LoginKeeps, PTL DEF LoginSpec, LockIsStable

-----------------------------------------------------------------------------
(* Refresh tokens.  What a request in flight is for them: it is about to   *)
(* exchange a token a client presented; it has consumed one and not yet    *)
(* registered the next; it logs out with one it has blacklisted.           *)

CallShaped(x) ==
  x = Idle \/
    /\ x \in [kind : {x.kind}, pc : {x.pc}, sid : {x.sid}, jti : {x.jti}, read : {x.read},
              ids : {x.ids}, spent : {x.spent}]
    /\ x.pc # "idle"

(* What a request may be, the tokens being `iss` and the blacklist `bl`.   *)
CallHolds(x, iss, bl) ==
  /\ CallShaped(x)
  /\ x.pc = "consume" /\ x.kind = "refresh" =>
       x.jti \in 1..Len(iss) /\ x.sid = iss[x.jti]
  /\ x.pc = "consume" /\ x.kind # "refresh" => x.kind = "logout" /\ x.jti \in bl
  /\ x.pc = "blacklist" => x.kind = "logout"
  /\ x.pc = "issue" => x.sid \in SessionIds

Exchanges(x, s) == x.pc = "issue" /\ x.sid = s

TokensTyped ==
  /\ call = [c \in Calls |-> call[c]] /\ \A c \in Calls : CallHolds(call[c], issued, blacklist)
  /\ issued \in Seq(SessionIds) /\ active \subseteq Tokens

(* Of a session one token at most can be exchanged, or is being so.        *)
OneIsLive ==
  /\ \A j, k \in active : issued[j] = issued[k] => j = k
  /\ \A c \in Calls, j \in active : ~Exchanges(call[c], issued[j])
  /\ \A c, d \in Calls, s \in SessionIds : Exchanges(call[c], s) /\ Exchanges(call[d], s) => c = d

TokensInv == TokensTyped /\ OneIsLive

LEMMA IdleIsNothing ==
  (\A iss, bl : CallHolds(Idle, iss, bl)) /\ \A s : ~Exchanges(Idle, s)
<1>1. Idle.pc = "idle"
  BY DEF Idle
<1> QED BY <1>1 DEF CallHolds, CallShaped, Exchanges

OneCallIs(c, y) ==
  /\ call' = [d \in Calls |-> call'[d]]
  /\ call'[c] = y /\ \A d \in Calls \ {c} : call'[d] = call[d]

LEMMA CallMoves ==
  ASSUME TokensInv, NEW c \in Calls, NEW y, call' = [call EXCEPT ![c] = y]
  PROVE  OneCallIs(c, y)
BY DEF TokensInv, TokensTyped, OneCallIs

(* A request that begins, and one that goes on with other fields.          *)
LEMMA CallBegins ==
  ASSUME TokensInv, NEW c \in Calls, NEW kind, NEW pc, NEW s, NEW j, Begin(c, kind, pc, s, j),
         pc # "idle"
  PROVE  \E y : /\ OneCallIs(c, y) /\ CallShaped(y)
                /\ y.kind = kind /\ y.pc = pc /\ y.sid = s /\ y.jti = j /\ y.ids = << >>
                /\ y.read = (IF kind = "touch" THEN record[s] ELSE None)
<1>1. PICK y : y = [kind |-> kind, pc |-> pc, sid |-> s, jti |-> j,
                    read |-> IF kind = "touch" THEN record[s] ELSE None, ids |-> << >>, spent |-> None]
  OBVIOUS
<1>2. /\ y \in [kind : {y.kind}, pc : {y.pc}, sid : {y.sid}, jti : {y.jti}, read : {y.read},
                ids : {y.ids}, spent : {y.spent}]
      /\ y.kind = kind /\ y.pc = pc /\ y.sid = s /\ y.jti = j /\ y.ids = << >>
      /\ y.read = (IF kind = "touch" THEN record[s] ELSE None)
  BY <1>1
<1>3. CallShaped(y)
  BY <1>2 DEF CallShaped
<1>4. call' = [call EXCEPT ![c] = y]
  BY <1>1 DEF Begin
<1> QED BY <1>2, <1>3, <1>4, CallMoves

LEMMA CallIsRecord ==
  ASSUME TokensInv, NEW c \in Calls, call[c].pc # "idle"
  PROVE  CallShaped(call[c]) /\ call[c] # Idle
BY DEF TokensInv, TokensTyped, CallHolds, Idle

(* A step that registers no token and after which nobody exchanges one     *)
(* that did not before.                                                    *)
LEMMA NothingIssued ==
  ASSUME TokensInv, NEW c \in Calls, NEW y, OneCallIs(c, y), UNCHANGED issued,
         active' \subseteq active, blacklist \subseteq blacklist',
         CallHolds(y, issued, blacklist'), y.pc # "issue"
  PROVE  TokensInv'
<1>1. TokensTyped /\ OneIsLive
  BY DEF TokensInv
<1>2. \A d \in Calls : CallHolds(call'[d], issued', blacklist')
  <2>1. \A d \in Calls \ {c} : CallHolds(call[d], issued, blacklist')
    BY <1>1 DEF TokensTyped, CallHolds
  <2> QED BY <2>1 DEF OneCallIs
<1>3. TokensTyped'
  BY <1>1, <1>2 DEF TokensTyped, OneCallIs, Tokens
<1>4. \A d \in Calls : \A s : Exchanges(call'[d], s) => Exchanges(call[d], s)
  BY DEF OneCallIs, Exchanges
<1>5. OneIsLive'
  BY <1>1, <1>4 DEF OneIsLive
<1> QED BY <1>3, <1>5 DEF TokensInv

(* A step that leaves the tokens alone and takes a request to a place      *)
(* where it holds none.                                                    *)
LEMMA CallPasses ==
  ASSUME TokensInv, NEW c \in Calls, NEW y, OneCallIs(c, y), CallShaped(y),
         UNCHANGED <<issued, blacklist>>, active' \subseteq active,
         y.pc \notin {"issue", "consume", "blacklist"}
  PROVE  TokensInv'
<1>1. CallHolds(y, issued, blacklist')
  BY DEF CallHolds
<1> QED BY <1>1, NothingIssued

LEMMA CallEnds ==
  ASSUME TokensInv, NEW c \in Calls, Done(c),
         UNCHANGED <<issued, blacklist>>, active' \subseteq active
  PROVE  TokensInv'
<1>1. OneCallIs(c, Idle)
  BY CallMoves DEF Done
<1>2. CallShaped(Idle) /\ Idle.pc \notin {"issue", "consume", "blacklist"}
  BY DEF CallShaped, Idle
<1> QED BY <1>1, <1>2, CallPasses

-----------------------------------------------------------------------------
(* The steps that hold no token.                                           *)

LEMMA LimitKeeps ==
  ASSUME TokensInv, NEW c \in Calls, Limit(c)
  PROVE  TokensInv'
<1>1. PICK y : y = [call[c] EXCEPT !.pc = "evict",
                 !.ids = SubSeq(index, 1, Len(index) - MaxConcurrent + 1)]
  OBVIOUS
<1>2. /\ call[c].pc = "limit" /\ UNCHANGED <<issued, active, blacklist>>
      /\ call' = [call EXCEPT ![c] = y]
  BY <1>1 DEF Limit, TokensInv, TokensTyped, store, revocations, history
<1>3. /\ y \in [kind : {y.kind}, pc : {y.pc}, sid : {y.sid}, jti : {y.jti}, read : {y.read},
                ids : {y.ids}, spent : {y.spent}]
      /\ y.pc = "evict"
  BY <1>1, <1>2, CallIsRecord DEF CallShaped
<1>4. CallShaped(y) /\ OneCallIs(c, y)
  BY <1>2, <1>3, CallMoves DEF CallShaped
<1> QED BY <1>2, <1>3, <1>4, CallPasses

LEMMA DropKeeps ==
  ASSUME TokensInv, NEW c \in Calls, Drop(c)
  PROVE  TokensInv'
<1>1. PICK y : y = [call[c] EXCEPT !.pc = "evict", !.ids = Tail(@)]
  OBVIOUS
<1>2. /\ call[c].pc = "drop" /\ UNCHANGED <<issued, active, blacklist>>
      /\ call' = [call EXCEPT ![c] = y]
  BY <1>1 DEF Drop, TokensInv, TokensTyped, store, revocations, history
<1>3. /\ y \in [kind : {y.kind}, pc : {y.pc}, sid : {y.sid}, jti : {y.jti}, read : {y.read},
                ids : {y.ids}, spent : {y.spent}]
      /\ y.pc = "evict"
  BY <1>1, <1>2, CallIsRecord DEF CallShaped
<1>4. CallShaped(y) /\ OneCallIs(c, y)
  BY <1>2, <1>3, CallMoves DEF CallShaped
<1> QED BY <1>2, <1>3, <1>4, CallPasses

LEMMA RevokeRemoveKeeps ==
  ASSUME TokensInv, NEW c \in Calls, RevokeRemove(c)
  PROVE  TokensInv'
<1>1. PICK y : y = [call[c] EXCEPT !.pc = "del"]
  OBVIOUS
<1>2. /\ call[c].pc = "remove" /\ UNCHANGED <<issued, active, blacklist>>
      /\ call' = [call EXCEPT ![c] = y]
  BY <1>1 DEF RevokeRemove, TokensInv, TokensTyped, store, revocations, history, Goto
<1>3. /\ y \in [kind : {y.kind}, pc : {y.pc}, sid : {y.sid}, jti : {y.jti}, read : {y.read},
                ids : {y.ids}, spent : {y.spent}]
      /\ y.pc = "del"
  BY <1>1, <1>2, CallIsRecord DEF CallShaped
<1>4. CallShaped(y) /\ OneCallIs(c, y)
  BY <1>2, <1>3, CallMoves DEF CallShaped
<1> QED BY <1>2, <1>3, <1>4, CallPasses

LEMMA SetEpochKeeps ==
  ASSUME TokensInv, NEW c \in Calls, SetEpoch(c)
  PROVE  TokensInv'
<1>1. PICK y : y = [call[c] EXCEPT !.pc = "invalidate"]
  OBVIOUS
<1>2. /\ call[c].pc = "epoch" /\ UNCHANGED <<issued, active, blacklist>>
      /\ call' = [call EXCEPT ![c] = y]
  BY <1>1 DEF SetEpoch, TokensInv, TokensTyped, store, revocations, history, Goto
<1>3. /\ y \in [kind : {y.kind}, pc : {y.pc}, sid : {y.sid}, jti : {y.jti}, read : {y.read},
                ids : {y.ids}, spent : {y.spent}]
      /\ y.pc = "invalidate"
  BY <1>1, <1>2, CallIsRecord DEF CallShaped
<1>4. CallShaped(y) /\ OneCallIs(c, y)
  BY <1>2, <1>3, CallMoves DEF CallShaped
<1> QED BY <1>2, <1>3, <1>4, CallPasses

LEMMA ListKeeps ==
  ASSUME TokensInv, NEW c \in Calls, List(c)
  PROVE  TokensInv'
<1>1. PICK y : y = [call[c] EXCEPT !.pc = "each", !.ids = index]
  OBVIOUS
<1>2. /\ call[c].pc = "list" /\ UNCHANGED <<issued, active, blacklist>>
      /\ call' = [call EXCEPT ![c] = y]
  BY <1>1 DEF List, TokensInv, TokensTyped, store, revocations, history
<1>3. /\ y \in [kind : {y.kind}, pc : {y.pc}, sid : {y.sid}, jti : {y.jti}, read : {y.read},
                ids : {y.ids}, spent : {y.spent}]
      /\ y.pc = "each"
  BY <1>1, <1>2, CallIsRecord DEF CallShaped
<1>4. CallShaped(y) /\ OneCallIs(c, y)
  BY <1>2, <1>3, CallMoves DEF CallShaped
<1> QED BY <1>2, <1>3, <1>4, CallPasses

LEMMA RemoveEachKeeps ==
  ASSUME TokensInv, NEW c \in Calls, RemoveEach(c)
  PROVE  TokensInv'
<1>1. PICK y : y = [call[c] EXCEPT !.ids = Tail(@)]
  OBVIOUS
<1>2. /\ call[c].pc = "each" /\ UNCHANGED <<issued, active, blacklist>>
      /\ call' = [call EXCEPT ![c] = y]
  BY <1>1 DEF RemoveEach, TokensInv, TokensTyped, store, revocations, history
<1>3. /\ y \in [kind : {y.kind}, pc : {y.pc}, sid : {y.sid}, jti : {y.jti}, read : {y.read},
                ids : {y.ids}, spent : {y.spent}]
      /\ y.pc = "each"
  BY <1>1, <1>2, CallIsRecord DEF CallShaped
<1>4. CallShaped(y) /\ OneCallIs(c, y)
  BY <1>2, <1>3, CallMoves DEF CallShaped
<1> QED BY <1>2, <1>3, <1>4, CallPasses

LEMMA CreateKeeps ==
  ASSUME TokensInv, NEW c \in Calls, Create(c)
  PROVE  TokensInv'
BY CallEnds DEF Create, store, revocations, history

LEMMA DenyKeeps ==
  ASSUME TokensInv, NEW c \in Calls, Deny(c)
  PROVE  TokensInv'
BY CallEnds DEF Deny, store, revocations, history

LEMMA RotateWriteKeeps ==
  ASSUME TokensInv, NEW c \in Calls, RotateWrite(c)
  PROVE  TokensInv'
BY CallEnds DEF RotateWrite, store, revocations, history

LEMMA TouchWriteKeeps ==
  ASSUME TokensInv, NEW c \in Calls, TouchWrite(c)
  PROVE  TokensInv'
BY CallEnds DEF TouchWrite, store, revocations, history

LEMMA EvictKeeps ==
  ASSUME TokensInv, NEW c \in Calls, Evict(c)
  PROVE  TokensInv'
<1>1. PICK p, r : /\ p = (IF record[Head(call[c].ids)] = None THEN "drop" ELSE "remove")
                  /\ r = record[Head(call[c].ids)]
  OBVIOUS
<1>2. PICK y : y = [call[c] EXCEPT !.pc = p, !.read = r]
  OBVIOUS
<1>3. /\ call[c].pc = "evict" /\ UNCHANGED <<issued, active, blacklist>>
      /\ call' = [call EXCEPT ![c] = y]
  BY <1>1, <1>2 DEF Evict, TokensInv, TokensTyped, store, revocations, history
<1>4. /\ y \in [kind : {y.kind}, pc : {y.pc}, sid : {y.sid}, jti : {y.jti}, read : {y.read},
                ids : {y.ids}, spent : {y.spent}]
      /\ y.pc = p /\ p \in {"drop", "remove"}
  BY <1>1, <1>2, <1>3, CallIsRecord DEF CallShaped
<1>5. CallShaped(y) /\ OneCallIs(c, y)
  BY <1>3, <1>4, CallMoves DEF CallShaped
<1> QED BY <1>3, <1>4, <1>5, CallPasses

LEMMA RotateReadKeeps ==
  ASSUME TokensInv, NEW c \in Calls, RotateRead(c)
  PROVE  TokensInv'
<1>1. CASE record[call[c].sid] = None
  BY <1>1, CallEnds DEF RotateRead, store, revocations
<1>2. CASE record[call[c].sid] # None
  <2>1. PICK y : y = [call[c] EXCEPT !.pc = "rotated", !.read = record[call[c].sid]]
    OBVIOUS
  <2>2. /\ call[c].pc = "rotate" /\ UNCHANGED <<issued, active, blacklist>>
        /\ call' = [call EXCEPT ![c] = y]
    BY <1>2, <2>1 DEF RotateRead, TokensInv, TokensTyped, store, revocations
  <2>3. /\ y \in [kind : {y.kind}, pc : {y.pc}, sid : {y.sid}, jti : {y.jti}, read : {y.read},
                  ids : {y.ids}, spent : {y.spent}]
        /\ y.pc = "rotated"
    BY <2>1, <2>2, CallIsRecord DEF CallShaped
  <2>4. CallShaped(y) /\ OneCallIs(c, y)
    BY <2>2, <2>3, CallMoves DEF CallShaped
  <2> QED BY <2>2, <2>3, <2>4, CallPasses
<1> QED BY <1>1, <1>2

LEMMA AfterRevokeKeeps ==
  ASSUME TokensInv, NEW c \in Calls, AfterRevoke(c), call[c].pc \in {"get", "del"},
         UNCHANGED <<issued, blacklist>>, active' \subseteq active
  PROVE  TokensInv'
<1> DEFINE x == call[c]
           After ==
             CASE x.kind = "login" -> [x EXCEPT !.pc = "evict", !.ids = Tail(x.ids), !.read = None]
               [] x.kind = "logout" -> [x EXCEPT !.pc = "blacklist", !.read = None]
               [] OTHER -> Idle
<1>11. call' = [call EXCEPT ![c] = After]
  BY DEF AfterRevoke
<1> HIDE DEF After
<1>12. PICK v : call' = [call EXCEPT ![c] = v] /\ v = After
  BY <1>11
<1>0. /\ x.kind = "login" => v = [x EXCEPT !.pc = "evict", !.ids = Tail(x.ids), !.read = None]
      /\ x.kind = "logout" => v = [x EXCEPT !.pc = "blacklist", !.read = None]
      /\ x.kind \notin {"login", "logout"} => v = Idle
  BY <1>12 DEF After
<1>1. CASE call[c].kind = "login"
  <2>1. PICK y : y = [x EXCEPT !.pc = "evict", !.ids = Tail(x.ids), !.read = None]
    OBVIOUS
  <2>2. call' = [call EXCEPT ![c] = y]
    BY <1>12, <1>0, <1>1, <2>1
  <2>3. /\ y \in [kind : {y.kind}, pc : {y.pc}, sid : {y.sid}, jti : {y.jti}, read : {y.read},
                  ids : {y.ids}, spent : {y.spent}]
        /\ y.pc = "evict"
    BY <2>1, CallIsRecord DEF CallShaped
  <2>4. CallShaped(y) /\ OneCallIs(c, y)
    BY <2>2, <2>3, CallMoves DEF CallShaped
  <2> QED BY <2>3, <2>4, CallPasses
<1>2. CASE call[c].kind = "logout"
  <2>1. PICK y : y = [call[c] EXCEPT !.pc = "blacklist", !.read = None]
    OBVIOUS
  <2>2. call' = [call EXCEPT ![c] = y]
    BY <1>12, <1>0, <1>2, <2>1
  <2>3. /\ y \in [kind : {y.kind}, pc : {y.pc}, sid : {y.sid}, jti : {y.jti}, read : {y.read},
                  ids : {y.ids}, spent : {y.spent}]
        /\ y.pc = "blacklist" /\ y.kind = "logout"
    BY <1>2, <2>1, CallIsRecord DEF CallShaped
  <2>4. CallShaped(y) /\ OneCallIs(c, y)
    BY <2>2, <2>3, CallMoves DEF CallShaped
  <2>5. CallHolds(y, issued, blacklist')
    BY <2>3, <2>4 DEF CallHolds
  <2> QED BY <2>3, <2>4, <2>5, NothingIssued
<1>3. CASE call[c].kind \notin {"login", "logout"}
  <2>1. Done(c)
    BY <1>12, <1>0, <1>3 DEF Done
  <2> QED BY <2>1, CallEnds
<1> QED BY <1>1, <1>2, <1>3

LEMMA RevokeReadKeeps ==
  ASSUME TokensInv, NEW c \in Calls, RevokeRead(c)
  PROVE  TokensInv'
<1>1. CASE record[call[c].sid] = None
  BY <1>1, AfterRevokeKeeps DEF RevokeRead, store, revocations, history
<1>2. CASE record[call[c].sid] # None
  <2>1. PICK y : y = [call[c] EXCEPT !.pc = "remove", !.read = record[call[c].sid]]
    OBVIOUS
  <2>2. /\ call[c].pc = "get" /\ UNCHANGED <<issued, active, blacklist>>
        /\ call' = [call EXCEPT ![c] = y]
    BY <1>2, <2>1 DEF RevokeRead, TokensInv, TokensTyped, store, revocations, history
  <2>3. /\ y \in [kind : {y.kind}, pc : {y.pc}, sid : {y.sid}, jti : {y.jti}, read : {y.read},
                  ids : {y.ids}, spent : {y.spent}]
        /\ y.pc = "remove"
    BY <2>1, <2>2, CallIsRecord DEF CallShaped
  <2>4. CallShaped(y) /\ OneCallIs(c, y)
    BY <2>2, <2>3, CallMoves DEF CallShaped
  <2> QED BY <2>2, <2>3, <2>4, CallPasses
<1> QED BY <1>1, <1>2

LEMMA RevokeDelKeeps ==
  ASSUME TokensInv, NEW c \in Calls, RevokeDel(c)
  PROVE  TokensInv'
BY AfterRevokeKeeps DEF RevokeDel, revocations, history

LEMMA InvalidateKeeps ==
  ASSUME TokensInv, NEW c \in Calls, Invalidate(c)
  PROVE  TokensInv'
<1>1. /\ call[c].pc = "invalidate" /\ UNCHANGED <<issued, blacklist>>
      /\ active' \subseteq active
  BY DEF Invalidate, revocations, history
<1>2. CASE call[c].kind = "own"
  <2>1. Done(c)
    BY <1>2 DEF Invalidate, Done, TokensInv, TokensTyped
  <2> QED BY <1>1, <2>1, CallEnds
<1>3. CASE call[c].kind # "own"
  <2>1. PICK y : y = IF call[c].kind = "mine" THEN [call[c] EXCEPT !.kind = "own", !.pc = "epoch"]
                     ELSE [call[c] EXCEPT !.pc = "list"]
    OBVIOUS
  <2>2. call' = [call EXCEPT ![c] = y]
    BY <1>3, <2>1 DEF Invalidate, TokensInv, TokensTyped
  <2>3. /\ y \in [kind : {y.kind}, pc : {y.pc}, sid : {y.sid}, jti : {y.jti}, read : {y.read},
                  ids : {y.ids}, spent : {y.spent}]
        /\ y.pc \in {"epoch", "list"}
    BY <1>1, <2>1, CallIsRecord DEF CallShaped
  <2>4. CallShaped(y) /\ OneCallIs(c, y)
    BY <2>2, <2>3, CallMoves DEF CallShaped
  <2> QED BY <1>1, <2>3, <2>4, CallPasses
<1> QED BY <1>2, <1>3

LEMMA RemoveIndexKeeps ==
  ASSUME TokensInv, NEW c \in Calls, RemoveIndex(c)
  PROVE  TokensInv'
<1>1. call[c].pc = "each" /\ UNCHANGED <<issued, active, blacklist>>
  BY DEF RemoveIndex, store, revocations
<1>2. CASE Done(c)
  BY <1>1, <1>2, CallEnds
<1>3. CASE Goto(c, "invalidate")
  <2>1. PICK y : y = [call[c] EXCEPT !.pc = "invalidate"]
    OBVIOUS
  <2>2. call' = [call EXCEPT ![c] = y]
    BY <1>3, <2>1 DEF Goto, TokensInv, TokensTyped
  <2>3. /\ y \in [kind : {y.kind}, pc : {y.pc}, sid : {y.sid}, jti : {y.jti}, read : {y.read},
                  ids : {y.ids}, spent : {y.spent}]
        /\ y.pc = "invalidate"
    BY <1>1, <2>1, CallIsRecord DEF CallShaped
  <2>4. CallShaped(y) /\ OneCallIs(c, y)
    BY <2>2, <2>3, CallMoves DEF CallShaped
  <2> QED BY <1>1, <2>3, <2>4, CallPasses
<1> QED BY <1>2, <1>3 DEF RemoveIndex

LEMMA CrashKeepsTokens ==
  ASSUME TokensInv, NEW c \in Calls, Crash(c)
  PROVE  TokensInv'
BY CallEnds DEF Crash, store, revocations

-----------------------------------------------------------------------------
(* The steps that hold one.                                                *)

LEMMA LogoutBlacklistKeeps ==
  ASSUME TokensInv, NEW c \in Calls, LogoutBlacklist(c)
  PROVE  TokensInv'
<1>1. PICK y : y = [call[c] EXCEPT !.pc = "consume"]
  OBVIOUS
<1>2. /\ call[c].pc = "blacklist" /\ UNCHANGED <<issued, active>>
      /\ blacklist' = blacklist \cup {call[c].jti}
      /\ call' = [call EXCEPT ![c] = y]
  BY <1>1 DEF LogoutBlacklist, Goto, TokensInv, TokensTyped, store, history
<1>3. /\ y \in [kind : {y.kind}, pc : {y.pc}, sid : {y.sid}, jti : {y.jti}, read : {y.read},
                ids : {y.ids}, spent : {y.spent}]
      /\ y.pc = "consume" /\ y.kind = call[c].kind /\ y.jti = call[c].jti
  BY <1>1, <1>2, CallIsRecord DEF CallShaped
<1>4. CallShaped(y) /\ OneCallIs(c, y)
  BY <1>2, <1>3, CallMoves DEF CallShaped
<1>5. call[c].kind = "logout"
  BY <1>2 DEF TokensInv, TokensTyped, CallHolds
<1>6. CallHolds(y, issued, blacklist')
  BY <1>2, <1>3, <1>4, <1>5 DEF CallHolds
<1>7. blacklist \subseteq blacklist'
  BY <1>2
<1> QED BY <1>2, <1>3, <1>4, <1>6, <1>7, NothingIssued

LEMMA LogoutConsumeKeeps ==
  ASSUME TokensInv, NEW c \in Calls, LogoutConsume(c)
  PROVE  TokensInv'
<1>1. PICK y : y = [call[c] EXCEPT !.pc = "get", !.kind = "revoke"]
  OBVIOUS
<1>2. /\ call[c].pc = "consume" /\ call[c].kind = "logout"
      /\ UNCHANGED <<issued, blacklist>> /\ ConsumeKeys(call[c].jti)
      /\ call' = [call EXCEPT ![c] = y]
  BY <1>1 DEF LogoutConsume, TokensInv, TokensTyped, revocations, history
<1>3. /\ y \in [kind : {y.kind}, pc : {y.pc}, sid : {y.sid}, jti : {y.jti}, read : {y.read},
                ids : {y.ids}, spent : {y.spent}]
      /\ y.pc = "get"
  BY <1>1, <1>2, CallIsRecord DEF CallShaped
<1>4. CallShaped(y) /\ OneCallIs(c, y)
  BY <1>2, <1>3, CallMoves DEF CallShaped
<1>5. call[c].jti \in blacklist
  BY <1>2 DEF TokensInv, TokensTyped, CallHolds
<1>6. active' \subseteq active
  BY <1>2 DEF ConsumeKeys, store
<1>7. CallHolds(y, issued, blacklist')
  BY <1>3, <1>4 DEF CallHolds
<1> QED BY <1>2, <1>3, <1>4, <1>5, <1>6, <1>7, NothingIssued

(* A client's token: consumed if it is active, an alarm if it was used.    *)
LEMMA ConsumeKeepsTokens ==
  ASSUME TokensInv, NEW c \in Calls, Consume(c)
  PROVE  TokensInv'
<1> DEFINE x == call[c]
           j == call[c].jti
<1>1. /\ x.pc = "consume" /\ x.kind = "refresh"
      /\ UNCHANGED <<issued, blacklist>> /\ ConsumeKeys(j)
  BY DEF Consume, revocations
<1>2. /\ TokensTyped /\ OneIsLive /\ CallHolds(x, issued, blacklist)
      /\ CallShaped(x) /\ x # Idle
  BY <1>1, CallIsRecord DEF TokensInv, TokensTyped
<1>3. CASE j \in active
  <2>1. ConsumeResult(j) = "consumed"
    BY <1>3 DEF ConsumeResult
  <2>2. PICK y : y = [x EXCEPT !.pc = "issue", !.spent = j]
    OBVIOUS
  <2>3. call' = [call EXCEPT ![c] = y]
    BY <2>1, <2>2 DEF Consume
  <2>4. /\ y \in [kind : {y.kind}, pc : {y.pc}, sid : {y.sid}, jti : {y.jti}, read : {y.read},
                  ids : {y.ids}, spent : {y.spent}]
        /\ y.pc = "issue" /\ y.sid = x.sid
    BY <1>2, <2>2 DEF CallShaped
  <2>5. CallShaped(y) /\ OneCallIs(c, y)
    BY <2>3, <2>4, CallMoves DEF CallShaped
  <2>6. x.sid = issued[j] /\ j \in 1..Len(issued) /\ issued[j] \in SessionIds
    BY <1>1, <1>2 DEF CallHolds, TokensTyped
  <2>7. /\ active' = active \ {j}
        /\ issued' = issued /\ blacklist' = blacklist
    BY <1>1, <1>3, <2>1 DEF ConsumeKeys
  <2>8. TokensTyped'
    <3>1. CallHolds(y, issued, blacklist)
      BY <2>4, <2>5, <2>6 DEF CallHolds
    <3> QED BY <1>2, <2>5, <2>7, <3>1 DEF TokensTyped, OneCallIs, Tokens
  <2>9. OneIsLive'
    <3>1. \A s : Exchanges(y, s) => s = issued[j]
      BY <2>4, <2>6 DEF Exchanges
    <3>2. \A k \in active' : k \in active /\ issued[k] # issued[j]
      BY <1>2, <1>3, <2>7 DEF OneIsLive
    <3>3. \A d \in Calls : ~Exchanges(call[d], issued[j])
      BY <1>2, <1>3 DEF OneIsLive
    <3>4. \A d \in Calls \ {c} : call'[d] = call[d]
      BY <2>5 DEF OneCallIs
    <3>5. call'[c] = y
      BY <2>5 DEF OneCallIs
    <3>6. \A d \in Calls, k \in active' : ~Exchanges(call'[d], issued'[k])
      BY <1>2, <2>7, <3>1, <3>2, <3>4, <3>5 DEF OneIsLive
    <3>7. \A d, e \in Calls, s \in SessionIds :
            Exchanges(call'[d], s) /\ Exchanges(call'[e], s) => d = e
      BY <1>2, <3>1, <3>3, <3>4, <3>5 DEF OneIsLive
    <3>8. \A k, l \in active' : issued'[k] = issued'[l] => k = l
      BY <1>2, <2>7, <3>2 DEF OneIsLive
    <3> QED BY <3>6, <3>7, <3>8 DEF OneIsLive, Exchanges
  <2> QED BY <2>8, <2>9 DEF TokensInv
<1>4. CASE j \notin active
  <2>1. UNCHANGED active
    BY <1>1, <1>4 DEF ConsumeKeys, store
  <2>2. ConsumeResult(j) \in {"already_consumed", "reuse", "unknown"}
    BY <1>4 DEF ConsumeResult
  <2>3. CASE ConsumeResult(j) = "reuse"
    <3>1. PICK y : y = [x EXCEPT !.pc = "invalidate", !.kind = "reuse", !.sid = "all"]
      OBVIOUS
    <3>2. call' = [call EXCEPT ![c] = y]
      BY <2>3, <3>1 DEF Consume
    <3>3. /\ y \in [kind : {y.kind}, pc : {y.pc}, sid : {y.sid}, jti : {y.jti}, read : {y.read},
                    ids : {y.ids}, spent : {y.spent}]
          /\ y.pc = "invalidate"
      BY <1>2, <3>1 DEF CallShaped
    <3>4. CallShaped(y) /\ OneCallIs(c, y)
      BY <3>2, <3>3, CallMoves DEF CallShaped
    <3>5. CallHolds(y, issued, blacklist')
      BY <3>3, <3>4 DEF CallHolds
    <3> QED BY <1>1, <2>1, <3>3, <3>4, <3>5, NothingIssued
  <2>4. CASE ConsumeResult(j) # "reuse"
    <3>1. call' = [call EXCEPT ![c] = Idle]
      BY <2>2, <2>4 DEF Consume
    <3>2. OneCallIs(c, Idle)
      BY <3>1, CallMoves
    <3>3. CallHolds(Idle, issued, blacklist') /\ Idle.pc # "issue"
      BY IdleIsNothing DEF Idle
    <3> QED BY <1>1, <2>1, <3>2, <3>3, NothingIssued
  <2> QED BY <2>3, <2>4
<1> QED BY <1>3, <1>4

(* A token is registered for a session that has none.                      *)
LEMMA IssueKeeps ==
  ASSUME TokensInv, NEW c \in Calls, NEW y, OneCallIs(c, y), NEW s \in SessionIds, Issue(s),
         UNCHANGED blacklist,
         CallShaped(y), y.pc \notin {"consume", "blacklist", "issue"},
         \A k \in active : issued[k] # s, \A d \in Calls \ {c} : ~Exchanges(call[d], s)
  PROVE  TokensInv'
<1>1. TokensTyped /\ OneIsLive /\ issued \in Seq(SessionIds)
  BY DEF TokensInv, TokensTyped
<1> DEFINE n == Len(issued) + 1
<1>2. issued' = Append(issued, s) /\ active' = active \cup {n}
  BY DEF Issue
<1>3. /\ issued' \in Seq(SessionIds) /\ Len(issued') = n /\ issued'[n] = s
      /\ \A k \in 1..Len(issued) : issued'[k] = issued[k] /\ k \in 1..Len(issued')
      /\ n \in 1..Len(issued') /\ n \notin 1..Len(issued)
  BY <1>1, <1>2
<1>4. active \subseteq 1..Len(issued)
  BY <1>1 DEF TokensTyped, Tokens
<1> HIDE DEF n
<1>5. TokensTyped'
  <2>1. \A d \in Calls \ {c} : CallHolds(call[d], issued', blacklist')
    BY <1>1, <1>3 DEF TokensTyped, CallHolds
  <2>2. CallHolds(y, issued', blacklist')
    BY DEF CallHolds
  <2>3. active' \subseteq 1..Len(issued')
    BY <1>2, <1>3, <1>4
  <2> QED BY <1>3, <2>1, <2>2, <2>3 DEF TokensTyped, OneCallIs, Tokens
<1>6. OneIsLive'
  <2>1. \A d \in Calls : \A t : Exchanges(call'[d], t) => d # c /\ Exchanges(call[d], t)
    BY DEF OneCallIs, Exchanges
  <2>3. \A k \in active : issued'[k] = issued[k] /\ issued'[k] # s
    BY <1>3, <1>4
  <2>4. \A k, l \in active' : issued'[k] = issued'[l] => k = l
    <3> SUFFICES ASSUME NEW k \in active', NEW l \in active', issued'[k] = issued'[l]
                 PROVE  k = l
      OBVIOUS
    <3>1. CASE k \in active /\ l \in active
      BY <1>1, <2>3, <3>1 DEF OneIsLive
    <3>2. CASE k = n \/ l = n
      BY <1>2, <1>3, <2>3, <3>2
    <3> QED BY <1>2, <3>1, <3>2
  <2>5. \A d \in Calls, k \in active' : ~Exchanges(call'[d], issued'[k])
    <3> SUFFICES ASSUME NEW d \in Calls, NEW k \in active', Exchanges(call'[d], issued'[k])
                 PROVE  FALSE
      OBVIOUS
    <3>1. d # c /\ Exchanges(call[d], issued'[k])
      BY <2>1
    <3>2. CASE k \in active
      BY <1>1, <2>3, <3>1, <3>2 DEF OneIsLive
    <3>3. CASE k = n
      BY <1>3, <3>1, <3>3
    <3> QED BY <1>2, <3>2, <3>3
  <2> QED BY <1>1, <2>1, <2>4, <2>5 DEF OneIsLive
<1> QED BY <1>5, <1>6 DEF TokensInv

LEMMA IssueNextKeeps ==
  ASSUME TokensInv, NEW c \in Calls, IssueNext(c)
  PROVE  TokensInv'
<1>1. PICK y : y = [call[c] EXCEPT !.pc = "rotate", !.jti = Len(issued) + 1]
  OBVIOUS
<1>2. /\ call[c].pc = "issue" /\ Issue(call[c].sid)
      /\ UNCHANGED blacklist
      /\ call' = [call EXCEPT ![c] = y]
  BY <1>1 DEF IssueNext, TokensInv, TokensTyped, revocations, history
<1>3. /\ y \in [kind : {y.kind}, pc : {y.pc}, sid : {y.sid}, jti : {y.jti}, read : {y.read},
                ids : {y.ids}, spent : {y.spent}]
      /\ y.pc = "rotate"
  BY <1>1, <1>2, CallIsRecord DEF CallShaped
<1>4. CallShaped(y) /\ OneCallIs(c, y)
  BY <1>2, <1>3, CallMoves DEF CallShaped
<1>5. PICK s : s = call[c].sid
  OBVIOUS
<1>6. s \in SessionIds /\ Exchanges(call[c], s)
  BY <1>2, <1>5 DEF TokensInv, TokensTyped, CallHolds, Exchanges
<1>7. \A k \in active : issued[k] # s
  BY <1>6 DEF TokensInv, OneIsLive
<1>8. \A d \in Calls \ {c} : ~Exchanges(call[d], s)
  BY <1>6 DEF TokensInv, OneIsLive
<1> QED BY <1>2, <1>3, <1>4, <1>5, <1>6, <1>7, <1>8, IssueKeeps

LEMMA LoginKeepsTokens ==
  ASSUME TokensInv, NEW c \in Calls, NEW s \in SessionIds,
         Login(c, s)
  PROVE  TokensInv'
<1>1. PICK kind, pc, j : kind = "login" /\ pc = "limit" /\ j = Len(issued) + 1
  OBVIOUS
<1>2. /\ Begin(c, kind, pc, s, j) /\ Issue(s) /\ pc # "idle"
      /\ UNCHANGED blacklist
  BY <1>1 DEF Login, revocations
<1>3. PICK y : OneCallIs(c, y) /\ CallShaped(y) /\ y.pc = pc
  BY <1>2, CallBegins
<1>4. \A k \in active : issued[k] # s
  BY DEF Login, Of, TokensInv, TokensTyped
<1>5. \A d \in Calls : ~Exchanges(call[d], s)
  BY DEF Login, InFlight, Exchanges, Idle
<1> QED BY <1>1, <1>2, <1>3, <1>4, <1>5, IssueKeeps

(* Requests that begin with no token in hand.                              *)
LEMMA BeginPasses ==
  ASSUME TokensInv, NEW c \in Calls, NEW kind, NEW pc, NEW s, NEW j, Begin(c, kind, pc, s, j),
         pc \notin {"idle", "issue", "consume", "blacklist"}, Fresh
  PROVE  TokensInv'
<1>1. PICK y : OneCallIs(c, y) /\ CallShaped(y) /\ y.pc = pc
  BY CallBegins
<1>2. UNCHANGED <<issued, active, blacklist>>
  BY DEF Fresh, store, revocations
<1> QED BY <1>1, <1>2, CallPasses

LEMMA RefreshKeeps ==
  ASSUME TokensInv, NEW c \in Calls, NEW j \in Tokens, Refresh(c, j)
  PROVE  TokensInv'
<1>1. PICK kind, pc, s : kind = "refresh" /\ pc = "consume" /\ s = issued[j]
  OBVIOUS
<1>2. Begin(c, kind, pc, s, j) /\ pc # "idle" /\ Fresh
  BY <1>1 DEF Refresh
<1>3. PICK y : /\ OneCallIs(c, y) /\ CallShaped(y)
               /\ y.kind = kind /\ y.pc = pc /\ y.sid = s /\ y.jti = j
  BY <1>2, CallBegins
<1>4. UNCHANGED <<issued, active, blacklist>>
  BY <1>2 DEF Fresh, store, revocations
<1>5. CallHolds(y, issued, blacklist') /\ y.pc # "issue"
  BY <1>1, <1>3 DEF CallHolds, Tokens
<1> QED BY <1>3, <1>4, <1>5, NothingIssued

LEMMA TokensStart == SessionsInit => TokensInv
<1> SUFFICES ASSUME SessionsInit PROVE TokensInv
  OBVIOUS
<1>1. \A c \in Calls : call[c] = Idle
  BY DEF SessionsInit
<1>2. /\ issued = << >> /\ active = {} /\ call = [c \in Calls |-> Idle]
  BY DEF SessionsInit
<1>3. TokensTyped
  BY <1>1, <1>2, IdleIsNothing DEF TokensTyped
<1>4. OneIsLive
  BY <1>1, <1>2, IdleIsNothing DEF OneIsLive
<1> QED BY <1>3, <1>4 DEF TokensInv

LEMMA TokensStay ==
  ASSUME TokensInv, UNCHANGED <<issued, active, blacklist, call>>
  PROVE  TokensInv'
<1>1. TokensTyped'
  BY DEF TokensInv, TokensTyped, Tokens
<1>2. OneIsLive'
  BY DEF TokensInv, OneIsLive
<1> QED BY <1>1, <1>2 DEF TokensInv

LEMMA SessionsKeep == TokensInv /\ [SessionsNext]_sessionVars => TokensInv'
<1> SUFFICES ASSUME TokensInv, [SessionsNext]_sessionVars PROVE TokensInv'
  OBVIOUS
<1>1. ASSUME NEW c \in Calls, NEW s \in SessionIds, Login(c, s) \/ Revoke(c, s) \/ TouchRead(c, s)
      PROVE  TokensInv'
  <2>1. PICK kind, pc, none :
          /\ none = None
          /\ \/ kind = "revoke" /\ pc = "get" /\ Revoke(c, s)
             \/ kind = "touch" /\ pc = "touch" /\ TouchRead(c, s)
             \/ Login(c, s)
    BY <1>1
  <2>2. CASE Login(c, s)
    BY <2>2, LoginKeepsTokens
  <2>3. CASE ~Login(c, s)
    <3>1. Begin(c, kind, pc, s, none) /\ Fresh
          /\ pc \notin {"idle", "issue", "consume", "blacklist"}
      BY <2>1, <2>3 DEF Revoke, TouchRead
    <3> QED BY <3>1, BeginPasses
  <2> QED BY <2>2, <2>3
<1>2. ASSUME NEW c \in Calls, NEW j \in Tokens, Refresh(c, j) \/ Logout(c, j)
      PROVE  TokensInv'
  <2>1. CASE Refresh(c, j)
    BY <2>1, RefreshKeeps
  <2>2. CASE Logout(c, j)
    <3>1. PICK kind, pc, s : kind = "logout" /\ pc = "get" /\ s = issued[j]
      OBVIOUS
    <3>2. Begin(c, kind, pc, s, j) /\ Fresh
          /\ pc \notin {"idle", "issue", "consume", "blacklist"}
      BY <2>2, <3>1 DEF Logout
    <3> QED BY <3>2, BeginPasses
  <2> QED BY <1>2, <2>1, <2>2
<1>3. ASSUME NEW c \in Calls, RevokeAll(c)
      PROVE  TokensInv'
  <2>1. PICK kind, pc, s, none :
          /\ s = "all" /\ none = None
          /\ \/ kind = "password" /\ pc = "epoch"
             \/ kind = "mine" /\ pc = "list"
          /\ Begin(c, kind, pc, s, none)
    BY <1>3 DEF RevokeAll
  <2>2. Fresh /\ pc \notin {"idle", "issue", "consume", "blacklist"}
    BY <1>3, <2>1 DEF RevokeAll
  <2> QED BY <2>1, <2>2, BeginPasses
<1>4. ASSUME NEW c \in Calls,
             \/ Limit(c) \/ Evict(c) \/ Drop(c) \/ Create(c)
             \/ Deny(c) \/ RotateRead(c) \/ RotateWrite(c) \/ TouchWrite(c)
             \/ RevokeRead(c) \/ RevokeRemove(c) \/ RevokeDel(c)
             \/ SetEpoch(c) \/ Invalidate(c) \/ List(c)
             \/ RemoveEach(c) \/ RemoveIndex(c) \/ Crash(c)
      PROVE  TokensInv'
  BY <1>4, LimitKeeps, EvictKeeps, DropKeeps, CreateKeeps, DenyKeeps, RotateReadKeeps,
     RotateWriteKeeps, TouchWriteKeeps, RevokeReadKeeps, RevokeRemoveKeeps, RevokeDelKeeps,
     SetEpochKeeps, InvalidateKeeps, ListKeeps, RemoveEachKeeps, RemoveIndexKeeps,
     CrashKeepsTokens
<1>5. ASSUME NEW c \in Calls,
             Consume(c) \/ IssueNext(c) \/ LogoutBlacklist(c) \/ LogoutConsume(c)
      PROVE  TokensInv'
  BY <1>5, ConsumeKeepsTokens, IssueNextKeeps, LogoutBlacklistKeeps, LogoutConsumeKeeps
<1>6. ASSUME NEW j \in Tokens, MarkerExpires(j)
      PROVE  TokensInv'
  BY <1>6, TokensStay DEF MarkerExpires, revocations, history
<1>7. CASE UNCHANGED sessionVars
  BY <1>7, TokensStay DEF sessionVars, store, revocations, history
<1> QED BY <1>1, <1>2, <1>3, <1>4, <1>5, <1>6, <1>7 DEF SessionsNext

(* Only the consumption of a token raises the alarm.                       *)
LEMMA KindStays ==
  ASSUME TokensInv, NEW c \in Calls, call[c] # Idle, call[c].kind = "refresh",
         call'[c] # Idle, call'[c].kind = "reuse", [SessionsNext]_sessionVars
  PROVE  Consume(c)
<1> DEFINE x == call[c]
<1>1. /\ x \in [kind : {x.kind}, pc : {x.pc}, sid : {x.sid}, jti : {x.jti}, read : {x.read},
                ids : {x.ids}, spent : {x.spent}]
      /\ call = [d \in Calls |-> call[d]]
  BY DEF TokensInv, TokensTyped, CallHolds, CallShaped
<1>2. ASSUME NEW d \in Calls, NEW kind, NEW pc, NEW s, NEW j, Begin(d, kind, pc, s, j)
      PROVE  FALSE
  <2>1. d # c
    BY <1>2 DEF Begin
  <2> QED BY <1>1, <1>2, <2>1 DEF Begin
<1>3. ASSUME NEW d \in Calls, Done(d) PROVE FALSE
  BY <1>1, <1>3 DEF Done
<1>4. ASSUME NEW d \in Calls, NEW pc, Goto(d, pc) PROVE FALSE
  BY <1>1, <1>4 DEF Goto
<1>5. ASSUME NEW d \in Calls, Limit(d) \/ List(d) PROVE FALSE
  BY <1>1, <1>5 DEF Limit, List
<1>6. ASSUME NEW d \in Calls, Evict(d) PROVE FALSE
  BY <1>1, <1>6 DEF Evict
<1>7. ASSUME NEW d \in Calls, Drop(d) \/ RemoveEach(d) PROVE FALSE
  BY <1>1, <1>7 DEF Drop, RemoveEach
<1>8. ASSUME NEW d \in Calls, IssueNext(d) \/ LogoutConsume(d) PROVE FALSE
  BY <1>1, <1>8 DEF IssueNext, LogoutConsume
<1>9. ASSUME NEW d \in Calls, RotateRead(d) PROVE FALSE
  BY <1>1, <1>3, <1>9 DEF RotateRead
<1>10. ASSUME NEW d \in Calls, AfterRevoke(d) PROVE FALSE
  BY <1>1, <1>10 DEF AfterRevoke
<1>11. ASSUME NEW d \in Calls, RevokeRead(d) PROVE FALSE
  BY <1>1, <1>10, <1>11 DEF RevokeRead
<1>12. ASSUME NEW d \in Calls, Invalidate(d) PROVE FALSE
  BY <1>1, <1>12 DEF Invalidate
<1>13. ASSUME NEW d \in Calls, Consume(d) PROVE d = c
  BY <1>1, <1>13 DEF Consume
<1>14. call' # call
  OBVIOUS
<1>15. ASSUME NEW d \in Calls, NEW s \in SessionIds, Login(d, s) \/ Revoke(d, s) \/ TouchRead(d, s)
       PROVE  FALSE
  BY <1>2, <1>15 DEF Login, Revoke, TouchRead
<1>16. ASSUME NEW d \in Calls, NEW j \in Tokens, Refresh(d, j) \/ Logout(d, j)
       PROVE  FALSE
  BY <1>2, <1>16 DEF Refresh, Logout
<1>17. ASSUME NEW d \in Calls, RevokeAll(d) PROVE FALSE
  BY <1>2, <1>17 DEF RevokeAll
<1>18. ASSUME NEW d \in Calls,
              \/ Create(d) \/ Deny(d) \/ RotateWrite(d) \/ TouchWrite(d) \/ Crash(d)
              \/ RevokeRemove(d) \/ SetEpoch(d) \/ LogoutBlacklist(d) \/ RemoveIndex(d)
              \/ RevokeDel(d)
       PROVE  FALSE
  BY <1>3, <1>4, <1>10, <1>18 DEF Create, Deny, RotateWrite, TouchWrite, Crash, RevokeRemove,
     SetEpoch, LogoutBlacklist, RemoveIndex, RevokeDel
<1> QED BY <1>5, <1>6, <1>7, <1>8, <1>9, <1>11, <1>12, <1>13, <1>14, <1>15, <1>16, <1>17, <1>18
        DEF SessionsNext, MarkerExpires, sessionVars

(* The alarm.  A used token was exchanged, is one whose exchange nobody    *)
(* can vouch for, was blacklisted, or is being exchanged under its marker; *)
(* and a client presents a blacklisted one only if the logout overtook it. *)

Explained(j) ==
  \/ j \in exchanged \cup unanswered \cup blacklist
  \/ j \in recent /\ \E c \in Calls : j \in Spent(call[c])

Presents(x) == x.pc = "consume" /\ x.kind = "refresh"

CausesInv ==
  /\ \A j \in used : Explained(j)
  /\ \A c \in Calls : Presents(call[c]) /\ call[c].jti \in blacklist => call[c].jti \in overtaken

(* A step of request c that spends no token but a blacklisted one, and     *)
(* forgets none it has consumed.                                           *)
LEMMA CausesStay ==
  ASSUME CausesInv, NEW c \in Calls, \A d \in Calls \ {c} : call'[d] = call[d],
         Spent(call[c]) \subseteq Spent(call'[c]) \cup exchanged' \cup unanswered',
         Presents(call'[c]) => call'[c].jti \notin blacklist,
         exchanged \subseteq exchanged', unanswered \subseteq unanswered',
         UNCHANGED <<blacklist, overtaken>>,
         \A j \in used' : j \in blacklist \/ (j \in used /\ (j \in recent => j \in recent'))
  PROVE  CausesInv'
<1>1. ASSUME NEW j \in used' PROVE Explained(j)'
  <2>1. CASE j \in blacklist
    BY <2>1 DEF Explained
  <2>2. CASE j \in used /\ (j \in recent => j \in recent')
    <3>1. CASE j \in exchanged \cup unanswered \cup blacklist
      BY <3>1 DEF Explained
    <3>2. CASE j \in recent /\ \E d \in Calls : j \in Spent(call[d])
      <4>1. PICK d \in Calls : j \in Spent(call[d])
        BY <3>2
      <4>2. j \in Spent(call'[d]) \/ j \in exchanged' \cup unanswered'
        BY <4>1
      <4> QED BY <2>2, <3>2, <4>2 DEF Explained
    <3> QED BY <2>2, <3>1, <3>2 DEF CausesInv, Explained
  <2> QED BY <1>1, <2>1, <2>2
<1>2. ASSUME NEW d \in Calls, Presents(call'[d]), call'[d].jti \in blacklist'
      PROVE  call'[d].jti \in overtaken'
  <2>1. d # c
    BY <1>2
  <2> QED BY <1>2, <2>1 DEF CausesInv
<1> QED BY <1>1, <1>2 DEF CausesInv

(* Most steps: the request has consumed no token, and will present none.   *)
Passing(c) ==
  /\ \A d \in Calls \ {c} : call'[d] = call[d]
  /\ Spent(call[c]) = {} /\ call'[c].pc # "consume"

LEMMA PassingStays ==
  ASSUME CausesInv, NEW c \in Calls, Passing(c),
         UNCHANGED <<blacklist, exchanged, unanswered, overtaken>>,
         used' = {} \/ UNCHANGED <<used, recent>>
  PROVE  CausesInv'
<1>1. ~Presents(call'[c])
  BY DEF Passing, Presents
<1> QED BY <1>1, CausesStay DEF Passing

LEMMA CallsPass ==
  ASSUME TokensInv, NEW c \in Calls,
         \/ Limit(c) \/ Evict(c) \/ Drop(c) \/ Create(c) \/ TouchWrite(c)
         \/ RevokeRead(c) \/ RevokeRemove(c) \/ RevokeDel(c)
         \/ SetEpoch(c) \/ Invalidate(c) \/ List(c) \/ RemoveEach(c) \/ RemoveIndex(c)
  PROVE  Passing(c)
<1> DEFINE x == call[c]
<1>1. /\ x.pc # "idle" => x \in [kind : {x.kind}, pc : {x.pc}, sid : {x.sid}, jti : {x.jti},
                                 read : {x.read}, ids : {x.ids}, spent : {x.spent}]
      /\ call = [d \in Calls |-> call[d]]
  BY DEF TokensInv, TokensTyped, CallHolds, CallShaped, Idle
<1>2. Idle.pc = "idle"
  BY DEF Idle
<1>3. CASE Limit(c) \/ List(c)
  BY <1>1, <1>3 DEF Limit, List, Passing, Spent
<1>4. CASE Evict(c)
  BY <1>1, <1>4 DEF Evict, Passing, Spent
<1>5. CASE Drop(c) \/ RemoveEach(c)
  BY <1>1, <1>5 DEF Drop, RemoveEach, Passing, Spent
<1>6. CASE Create(c) \/ TouchWrite(c)
  BY <1>1, <1>2, <1>6 DEF Create, TouchWrite, Done, Passing, Spent
<1>7. ASSUME AfterRevoke(c), x.pc \in {"get", "del"} PROVE Passing(c)
  BY <1>1, <1>2, <1>7 DEF AfterRevoke, Passing, Spent
<1>8. CASE RevokeRead(c)
  BY <1>1, <1>7, <1>8 DEF RevokeRead, Passing, Spent
<1>9. CASE RevokeRemove(c) \/ SetEpoch(c)
  BY <1>1, <1>9 DEF RevokeRemove, SetEpoch, Goto, Passing, Spent
<1>10. CASE RevokeDel(c)
  BY <1>7, <1>10 DEF RevokeDel
<1>11. CASE Invalidate(c)
  BY <1>1, <1>2, <1>11 DEF Invalidate, Passing, Spent
<1>12. CASE RemoveIndex(c)
  BY <1>1, <1>2, <1>12 DEF RemoveIndex, Goto, Done, Passing, Spent
<1> QED BY <1>3, <1>4, <1>5, <1>6, <1>8, <1>9, <1>10, <1>11, <1>12

LEMMA PassersKeepCauses ==
  ASSUME TokensInv, CausesInv, NEW c \in Calls,
         \/ Limit(c) \/ Evict(c) \/ Drop(c) \/ Create(c) \/ TouchWrite(c)
         \/ RevokeRead(c) \/ RevokeRemove(c) \/ RevokeDel(c)
         \/ SetEpoch(c) \/ Invalidate(c) \/ List(c) \/ RemoveEach(c) \/ RemoveIndex(c)
  PROVE  CausesInv'
<1>1. Passing(c)
  BY CallsPass
<1>2. UNCHANGED <<blacklist, exchanged, unanswered, overtaken>>
  BY DEF Limit, Evict, Drop, Create, TouchWrite, RevokeRead, RevokeRemove, RevokeDel, SetEpoch,
     Invalidate, List, RemoveEach, RemoveIndex, revocations, history, marks
<1>3. used' = {} \/ UNCHANGED <<used, recent>>
  BY DEF Limit, Evict, Drop, Create, TouchWrite, RevokeRead, RevokeRemove, RevokeDel, SetEpoch,
     Invalidate, List, RemoveEach, RemoveIndex, store
<1> QED BY <1>1, <1>2, <1>3, PassingStays

(* A request that begins presents no token that is blacklisted.            *)
LEMMA BeginnersKeepCauses ==
  ASSUME TokensInv, CausesInv, NEW c \in Calls,
         NEW kind, NEW pc, NEW s, NEW j, Begin(c, kind, pc, s, j), pc # "idle",
         pc = "consume" => j \notin blacklist,
         UNCHANGED <<used, recent, blacklist, exchanged, unanswered, overtaken>>
  PROVE  CausesInv'
<1>1. PICK y : OneCallIs(c, y) /\ y.pc = pc /\ y.jti = j
  BY CallBegins
<1>2. Spent(call[c]) = {}
  BY DEF Begin, Spent, Idle
<1>3. Presents(call'[c]) => call'[c].jti \notin blacklist
  BY <1>1 DEF OneCallIs, Presents
<1>4. \A d \in Calls \ {c} : call'[d] = call[d]
  BY <1>1 DEF OneCallIs
<1> QED BY <1>2, <1>3, <1>4, CausesStay

(* A refresh that goes on or ends: what it spent is kept in mind.          *)
LEMMA RefreshersKeepCauses ==
  ASSUME TokensInv, CausesInv, NEW c \in Calls,
         Deny(c) \/ IssueNext(c) \/ RotateRead(c) \/ RotateWrite(c) \/ Crash(c)
  PROVE  CausesInv'
<1> DEFINE x == call[c]
<1>1. /\ x.pc # "idle" => x \in [kind : {x.kind}, pc : {x.pc}, sid : {x.sid}, jti : {x.jti},
                                 read : {x.read}, ids : {x.ids}, spent : {x.spent}]
      /\ call = [d \in Calls |-> call[d]]
  BY DEF TokensInv, TokensTyped, CallHolds, CallShaped, Idle
<1>2. Idle.pc = "idle"
  BY DEF Idle
<1>3. UNCHANGED <<used, recent, blacklist, overtaken>>
  BY DEF Deny, IssueNext, RotateRead, RotateWrite, Crash, store, revocations, history, marks
<1>4. exchanged \subseteq exchanged' /\ unanswered \subseteq unanswered'
  BY DEF Deny, IssueNext, RotateRead, RotateWrite, Crash, history, marks
<1>5. ASSUME Done(c)
      PROVE  (\A d \in Calls \ {c} : call'[d] = call[d]) /\ ~Presents(call'[c])
  BY <1>1, <1>2, <1>5 DEF Done, Presents
<1>6. CASE Deny(c) \/ Crash(c) \/ RotateWrite(c)
  <2>1. Done(c) /\ Spent(call[c]) \subseteq exchanged' \cup unanswered'
    BY <1>6 DEF Deny, Crash, RotateWrite
  <2> QED BY <1>3, <1>4, <1>5, <2>1, CausesStay
<1>7. CASE IssueNext(c)
  <2>1. /\ \A d \in Calls \ {c} : call'[d] = call[d]
        /\ call'[c].pc = "rotate" /\ call'[c].spent = x.spent /\ x.pc = "issue"
    BY <1>1, <1>7 DEF IssueNext
  <2>2. Spent(call[c]) = Spent(call'[c]) /\ ~Presents(call'[c])
    BY <2>1 DEF Spent, Presents
  <2> QED BY <1>3, <1>4, <2>1, <2>2, CausesStay
<1>8. CASE RotateRead(c)
  <2>1. CASE record[x.sid] = None
    <3>1. Done(c) /\ Spent(call[c]) \subseteq exchanged' \cup unanswered'
      BY <1>8, <2>1 DEF RotateRead
    <3> QED BY <1>3, <1>4, <1>5, <3>1, CausesStay
  <2>2. CASE record[x.sid] # None
    <3>1. /\ \A d \in Calls \ {c} : call'[d] = call[d]
          /\ call'[c].pc = "rotated" /\ call'[c].spent = x.spent /\ x.pc = "rotate"
      BY <1>1, <1>8, <2>2 DEF RotateRead
    <3>2. Spent(call[c]) = Spent(call'[c]) /\ ~Presents(call'[c])
      BY <3>1 DEF Spent, Presents
    <3> QED BY <1>3, <1>4, <3>1, <3>2, CausesStay
  <2> QED BY <2>1, <2>2
<1> QED BY <1>6, <1>7, <1>8

(* A token that is consumed is under the marker from then on.              *)
LEMMA ConsumeKeepsCauses ==
  ASSUME TokensInv, CausesInv, NEW c \in Calls, Consume(c)
  PROVE  CausesInv'
<1> DEFINE x == call[c]
           j == call[c].jti
<1>1. /\ x \in [kind : {x.kind}, pc : {x.pc}, sid : {x.sid}, jti : {x.jti},
                read : {x.read}, ids : {x.ids}, spent : {x.spent}]
      /\ call = [d \in Calls |-> call[d]]
      /\ x.pc = "consume" /\ Spent(x) = {}
  BY DEF TokensInv, TokensTyped, CallHolds, CallShaped, Idle, Consume, Spent
<1>2. UNCHANGED <<blacklist, exchanged, unanswered, overtaken>> /\ ConsumeKeys(j)
  BY DEF Consume, revocations, history, marks
<1>3. CASE j \in active
  <2>1. used' = used \cup {j} /\ recent' = recent \cup {j}
    BY <1>2, <1>3 DEF ConsumeKeys
  <2>2. ConsumeResult(j) = "consumed"
    BY <1>3 DEF ConsumeResult
  <2>3. PICK y : y = [x EXCEPT !.pc = "issue", !.spent = j]
    OBVIOUS
  <2>4. call' = [call EXCEPT ![c] = y]
    BY <2>2, <2>3 DEF Consume
  <2>5. y.pc = "issue" /\ y.spent = j
    BY <1>1, <2>3
  <2>6. call'[c] = y /\ \A d \in Calls \ {c} : call'[d] = call[d]
    BY <1>1, <2>4
  <2>7. j \in Spent(call'[c]) /\ ~Presents(call'[c])
    BY <2>5, <2>6 DEF Spent, Presents
  <2>8. ASSUME NEW k \in used' PROVE Explained(k)'
    <3>1. CASE k = j
      BY <2>1, <2>7, <3>1 DEF Explained
    <3>2. CASE k # j
      <4>1. k \in used /\ Explained(k)
        BY <2>1, <3>2, <2>8 DEF CausesInv
      <4>2. \A d \in Calls : k \in Spent(call[d]) => k \in Spent(call'[d])
        BY <1>1, <2>6
      <4> QED BY <1>2, <2>1, <4>1, <4>2 DEF Explained
    <3> QED BY <3>1, <3>2
  <2>9. \A d \in Calls : Presents(call'[d]) /\ call'[d].jti \in blacklist' => call'[d].jti \in overtaken'
    BY <1>2, <2>6, <2>7 DEF CausesInv
  <2> QED BY <2>8, <2>9 DEF CausesInv
<1>4. CASE j \notin active
  <2>1. UNCHANGED <<used, recent>>
    BY <1>2, <1>4 DEF ConsumeKeys, store
  <2>2. PICK y : y = [x EXCEPT !.pc = "invalidate", !.kind = "reuse", !.sid = "all"]
    OBVIOUS
  <2>3. y.pc = "invalidate"
    BY <1>1, <2>2
  <2>4. ConsumeResult(j) # "consumed"
    BY <1>4 DEF ConsumeResult
  <2>5. call' = [call EXCEPT ![c] = y] \/ call' = [call EXCEPT ![c] = Idle]
    BY <2>2, <2>4 DEF Consume
  <2>6. Idle.pc = "idle"
    BY DEF Idle
  <2>7. Passing(c)
    BY <1>1, <2>3, <2>5, <2>6 DEF Passing
  <2> QED BY <1>2, <2>1, <2>7, PassingStays
<1> QED BY <1>3, <1>4

(* A logout: whoever presents its token now is noted, and the token that   *)
(* it spends is blacklisted.                                               *)
LEMMA LogoutsKeepCauses ==
  ASSUME TokensInv, CausesInv, NEW c \in Calls, LogoutBlacklist(c) \/ LogoutConsume(c)
  PROVE  CausesInv'
<1> DEFINE x == call[c]
           j == call[c].jti
<1>1. /\ x \in [kind : {x.kind}, pc : {x.pc}, sid : {x.sid}, jti : {x.jti},
                read : {x.read}, ids : {x.ids}, spent : {x.spent}]
      /\ call = [d \in Calls |-> call[d]]
      /\ x.pc \in {"consume", "blacklist"} /\ x.kind = "logout" /\ Spent(x) = {}
      /\ x.pc = "consume" => j \in blacklist
  BY DEF TokensInv, TokensTyped, CallHolds, CallShaped, Idle, LogoutBlacklist, LogoutConsume,
         Spent
<1>2. CASE LogoutBlacklist(c)
  <2>1. PICK y : y = [x EXCEPT !.pc = "consume"]
    OBVIOUS
  <2>2. y.kind = "logout"
    BY <1>1, <2>1
  <2>3. call' = [call EXCEPT ![c] = y]
    BY <1>2, <2>1 DEF LogoutBlacklist, Goto
  <2>4. call'[c] = y /\ \A d \in Calls \ {c} : call'[d] = call[d]
    BY <1>1, <2>3
  <2>5. /\ UNCHANGED <<used, recent, exchanged, unanswered>> /\ blacklist' = blacklist \cup {j}
        /\ overtaken' = overtaken \cup
             {k \in {j} : \E d \in InFlight : call[d].kind = "refresh"
                                                /\ call[d].pc = "consume" /\ call[d].jti = k}
    BY <1>2 DEF LogoutBlacklist, store
  <2>6. ASSUME NEW k \in used' PROVE Explained(k)'
    <3>1. Explained(k)
      BY <2>5, <2>6 DEF CausesInv
    <3>2. \A d \in Calls : k \in Spent(call[d]) => k \in Spent(call'[d])
      BY <1>1, <2>4
    <3> QED BY <2>5, <3>1, <3>2 DEF Explained
  <2>7. ASSUME NEW d \in Calls, Presents(call'[d]), call'[d].jti \in blacklist'
        PROVE  call'[d].jti \in overtaken'
    <3>1. d # c /\ call'[d] = call[d] /\ Presents(call[d])
      BY <2>2, <2>4, <2>7 DEF Presents
    <3>2. CASE call[d].jti \in blacklist
      BY <2>5, <3>1, <3>2 DEF CausesInv
    <3>3. CASE call[d].jti = j
      <4>1. d \in InFlight
        BY <3>1 DEF InFlight, Presents, Idle
      <4> QED BY <2>5, <3>1, <3>3, <4>1 DEF Presents
    <3> QED BY <2>5, <2>7, <3>1, <3>2, <3>3
  <2> QED BY <2>6, <2>7 DEF CausesInv
<1>3. CASE LogoutConsume(c)
  <2>1. /\ UNCHANGED <<blacklist, exchanged, unanswered, overtaken>> /\ ConsumeKeys(j)
        /\ x.pc = "consume"
    BY <1>3 DEF LogoutConsume, revocations, history, marks
  <2>2. \A k \in used' : k \in blacklist \/ (k \in used /\ (k \in recent => k \in recent'))
    BY <1>1, <2>1 DEF ConsumeKeys, store
  <2>3. call'[c].pc = "get" /\ \A d \in Calls \ {c} : call'[d] = call[d]
    BY <1>1, <1>3 DEF LogoutConsume
  <2>4. ~Presents(call'[c])
    BY <2>3 DEF Presents
  <2> QED BY <1>1, <2>1, <2>2, <2>3, <2>4, CausesStay
<1> QED BY <1>2, <1>3

(* The marker of a token may go before its exchange has ended.             *)
LEMMA ExpiryKeepsCauses ==
  ASSUME CausesInv, NEW j \in Tokens, MarkerExpires(j)
  PROVE  CausesInv'
<1>1. /\ UNCHANGED <<used, blacklist, call, exchanged, overtaken>> /\ recent' = recent \ {j}
      /\ unanswered' = unanswered \cup ({j} \cap UNION {Spent(call[c]) : c \in Calls})
  BY DEF MarkerExpires, revocations
<1>2. ASSUME NEW k \in used' PROVE Explained(k)'
  BY <1>1, <1>2 DEF CausesInv, Explained
<1> QED BY <1>1, <1>2 DEF CausesInv

LEMMA CausesKeep == TokensInv /\ CausesInv /\ [SessionsNext]_sessionVars => CausesInv'
<1> SUFFICES ASSUME TokensInv, CausesInv, [SessionsNext]_sessionVars PROVE CausesInv'
  OBVIOUS
<1>1. ASSUME NEW c \in Calls, NEW s \in SessionIds, Login(c, s) \/ Revoke(c, s) \/ TouchRead(c, s)
      PROVE  CausesInv'
  <2>1. PICK kind, pc, j :
          /\ Begin(c, kind, pc, s, j) /\ pc \in {"limit", "get", "touch"}
          /\ UNCHANGED <<used, recent, blacklist, exchanged, unanswered, overtaken>>
    BY <1>1 DEF Login, Revoke, TouchRead, Fresh, store, revocations, marks
  <2> QED BY <2>1, BeginnersKeepCauses
<1>2. ASSUME NEW c \in Calls, NEW j \in Tokens, Refresh(c, j) \/ Logout(c, j)
      PROVE  CausesInv'
  <2>1. PICK kind, pc, s :
          /\ Begin(c, kind, pc, s, j) /\ pc \in {"consume", "get"}
          /\ pc = "consume" => j \notin blacklist
          /\ UNCHANGED <<used, recent, blacklist, exchanged, unanswered, overtaken>>
    BY <1>2 DEF Refresh, Logout, Fresh, store, revocations, marks
  <2> QED BY <2>1, BeginnersKeepCauses
<1>3. ASSUME NEW c \in Calls, RevokeAll(c)
      PROVE  CausesInv'
  <2>1. PICK kind, pc, s, j :
          /\ Begin(c, kind, pc, s, j) /\ pc \in {"epoch", "list"}
          /\ UNCHANGED <<used, recent, blacklist, exchanged, unanswered, overtaken>>
    BY <1>3 DEF RevokeAll, Fresh, store, revocations, marks
  <2> QED BY <2>1, BeginnersKeepCauses
<1>4. ASSUME NEW c \in Calls,
             \/ Limit(c) \/ Evict(c) \/ Drop(c) \/ Create(c) \/ TouchWrite(c)
             \/ RevokeRead(c) \/ RevokeRemove(c) \/ RevokeDel(c)
             \/ SetEpoch(c) \/ Invalidate(c) \/ List(c) \/ RemoveEach(c) \/ RemoveIndex(c)
      PROVE  CausesInv'
  BY <1>4, PassersKeepCauses
<1>5. ASSUME NEW c \in Calls,
             \/ Deny(c) \/ IssueNext(c) \/ RotateRead(c) \/ RotateWrite(c) \/ Crash(c)
             \/ Consume(c) \/ LogoutBlacklist(c) \/ LogoutConsume(c)
      PROVE  CausesInv'
  BY <1>5, RefreshersKeepCauses, ConsumeKeepsCauses, LogoutsKeepCauses
<1>6. ASSUME NEW j \in Tokens, MarkerExpires(j)
      PROVE  CausesInv'
  BY <1>6, ExpiryKeepsCauses
<1>7. CASE UNCHANGED sessionVars
  BY <1>7 DEF sessionVars, store, revocations, history, marks, CausesInv, Explained
<1> QED BY <1>1, <1>2, <1>3, <1>4, <1>5, <1>6, <1>7 DEF SessionsNext

LEMMA CausesStart == SessionsInit => CausesInv
BY DEF SessionsInit, CausesInv, Presents, Idle

(* The alarm of a reused token (auth.service.ts:439) is raised for a token *)
(* that was exchanged and answered for, never for one presented twice at   *)
(* a time or spent by a logout, but for the exchanges without an answer    *)
(* and the refreshes a logout overtook: for any number of requests,        *)
(* sessions and deaths.                                                    *)
THEOREM AlarmsHaveACause == SessionsSpec => AlarmMeansExchanged
<1>1. ASSUME TokensInv, CausesInv, [SessionsNext]_sessionVars, NEW c \in Calls,
             c \in InFlight, call[c].kind = "refresh", call'[c] # Idle, call'[c].kind = "reuse"
      PROVE  call[c].jti \in exchanged \cup unanswered \cup overtaken
  <2>1. Consume(c)
    BY <1>1, KindStays DEF InFlight
  <2>2. call'[c] = CASE ConsumeResult(call[c].jti) = "consumed" ->
                          [call[c] EXCEPT !.pc = "issue", !.spent = call[c].jti]
                     [] ConsumeResult(call[c].jti) = "reuse" ->
                          [call[c] EXCEPT !.pc = "invalidate", !.kind = "reuse", !.sid = "all"]
                     [] OTHER -> Idle
    BY <1>1, <2>1 DEF Consume, TokensInv, TokensTyped
  <2>3. call[c].pc = "consume" /\ CallShaped(call[c]) /\ call[c] # Idle
    BY <1>1, <2>1, CallIsRecord DEF Consume
  <2>4. [call[c] EXCEPT !.pc = "issue", !.spent = call[c].jti].kind = "refresh"
    BY <1>1, <2>3 DEF CallShaped
  <2>5. ConsumeResult(call[c].jti) = "reuse"
    BY <1>1, <2>2, <2>4
  <2>6. call[c].jti \in used /\ call[c].jti \notin recent
    BY <2>5 DEF ConsumeResult
  <2>7. call[c].jti \in exchanged \cup unanswered \cup blacklist
    BY <1>1, <2>6 DEF CausesInv, Explained
  <2> QED BY <1>1, <2>3, <2>7 DEF CausesInv, Presents
<1>2. TokensInv /\ CausesInv /\ [SessionsNext]_sessionVars =>
        [\A c \in Calls :
           (c \in InFlight /\ call[c].kind = "refresh" /\ call'[c] # Idle /\ call'[c].kind = "reuse")
             => call[c].jti \in exchanged \cup unanswered \cup overtaken]_sessionVars
  BY <1>1
<1> QED BY <1>2, TokensStart, SessionsKeep, CausesStart, CausesKeep, PTL
        DEF SessionsSpec, AlarmMeansExchanged

(* Consuming a token is atomic (refresh-token.store.ts:41) and a new one   *)
(* is registered only for one that was consumed: whatever requests overlap *)
(* and die, of a session one token at most can be exchanged.               *)
THEOREM OneTokenAtATime == SessionsSpec => []OneTokenPerSession
<1>1. TokensInv => OneTokenPerSession
  <2> SUFFICES ASSUME TokensInv, NEW s \in SessionIds
               PROVE  Cardinality(Of(s) \cap active) <= 1
    BY DEF OneTokenPerSession
  <2>1. \A j, k \in Of(s) \cap active : j = k
    BY DEF Of, TokensInv, OneIsLive
  <2>2. CASE Of(s) \cap active = {}
    BY <2>2, FS_EmptySet
  <2>3. CASE Of(s) \cap active # {}
    <3>1. PICK j : Of(s) \cap active = {j}
      BY <2>1, <2>3
    <3> QED BY <3>1, FS_Singleton
  <2> QED BY <2>2, <2>3
<1> QED BY <1>1, TokensStart, SessionsKeep, PTL DEF SessionsSpec

-----------------------------------------------------------------------------
(* Session records.  A token that can be exchanged and is not the one its  *)
(* record names is on the hands of a request, which will store it, delete  *)
(* it, or leave the session marked as crossed.                             *)

Making(x) == x # Idle /\ x.kind = "login"

(* What a request knows: the session of the token it was given, or what it *)
(* has read.                                                               *)
CallServes(x, iss) ==
  x # Idle =>
    /\ x.ids \in Seq(SessionIds)
    /\ x.kind = "login" =>
         /\ x.pc \in {"limit", "evict", "drop", "remove", "del"}
         /\ x.pc \in {"drop", "remove", "del"} => x.ids # << >>
         /\ x.sid \in SessionIds /\ x.jti \in 1..Len(iss) /\ iss[x.jti] = x.sid
    /\ x.kind = "mine" => x.sid = "all" /\ x.pc \in {"list", "each", "invalidate"}
    /\ x.pc \in {"limit", "evict", "drop"} => x.kind = "login"
    /\ x.pc = "drop" => x.read = None
    /\ x.pc \in {"remove", "del"} => x.kind \in {"login", "logout", "revoke"}
    /\ x.pc = "get" => x.kind \in {"logout", "revoke"}
    /\ x.pc \in {"get", "remove", "del", "blacklist"} => x.sid \in SessionIds
    /\ x.pc = "issue" => x.kind = "refresh"
    /\ x.pc \in {"consume", "issue"} => x.kind \in {"refresh", "logout"} /\ x.sid \in SessionIds
    /\ x.pc \in {"rotate", "rotated"} =>
         x.kind = "refresh" /\ x.sid \in SessionIds /\ x.jti \in 1..Len(iss) /\ iss[x.jti] = x.sid
    /\ x.pc \in {"touch", "rotated"} =>
         x.sid \in SessionIds /\ x.read \in Nat \ {None} /\ \E j \in 1..Len(iss) : iss[j] = x.sid

Aim(x) == IF x.kind = "login" THEN Head(x.ids) ELSE x.sid

(* The token j of session s is on the hands of request x.                  *)
Holds(x, j, s) ==
  x # Idle /\
    \/ x.kind = "login" /\ x.jti = j
    \/ x.pc \in {"rotate", "rotated"} /\ x.jti = j
    \/ x.pc = "del" /\ x.read = j /\ Aim(x) = s
    \/ x.kind = "mine"

RecordsTyped ==
  /\ record \in [SessionIds -> Nat]
  /\ index \in Seq(SessionIds) /\ IsInjective(index)
  /\ \A c \in Calls : CallServes(call[c], issued)
  /\ \A s \in SessionIds : record[s] # None => Of(s) # {}

TokensAreHeld ==
  \A j \in active :
    \/ issued[j] \in crossed
    \/ record[issued[j]] = j
    \/ \E c \in Calls : Holds(call[c], j, issued[j])

(* A login is for a new session, which has no record yet.                  *)
LoginsAreNew ==
  /\ \A c, d \in Calls : Making(call[c]) /\ Making(call[d]) /\ call[c].sid = call[d].sid => c = d
  /\ \A c \in Calls : Making(call[c]) => call[c].sid \in crossed \/ record[call[c].sid] = None
  /\ ~rushed => \A c, d \in Calls : Making(call[c]) /\ Making(call[d]) => c = d

IndexMatches ==
  crossed = {} => \A s \in SessionIds : record[s] # None <=> s \in ToSet(index)

(* One login at a time leaves room for its session in the index.           *)
RoomFor(x, members) ==
  /\ Cardinality(members \ ToSet(x.ids)) < MaxConcurrent
  /\ x.pc = "del" => Head(x.ids) \notin members

RoomIsMade ==
  ~rushed /\ crossed = {} =>
    /\ Cardinality(ToSet(index)) <= MaxConcurrent
    /\ \A c \in Calls : Making(call[c]) /\ call[c].pc # "limit" => RoomFor(call[c], ToSet(index))

RecordsHold == RecordsTyped /\ TokensAreHeld /\ LoginsAreNew /\ IndexMatches /\ RoomIsMade
RecordsInv == TokensInv /\ RecordsHold

LEMMA RemovalIs ==
  ASSUME NEW q \in Seq(SessionIds), NEW i \in 1..Len(q), NEW r, r = RemoveAt(q, i)
  PROVE  /\ r \in Seq(SessionIds) /\ Len(r) = Len(q) - 1
         /\ \A k \in 1..Len(r) : (k < i => r[k] = q[k]) /\ (k >= i => r[k] = q[k + 1])
<1>1. /\ SubSeq(q, 1, i - 1) \in Seq(SessionIds) /\ Len(SubSeq(q, 1, i - 1)) = i - 1
      /\ \A k \in 1..(i - 1) : SubSeq(q, 1, i - 1)[k] = q[k]
  OBVIOUS
<1>2. /\ SubSeq(q, i + 1, Len(q)) \in Seq(SessionIds) /\ Len(SubSeq(q, i + 1, Len(q))) = Len(q) - i
      /\ \A k \in 1..(Len(q) - i) : SubSeq(q, i + 1, Len(q))[k] = q[i + k]
  OBVIOUS
<1>3. PICK u : u = SubSeq(q, 1, i - 1)
  OBVIOUS
<1>4. PICK v : v = SubSeq(q, i + 1, Len(q))
  OBVIOUS
<1>5. u \in Seq(SessionIds) /\ Len(u) = i - 1 /\ \A k \in 1..(i - 1) : u[k] = q[k]
  BY <1>1, <1>3
<1>6. v \in Seq(SessionIds) /\ Len(v) = Len(q) - i /\ \A k \in 1..(Len(q) - i) : v[k] = q[i + k]
  BY <1>2, <1>4
<1>7. r = u \o v
  BY <1>3, <1>4 DEF RemoveAt
<1>8. r \in Seq(SessionIds) /\ Len(r) = Len(q) - 1
  BY <1>5, <1>6, <1>7
<1>9. ASSUME NEW k \in 1..Len(r), k < i PROVE r[k] = q[k]
  <2>1. k \in 1..(i - 1) /\ k <= Len(u)
    BY <1>5, <1>8, <1>9
  <2>2. r[k] = u[k]
    BY <1>5, <1>6, <1>7, <2>1
  <2> QED
    BY <1>5, <2>1, <2>2
<1>10. ASSUME NEW k \in 1..Len(r), k >= i PROVE r[k] = q[k + 1]
  <2>1. PICK m : m = k - (i - 1)
    OBVIOUS
  <2>2. m \in 1..(Len(q) - i) /\ i + m = k + 1 /\ k = Len(u) + m
    BY <1>5, <1>8, <1>10, <2>1
  <2>3. r[k] = v[m]
    BY <1>5, <1>6, <1>7, <2>2
  <2> QED
    BY <1>6, <2>2, <2>3
<1> QED
  BY <1>8, <1>9, <1>10

LEMMA WithoutIs ==
  ASSUME NEW q \in Seq(SessionIds), IsInjective(q), NEW s
  PROVE  /\ Without(q, s) \in Seq(SessionIds) /\ IsInjective(Without(q, s))
         /\ ToSet(Without(q, s)) = ToSet(q) \ {s}
<1>1. CASE s \notin ToSet(q)
  BY <1>1 DEF Without
<1>2. CASE s \in ToSet(q)
  <2>1. PICK i : i = (CHOOSE k \in DOMAIN q : q[k] = s)
    OBVIOUS
  <2>2. i \in 1..Len(q) /\ q[i] = s
    <3>1. \E k \in DOMAIN q : q[k] = s
      BY <1>2 DEF ToSet
    <3> QED
      BY <2>1, <3>1
  <2>3. PICK r : r = RemoveAt(q, i)
    OBVIOUS
  <2>a. Without(q, s) = r
    BY <1>2, <2>1, <2>3 DEF Without
  <2>4. /\ r \in Seq(SessionIds) /\ Len(r) = Len(q) - 1
        /\ \A k \in 1..Len(r) : (k < i => r[k] = q[k]) /\ (k >= i => r[k] = q[k + 1])
    BY <2>2, <2>3, RemovalIs
  <2>5. \A j, k \in 1..Len(q) : q[j] = q[k] => j = k
    BY DEF IsInjective
  <2>6. IsInjective(r)
    <3> SUFFICES ASSUME NEW j \in 1..Len(r), NEW k \in 1..Len(r), r[j] = r[k] PROVE j = k
      BY <2>4 DEF IsInjective
    <3>1. ASSUME NEW m \in 1..Len(r)
          PROVE  \E a \in 1..Len(q) : r[m] = q[a] /\ (m < i => a = m) /\ (m >= i => a = m + 1)
      <4>1. CASE m < i
        BY <2>2, <2>4, <4>1
      <4>2. CASE m >= i
        <5>1. m + 1 \in 1..Len(q) /\ ~(m < i)
          BY <2>2, <2>4, <4>2
        <5> QED
          BY <2>4, <4>2, <5>1
      <4> QED
        BY <2>2, <4>1, <4>2
    <3>2. PICK a \in 1..Len(q) : r[j] = q[a] /\ (j < i => a = j) /\ (j >= i => a = j + 1)
      BY <3>1
    <3>3. PICK b \in 1..Len(q) : r[k] = q[b] /\ (k < i => b = k) /\ (k >= i => b = k + 1)
      BY <3>1
    <3>4. a = b
      BY <2>5, <3>2, <3>3
    <3> QED
      BY <2>2, <2>4, <3>2, <3>3, <3>4
  <2>7. \A k \in 1..Len(r) : r[k] \in ToSet(q) /\ r[k] # s
    <3> SUFFICES ASSUME NEW k \in 1..Len(r) PROVE r[k] \in ToSet(q) /\ r[k] # s
      OBVIOUS
    <3>1. PICK a \in 1..Len(q) : r[k] = q[a] /\ a # i
      <4>1. CASE k < i
        BY <2>2, <2>4, <4>1
      <4>2. CASE k >= i
        <5>1. k + 1 \in 1..Len(q) /\ k + 1 # i
          BY <2>2, <2>4, <4>2
        <5> QED
          BY <2>4, <4>2, <5>1
      <4> QED
        BY <2>2, <4>1, <4>2
    <3> QED
      BY <2>2, <2>5, <3>1 DEF ToSet
  <2>8. \A a \in 1..Len(q) : q[a] # s => q[a] \in ToSet(r)
    <3> SUFFICES ASSUME NEW a \in 1..Len(q), q[a] # s PROVE q[a] \in ToSet(r)
      OBVIOUS
    <3>1. PICK k \in 1..Len(r) : r[k] = q[a]
      <4>1. CASE a < i
        BY <2>2, <2>4, <4>1
      <4>2. CASE a > i
        <5>1. a - 1 \in 1..Len(r) /\ a - 1 >= i /\ (a - 1) + 1 = a
          BY <2>2, <2>4, <4>2
        <5> QED
          BY <2>4, <5>1
      <4> QED
        BY <2>2, <4>1, <4>2
    <3> QED
      BY <2>4, <3>1 DEF ToSet
  <2>9. ToSet(r) = ToSet(q) \ {s}
    <3>1. \A x : x \in ToSet(r) <=> \E k \in 1..Len(r) : r[k] = x
      BY <2>4 DEF ToSet
    <3>2. \A x : x \in ToSet(q) <=> \E k \in 1..Len(q) : q[k] = x
      BY DEF ToSet
    <3> QED
      BY <2>7, <2>8, <3>1, <3>2
  <2> QED
    BY <2>a, <2>4, <2>6, <2>9
<1> QED
  BY <1>1, <1>2

LEMMA AppendIs ==
  ASSUME NEW q \in Seq(SessionIds), IsInjective(q), NEW s \in SessionIds, s \notin ToSet(q)
  PROVE  /\ Append(q, s) \in Seq(SessionIds) /\ IsInjective(Append(q, s))
         /\ ToSet(Append(q, s)) = ToSet(q) \cup {s}
<1>1. PICK r : r = Append(q, s)
  OBVIOUS
<1>2. /\ r \in Seq(SessionIds) /\ Len(r) = Len(q) + 1 /\ r[Len(q) + 1] = s
      /\ \A k \in 1..Len(q) : r[k] = q[k]
  BY <1>1
<1>3. \A j, k \in 1..Len(q) : q[j] = q[k] => j = k
  BY DEF IsInjective
<1>4. \A k \in 1..Len(q) : q[k] # s
  BY DEF ToSet
<1>5. IsInjective(r)
  BY <1>2, <1>3, <1>4 DEF IsInjective
<1>6. ToSet(r) = ToSet(q) \cup {s}
  <2>1. \A x : x \in ToSet(r) <=> \E k \in 1..(Len(q) + 1) : r[k] = x
    BY <1>2 DEF ToSet
  <2>2. \A x : x \in ToSet(q) <=> \E k \in 1..Len(q) : q[k] = x
    BY DEF ToSet
  <2>3. 1..(Len(q) + 1) = 1..Len(q) \cup {Len(q) + 1}
    OBVIOUS
  <2> QED
    BY <1>2, <2>1, <2>2, <2>3
<1> QED
  BY <1>1, <1>2, <1>5, <1>6

LEMMA BumpedIs ==
  ASSUME index \in Seq(SessionIds), IsInjective(index), NEW s \in SessionIds
  PROVE  /\ Bumped(s) \in Seq(SessionIds) /\ IsInjective(Bumped(s))
         /\ ToSet(Bumped(s)) = ToSet(index) \cup {s}
<1>1. PICK q : q = Without(index, s)
  OBVIOUS
<1>2. q \in Seq(SessionIds) /\ IsInjective(q) /\ ToSet(q) = ToSet(index) \ {s}
  BY <1>1, WithoutIs
<1> QED
  BY <1>1, <1>2, AppendIs DEF Bumped

LEMMA TailIs ==
  ASSUME NEW q \in Seq(SessionIds), q # << >>
  PROVE  /\ Tail(q) \in Seq(SessionIds) /\ Head(q) \in SessionIds
         /\ ToSet(q) = {Head(q)} \cup ToSet(Tail(q))
<1>1. PICK r : r = Tail(q)
  OBVIOUS
<1>2. /\ r \in Seq(SessionIds) /\ Len(r) = Len(q) - 1 /\ Head(q) = q[1] /\ Len(q) > 0
      /\ \A k \in 1..Len(r) : r[k] = q[k + 1]
  BY <1>1
<1>3. \A x : x \in ToSet(q) <=> \E k \in 1..Len(q) : q[k] = x
  BY DEF ToSet
<1>4. \A x : x \in ToSet(r) <=> \E k \in 1..Len(r) : r[k] = x
  BY <1>2 DEF ToSet
<1>5. \A x : x \in ToSet(q) => x = q[1] \/ x \in ToSet(r)
  <2> SUFFICES ASSUME NEW k \in 1..Len(q), k # 1 PROVE q[k] \in ToSet(r)
    BY <1>3
  <2>1. k - 1 \in 1..Len(r) /\ r[k - 1] = q[k]
    BY <1>2
  <2> QED
    BY <1>4, <2>1
<1>6. \A x : x \in ToSet(r) => x \in ToSet(q)
  BY <1>2, <1>3, <1>4
<1>7. q[1] \in ToSet(q)
  BY <1>2, <1>3
<1> QED
  BY <1>1, <1>2, <1>5, <1>6, <1>7

LEMMA SetsAreFinite ==
  ASSUME NEW q \in Seq(SessionIds)
  PROVE  IsFiniteSet(ToSet(q)) /\ Cardinality(ToSet(q)) \in Nat /\ Cardinality(ToSet(q)) <= Len(q)
<1>1. PICK f : f = [i \in 1..Len(q) |-> q[i]]
  OBVIOUS
<1>2. f \in Surjection(1..Len(q), ToSet(q))
  BY <1>1 DEF Surjection, ToSet
<1>3. IsFiniteSet(1..Len(q)) /\ Cardinality(1..Len(q)) = Len(q)
  <2>1. Len(q) \in Nat /\ Len(q) \in Int /\ 1 \in Int
    OBVIOUS
  <2> QED
    BY <2>1, FS_Interval
<1> QED
  BY <1>2, <1>3, FS_Surjection, FS_CardinalityType

LEMMA LengthIs ==
  ASSUME NEW q \in Seq(SessionIds), IsInjective(q)
  PROVE  Cardinality(ToSet(q)) = Len(q)
<1>1. PICK f : f = [i \in 1..Len(q) |-> q[i]]
  OBVIOUS
<1>2. f \in Surjection(1..Len(q), ToSet(q)) /\ f \in Injection(1..Len(q), ToSet(q))
  BY <1>1 DEF Surjection, Injection, ToSet, IsInjective
<1>3. IsFiniteSet(1..Len(q)) /\ Cardinality(1..Len(q)) = Len(q)
  <2>1. Len(q) \in Nat /\ Len(q) \in Int /\ 1 \in Int
    OBVIOUS
  <2> QED
    BY <2>1, FS_Interval
<1> QED
  BY <1>2, <1>3, FS_Surjection

(* Without the first sessions of the index, there is room for one more.    *)
LEMMA RestIs ==
  ASSUME NEW q \in Seq(SessionIds), IsInjective(q)
  PROVE  LET ids == SubSeq(q, 1, Len(q) - MaxConcurrent + 1)
         IN  ids \in Seq(SessionIds) /\ Cardinality(ToSet(q) \ ToSet(ids)) < MaxConcurrent
<1>1. PICK n : n = Len(q) - MaxConcurrent + 1 /\ n \in Int
  BY LimitAssumption
<1>2. PICK ids : ids = SubSeq(q, 1, n)
  OBVIOUS
<1>3. /\ ids \in Seq(SessionIds) /\ Len(ids) = (IF n < 1 THEN 0 ELSE n)
      /\ \A k \in 1..Len(ids) : ids[k] = q[k]
  <2>1. n <= Len(q)
    BY <1>1, LimitAssumption
  <2>2. CASE n < 1
    BY <1>1, <1>2, <2>2
  <2>3. CASE n >= 1
    BY <1>1, <1>2, <2>1, <2>3
  <2> QED
    BY <1>1, <2>2, <2>3
<1>4. CASE n < 1
  <2>1. Len(q) < MaxConcurrent
    BY <1>1, <1>4, LimitAssumption
  <2>2. ToSet(q) \ ToSet(ids) \subseteq ToSet(q)
    OBVIOUS
  <2>3. /\ Cardinality(ToSet(q) \ ToSet(ids)) <= Cardinality(ToSet(q))
        /\ Cardinality(ToSet(q) \ ToSet(ids)) \in Nat
    BY <2>2, SetsAreFinite, FS_Subset, FS_CardinalityType
  <2> QED
    BY <1>1, <1>2, <1>3, <2>1, <2>3, SetsAreFinite, LimitAssumption
<1>5. CASE n >= 1
  <2>1. PICK f : f = [i \in (n + 1)..Len(q) |-> q[i]]
    OBVIOUS
  <2>2. PICK R : R = {q[i] : i \in (n + 1)..Len(q)}
    OBVIOUS
  <2>3. f \in Surjection((n + 1)..Len(q), R)
    BY <2>1, <2>2 DEF Surjection
  <2>4. IsFiniteSet((n + 1)..Len(q)) /\ Cardinality((n + 1)..Len(q)) = MaxConcurrent - 1
    <3>1. PICK a, b : a = n + 1 /\ b = Len(q) /\ a \in Int /\ b \in Int
      BY <1>1
    <3>2. IsFiniteSet(a..b) /\ Cardinality(a..b) = (IF a > b THEN 0 ELSE b - a + 1)
      BY <3>1, FS_Interval
    <3>3. MaxConcurrent \in Int /\ MaxConcurrent >= 1 /\ b - a + 1 = MaxConcurrent - 1
      BY <1>1, <3>1, LimitAssumption
    <3>4. (IF a > b THEN 0 ELSE b - a + 1) = MaxConcurrent - 1
      BY <3>1, <3>3
    <3> QED
      BY <3>1, <3>2, <3>4
  <2>5. IsFiniteSet(R) /\ Cardinality(R) <= MaxConcurrent - 1
    BY <2>3, <2>4, FS_Surjection
  <2>6. ToSet(q) \ ToSet(ids) \subseteq R
    <3>1. \A i \in 1..Len(q) : i <= n => q[i] \in ToSet(ids)
      BY <1>1, <1>3, <1>5 DEF ToSet
    <3> QED
      BY <1>1, <1>5, <2>2, <3>1 DEF ToSet
  <2>7. /\ Cardinality(ToSet(q) \ ToSet(ids)) <= Cardinality(R)
        /\ Cardinality(ToSet(q) \ ToSet(ids)) \in Nat /\ Cardinality(R) \in Nat
    BY <2>5, <2>6, FS_Subset, FS_CardinalityType
  <2> QED
    BY <1>1, <1>2, <1>3, <2>5, <2>7, LimitAssumption
<1> QED
  BY <1>1, <1>4, <1>5

(* How a step of request x, after which it is y, keeps all this.           *)
Continues(x, y) == Making(y) => Making(x) /\ y.sid = x.sid

RecordsMove(x, y) ==
  /\ record' \in [SessionIds -> Nat]
  /\ \A s \in SessionIds : record'[s] # None =>
       \/ record[s] # None
       \/ Of(s) # {} /\ (s \in crossed' \/ (Making(x) /\ x.sid = s /\ ~Making(y)))

IndexMoves ==
  /\ index' \in Seq(SessionIds) /\ IsInjective(index')
  /\ crossed' = {} => \A s \in SessionIds : record'[s] # None <=> s \in ToSet(index')

HandsOver(x, y) ==
  \A j \in active' : record[issued[j]] = j \/ Holds(x, j, issued[j]) =>
    issued[j] \in crossed' \/ record'[issued[j]] = j \/ Holds(y, j, issued[j])

RoomStays(y) ==
  ~rushed /\ crossed' = {} =>
    /\ ToSet(index') \subseteq ToSet(index)
    /\ Making(y) /\ y.pc # "limit" => RoomFor(y, ToSet(index'))

LEMMA RoomShrinks ==
  ASSUME RecordsInv, NEW c \in Calls, NEW y, OneCallIs(c, y), rushed' = rushed,
         crossed \subseteq crossed', RoomStays(y)
  PROVE  RoomIsMade'
<1> SUFFICES ASSUME ~rushed', crossed' = {}
             PROVE  /\ Cardinality(ToSet(index')) <= MaxConcurrent
                    /\ \A d \in Calls : Making(call'[d]) /\ call'[d].pc # "limit" =>
                         RoomFor(call'[d], ToSet(index'))
  BY DEF RoomIsMade, Making, RoomFor
<1>1. /\ Cardinality(ToSet(index)) <= MaxConcurrent
      /\ \A d \in Calls : Making(call[d]) /\ call[d].pc # "limit" => RoomFor(call[d], ToSet(index))
      /\ index \in Seq(SessionIds)
  BY DEF RecordsInv, RecordsHold, RecordsTyped, RoomIsMade
<1>2. PICK I, J : I = ToSet(index) /\ J = ToSet(index')
  OBVIOUS
<1>3. J \subseteq I /\ (Making(y) /\ y.pc # "limit" => RoomFor(y, J))
  BY <1>2 DEF RoomStays
<1>4. IsFiniteSet(I) /\ Cardinality(I) \in Nat
  BY <1>1, <1>2, SetsAreFinite
<1>5. \A S : /\ IsFiniteSet(I \ S) /\ Cardinality(J \ S) <= Cardinality(I \ S)
             /\ Cardinality(J \ S) \in Nat /\ Cardinality(I \ S) \in Nat
  <2> SUFFICES ASSUME NEW S
               PROVE  /\ IsFiniteSet(I \ S) /\ Cardinality(J \ S) <= Cardinality(I \ S)
                      /\ Cardinality(J \ S) \in Nat /\ Cardinality(I \ S) \in Nat
    OBVIOUS
  <2>1. I \ S \subseteq I /\ J \ S \subseteq I \ S
    BY <1>3
  <2>2. IsFiniteSet(I \ S)
    BY <1>4, <2>1, FS_Subset
  <2> QED
    BY <2>1, <2>2, FS_Subset, FS_CardinalityType
<1>6. Cardinality(J) <= Cardinality(I) /\ Cardinality(J) \in Nat
  BY <1>3, <1>4, FS_Subset, FS_CardinalityType
<1>7. ASSUME NEW x, RoomFor(x, I) PROVE RoomFor(x, J)
  <2>1. Cardinality(I \ ToSet(x.ids)) < MaxConcurrent /\ (x.pc = "del" => Head(x.ids) \notin I)
    BY <1>7 DEF RoomFor
  <2>2. Cardinality(J \ ToSet(x.ids)) < MaxConcurrent
    BY <1>5, <2>1, LimitAssumption
  <2> QED
    BY <1>3, <2>1, <2>2 DEF RoomFor
<1>8. Cardinality(J) <= MaxConcurrent
  BY <1>1, <1>2, <1>4, <1>6, LimitAssumption
<1>9. \A d \in Calls : Making(call'[d]) /\ call'[d].pc # "limit" => RoomFor(call'[d], J)
  BY <1>1, <1>2, <1>3, <1>7 DEF OneCallIs
<1> QED
  BY <1>2, <1>8, <1>9

LEMMA RecordsFollow ==
  ASSUME RecordsInv, NEW c \in Calls, NEW y, OneCallIs(c, y), UNCHANGED <<issued, rushed>>,
         active' \subseteq active, crossed \subseteq crossed', CallServes(y, issued),
         Continues(call[c], y), RecordsMove(call[c], y), IndexMoves, HandsOver(call[c], y),
         RoomIsMade'
  PROVE  RecordsHold'
<1>1. RecordsTyped /\ TokensAreHeld /\ LoginsAreNew /\ IndexMatches
  BY DEF RecordsInv, RecordsHold
<1>2. \A d \in Calls \ {c} : call'[d] = call[d]
  BY DEF OneCallIs
<1>3. call'[c] = y
  BY DEF OneCallIs
<1>4. RecordsTyped'
  <2>1. \A d \in Calls : CallServes(call'[d], issued')
    BY <1>1, <1>2, <1>3 DEF RecordsTyped
  <2>2. \A s \in SessionIds : record'[s] # None => Of(s) # {}
    BY <1>1 DEF RecordsTyped, RecordsMove
  <2>3. \A s : Of(s)' = Of(s)
    BY DEF Of, Tokens
  <2> QED
    BY <2>1, <2>2, <2>3 DEF RecordsTyped, RecordsMove, IndexMoves
<1>5. TokensAreHeld'
  <2> SUFFICES ASSUME NEW j \in active'
               PROVE  \/ issued[j] \in crossed'
                      \/ record'[issued[j]] = j
                      \/ \E d \in Calls : Holds(call'[d], j, issued[j])
    BY DEF TokensAreHeld, Holds, Aim
  <2>1. \/ issued[j] \in crossed
        \/ record[issued[j]] = j
        \/ \E d \in Calls : Holds(call[d], j, issued[j])
    BY <1>1 DEF TokensAreHeld
  <2>2. CASE issued[j] \in crossed
    BY <2>2
  <2>3. CASE record[issued[j]] = j \/ Holds(call[c], j, issued[j])
    BY <1>3, <2>3 DEF HandsOver
  <2>4. CASE \E d \in Calls \ {c} : Holds(call[d], j, issued[j])
    BY <1>2, <2>4
  <2> QED
    BY <2>1, <2>2, <2>3, <2>4
<1>6. LoginsAreNew'
  <2>1. \A d \in Calls : Making(call'[d]) => Making(call[d]) /\ call'[d].sid = call[d].sid
    BY <1>2, <1>3 DEF Continues
  <2>2. ASSUME NEW d \in Calls, Making(call'[d])
        PROVE  call'[d].sid \in crossed' \/ record'[call'[d].sid] = None
    <3>1. PICK s : s = call[d].sid
      OBVIOUS
    <3>2. Making(call[d]) /\ call'[d].sid = s /\ (s \in crossed \/ record[s] = None)
      BY <1>1, <2>1, <2>2, <3>1 DEF LoginsAreNew
    <3>3. s \in SessionIds
      BY <1>1, <3>1, <3>2 DEF RecordsTyped, CallServes, Making
    <3>4. ASSUME record'[s] # None, s \notin crossed' PROVE FALSE
      <4>1. Making(call[c]) /\ call[c].sid = s /\ ~Making(y)
        BY <3>2, <3>3, <3>4 DEF RecordsMove
      <4>2. c = d
        BY <1>1, <3>1, <3>2, <4>1 DEF LoginsAreNew
      <4> QED
        BY <1>3, <2>2, <4>1, <4>2
    <3> QED
      BY <3>2, <3>4
  <2>3. \A d, e \in Calls : Making(call'[d]) /\ Making(call'[e]) /\ call'[d].sid = call'[e].sid => d = e
    BY <1>1, <2>1 DEF LoginsAreNew
  <2>4. ~rushed' => \A d, e \in Calls : Making(call'[d]) /\ Making(call'[e]) => d = e
    BY <1>1, <2>1 DEF LoginsAreNew
  <2> QED
    BY <2>2, <2>3, <2>4 DEF LoginsAreNew, Making
<1>7. IndexMatches'
  BY DEF IndexMoves, IndexMatches
<1> QED
  BY <1>4, <1>5, <1>6, <1>7 DEF RecordsHold

(* A step that changes no record.                                          *)
LEMMA RecordsRest ==
  ASSUME RecordsInv, NEW c \in Calls, NEW y, OneCallIs(c, y),
         UNCHANGED <<issued, rushed, record, index>>,
         active' \subseteq active, crossed \subseteq crossed', CallServes(y, issued),
         Continues(call[c], y),
         \A j \in active' : Holds(call[c], j, issued[j]) =>
           Holds(y, j, issued[j]) \/ issued[j] \in crossed',
         ~rushed /\ crossed = {} /\ Making(y) /\ y.pc # "limit" => RoomFor(y, ToSet(index))
  PROVE  RecordsHold'
<1>1. RecordsTyped /\ IndexMatches
  BY DEF RecordsInv, RecordsHold
<1>2. RecordsMove(call[c], y)
  BY <1>1 DEF RecordsMove, RecordsTyped
<1>3. IndexMoves
  BY <1>1 DEF IndexMoves, IndexMatches, RecordsTyped
<1>4. HandsOver(call[c], y)
  BY DEF HandsOver
<1>5. RoomStays(y)
  BY DEF RoomStays
<1>6. RoomIsMade'
  BY <1>5, RoomShrinks
<1> QED
  BY <1>2, <1>3, <1>4, <1>6, RecordsFollow

LEMMA TokensAreSessions ==
  ASSUME RecordsInv
  PROVE  /\ \A j \in active : issued[j] \in SessionIds /\ j \in Nat /\ j # None
         /\ record \in [SessionIds -> Nat]
BY DEF RecordsInv, RecordsHold, RecordsTyped, TokensInv, TokensTyped, Tokens, None

LEMMA CallIsServed ==
  ASSUME RecordsInv, NEW c \in Calls, call[c].pc # "idle"
  PROVE  CallShaped(call[c]) /\ call[c] # Idle /\ CallServes(call[c], issued)
<1>1. CallShaped(call[c]) /\ call[c] # Idle
  BY CallIsRecord DEF RecordsInv
<1> QED
  BY <1>1 DEF RecordsInv, RecordsHold, RecordsTyped

LEMMA CallGoesOn ==
  ASSUME RecordsInv, NEW c \in Calls, NEW y, call' = [call EXCEPT ![c] = y], y.pc # "idle"
  PROVE  OneCallIs(c, y) /\ y # Idle
<1>1. y # Idle
  BY DEF Idle
<1> QED
  BY <1>1, CallMoves DEF RecordsInv

LEMMA IdleServes ==
  (\A iss : CallServes(Idle, iss)) /\ ~Making(Idle) /\ \A j, s : ~Holds(Idle, j, s)
BY DEF CallServes, Making, Holds

(* A request that ends without a change to the records.                    *)
LEMMA CallLeaves ==
  ASSUME RecordsInv, NEW c \in Calls, Done(c), UNCHANGED <<issued, rushed, record, index>>,
         active' \subseteq active, crossed \subseteq crossed',
         \A j \in active' : Holds(call[c], j, issued[j]) => issued[j] \in crossed'
  PROVE  RecordsHold'
<1>1. OneCallIs(c, Idle)
  BY CallMoves DEF Done, RecordsInv
<1>2. PICK y : y = Idle
  OBVIOUS
<1>3. CallServes(y, issued) /\ ~Making(y) /\ OneCallIs(c, y)
  BY <1>1, <1>2, IdleServes
<1>4. Continues(call[c], y)
  BY <1>3 DEF Continues
<1> QED
  BY <1>3, <1>4, RecordsRest

(* A request that begins; a login does so in Login.                        *)
LEMMA BeginFollows ==
  ASSUME RecordsInv, NEW c \in Calls, NEW kind, NEW pc, NEW s, NEW j, Begin(c, kind, pc, s, j),
         Fresh, kind # "login", pc # "idle",
         \A y : y.kind = kind /\ y.pc = pc /\ y.sid = s /\ y.jti = j /\ y.ids = << >>
                /\ y.read = (IF kind = "touch" THEN record[s] ELSE None) => CallServes(y, issued)
  PROVE  RecordsHold'
<1>1. PICK y : /\ OneCallIs(c, y) /\ CallShaped(y)
               /\ y.kind = kind /\ y.pc = pc /\ y.sid = s /\ y.jti = j /\ y.ids = << >>
               /\ y.read = (IF kind = "touch" THEN record[s] ELSE None)
  BY CallBegins DEF RecordsInv
<1>2. UNCHANGED <<issued, rushed, record, index, active, crossed>>
  BY DEF Fresh, store, sessions
<1>3. CallServes(y, issued) /\ ~Making(y)
  BY <1>1 DEF Making
<1>4. \A k, t : ~Holds(call[c], k, t)
  BY IdleServes DEF Begin
<1>5. Continues(call[c], y)
  BY <1>3 DEF Continues
<1> QED
  BY <1>1, <1>2, <1>3, <1>4, <1>5, RecordsRest

LEMMA LimitFollows ==
  ASSUME RecordsInv, NEW c \in Calls, Limit(c)
  PROVE  RecordsHold'
<1> DEFINE x == call[c]
<1>1. PICK y : y = [x EXCEPT !.pc = "evict",
                 !.ids = SubSeq(index, 1, Len(index) - MaxConcurrent + 1)]
  OBVIOUS
<1>2. /\ x.pc = "limit" /\ UNCHANGED <<issued, rushed, record, index, active, crossed>>
      /\ call' = [call EXCEPT ![c] = y]
  BY <1>1 DEF Limit, TokensInv, TokensTyped, RecordsInv, store, revocations, sessions, history
<1>3. CallShaped(x) /\ x # Idle /\ CallServes(x, issued)
  BY <1>2, CallIsServed
<1>4. /\ y.kind = x.kind /\ y.sid = x.sid /\ y.jti = x.jti
      /\ y.pc = "evict" /\ y.read = x.read /\ y.ids = SubSeq(index, 1, Len(index) - MaxConcurrent + 1)
  BY <1>1, <1>3 DEF CallShaped
<1>5. OneCallIs(c, y) /\ y # Idle
  BY <1>2, <1>4, CallGoesOn
<1>a. index \in Seq(SessionIds) /\ IsInjective(index)
  BY DEF RecordsInv, RecordsHold, RecordsTyped
<1>b. y.ids \in Seq(SessionIds) /\ Cardinality(ToSet(index) \ ToSet(y.ids)) < MaxConcurrent
  BY <1>4, <1>a, RestIs
<1>6. CallServes(y, issued)
  BY <1>2, <1>3, <1>4, <1>b DEF CallServes
<1>7. Continues(x, y)
  BY <1>3, <1>4, <1>5 DEF Continues, Making
<1>8. \A j \in active' : Holds(x, j, issued[j]) => Holds(y, j, issued[j]) \/ issued[j] \in crossed'
  BY <1>2, <1>3, <1>4, <1>5 DEF CallServes, Holds, Aim
<1>9. ~rushed /\ crossed = {} /\ Making(y) /\ y.pc # "limit" => RoomFor(y, ToSet(index))
  BY <1>4, <1>b DEF RoomFor
<1> QED
  BY <1>2, <1>5, <1>6, <1>7, <1>8, <1>9, RecordsRest

LEMMA EvictFollows ==
  ASSUME RecordsInv, NEW c \in Calls, Evict(c)
  PROVE  RecordsHold'
<1> DEFINE x == call[c]
<1>0. PICK p, r : /\ p = (IF record[Head(x.ids)] = None THEN "drop" ELSE "remove")
                  /\ r = record[Head(x.ids)]
  OBVIOUS
<1>1. PICK y : y = [x EXCEPT !.pc = p, !.read = r]
  OBVIOUS
<1>2. /\ x.pc = "evict" /\ x.ids # << >>
      /\ UNCHANGED <<issued, rushed, record, index, active, crossed>>
      /\ call' = [call EXCEPT ![c] = y]
  BY <1>0, <1>1 DEF Evict, TokensInv, TokensTyped, RecordsInv, store, revocations, sessions,
     history
<1>3. CallShaped(x) /\ x # Idle /\ CallServes(x, issued)
  BY <1>2, CallIsServed
<1>4. /\ y.kind = x.kind /\ y.sid = x.sid /\ y.jti = x.jti
      /\ y.pc = p /\ y.read = r /\ y.ids = x.ids
      /\ p \in {"drop", "remove"} /\ (p = "drop" => r = None)
  BY <1>0, <1>1, <1>3 DEF CallShaped
<1>5. OneCallIs(c, y) /\ y # Idle
  BY <1>2, <1>4, CallGoesOn
<1>6. CallServes(y, issued)
  BY <1>2, <1>3, <1>4 DEF CallServes
<1>7. Continues(x, y)
  BY <1>3, <1>4, <1>5 DEF Continues, Making
<1>8. \A j \in active' : Holds(x, j, issued[j]) => Holds(y, j, issued[j]) \/ issued[j] \in crossed'
  BY <1>2, <1>3, <1>4, <1>5 DEF CallServes, Holds, Aim
<1>9. ~rushed /\ crossed = {} /\ Making(y) /\ y.pc # "limit" => RoomFor(y, ToSet(index))
  BY <1>2, <1>3, <1>4 DEF CallServes, Making, RoomFor, RecordsInv, RecordsHold, RoomIsMade
<1> QED
  BY <1>2, <1>5, <1>6, <1>7, <1>8, <1>9, RecordsRest

LEMMA SetEpochFollows ==
  ASSUME RecordsInv, NEW c \in Calls, SetEpoch(c)
  PROVE  RecordsHold'
<1> DEFINE x == call[c]
<1>1. PICK y : y = [x EXCEPT !.pc = "invalidate"]
  OBVIOUS
<1>2. /\ x.pc = "epoch" /\ UNCHANGED <<issued, rushed, record, index, active, crossed>>
      /\ call' = [call EXCEPT ![c] = y]
  BY <1>1 DEF SetEpoch, TokensInv, TokensTyped, RecordsInv, Goto, store, revocations,
     sessions, history
<1>3. CallShaped(x) /\ x # Idle /\ CallServes(x, issued)
  BY <1>2, CallIsServed
<1>4. /\ y.kind = x.kind /\ y.sid = x.sid /\ y.jti = x.jti
      /\ y.pc = "invalidate" /\ y.read = x.read /\ y.ids = x.ids
  BY <1>1, <1>3 DEF CallShaped
<1>5. OneCallIs(c, y) /\ y # Idle
  BY <1>2, <1>4, CallGoesOn
<1>6. CallServes(y, issued)
  BY <1>2, <1>3, <1>4 DEF CallServes
<1>7. Continues(x, y)
  BY <1>3, <1>4, <1>5 DEF Continues, Making
<1>8. \A j \in active' : Holds(x, j, issued[j]) => Holds(y, j, issued[j]) \/ issued[j] \in crossed'
  BY <1>2, <1>3, <1>4, <1>5 DEF CallServes, Holds, Aim
<1>9. ~rushed /\ crossed = {} /\ Making(y) /\ y.pc # "limit" => RoomFor(y, ToSet(index))
  BY <1>2, <1>3, <1>4 DEF CallServes, Making
<1> QED
  BY <1>2, <1>5, <1>6, <1>7, <1>8, <1>9, RecordsRest

LEMMA ListFollows ==
  ASSUME RecordsInv, NEW c \in Calls, List(c)
  PROVE  RecordsHold'
<1> DEFINE x == call[c]
<1>1. PICK y : y = [x EXCEPT !.pc = "each", !.ids = index]
  OBVIOUS
<1>2. /\ x.pc = "list" /\ UNCHANGED <<issued, rushed, record, index, active, crossed>>
      /\ call' = [call EXCEPT ![c] = y]
  BY <1>1 DEF List, TokensInv, TokensTyped, RecordsInv, store, revocations, sessions, history
<1>3. CallShaped(x) /\ x # Idle /\ CallServes(x, issued)
  BY <1>2, CallIsServed
<1>4. /\ y.kind = x.kind /\ y.sid = x.sid /\ y.jti = x.jti
      /\ y.pc = "each" /\ y.read = x.read /\ y.ids = index
  BY <1>1, <1>3 DEF CallShaped
<1>5. OneCallIs(c, y) /\ y # Idle
  BY <1>2, <1>4, CallGoesOn
<1>a. index \in Seq(SessionIds)
  BY DEF RecordsInv, RecordsHold, RecordsTyped
<1>6. CallServes(y, issued)
  BY <1>2, <1>3, <1>4, <1>a DEF CallServes
<1>7. Continues(x, y)
  BY <1>3, <1>4, <1>5 DEF Continues, Making
<1>8. \A j \in active' : Holds(x, j, issued[j]) => Holds(y, j, issued[j]) \/ issued[j] \in crossed'
  BY <1>2, <1>3, <1>4, <1>5 DEF CallServes, Holds, Aim
<1>9. ~rushed /\ crossed = {} /\ Making(y) /\ y.pc # "limit" => RoomFor(y, ToSet(index))
  BY <1>2, <1>3, <1>4 DEF CallServes, Making
<1> QED
  BY <1>2, <1>5, <1>6, <1>7, <1>8, <1>9, RecordsRest

LEMMA LogoutBlacklistFollows ==
  ASSUME RecordsInv, NEW c \in Calls, LogoutBlacklist(c)
  PROVE  RecordsHold'
<1> DEFINE x == call[c]
<1>1. PICK y : y = [x EXCEPT !.pc = "consume"]
  OBVIOUS
<1>2. /\ x.pc = "blacklist" /\ UNCHANGED <<issued, rushed, record, index, active, crossed>>
      /\ call' = [call EXCEPT ![c] = y]
  BY <1>1 DEF LogoutBlacklist, TokensInv, TokensTyped, RecordsInv, Goto, store, revocations,
     sessions, history
<1>3. CallShaped(x) /\ x # Idle /\ CallServes(x, issued)
  BY <1>2, CallIsServed
<1>4. /\ y.kind = x.kind /\ y.sid = x.sid /\ y.jti = x.jti
      /\ y.pc = "consume" /\ y.read = x.read /\ y.ids = x.ids
  BY <1>1, <1>3 DEF CallShaped
<1>5. OneCallIs(c, y) /\ y # Idle
  BY <1>2, <1>4, CallGoesOn
<1>a. x.kind = "logout"
  BY <1>2 DEF RecordsInv, TokensInv, TokensTyped, CallHolds
<1>6. CallServes(y, issued)
  BY <1>2, <1>3, <1>4, <1>a DEF CallServes
<1>7. Continues(x, y)
  BY <1>3, <1>4, <1>5 DEF Continues, Making
<1>8. \A j \in active' : Holds(x, j, issued[j]) => Holds(y, j, issued[j]) \/ issued[j] \in crossed'
  BY <1>2, <1>3, <1>4, <1>5 DEF CallServes, Holds, Aim
<1>9. ~rushed /\ crossed = {} /\ Making(y) /\ y.pc # "limit" => RoomFor(y, ToSet(index))
  BY <1>4, <1>a DEF Making
<1> QED
  BY <1>2, <1>5, <1>6, <1>7, <1>8, <1>9, RecordsRest

LEMMA LogoutConsumeFollows ==
  ASSUME RecordsInv, NEW c \in Calls, LogoutConsume(c)
  PROVE  RecordsHold'
<1> DEFINE x == call[c]
<1>1. PICK y : y = [x EXCEPT !.pc = "get", !.kind = "revoke"]
  OBVIOUS
<1>2. /\ x.pc = "consume" /\ UNCHANGED <<issued, rushed, record, index, crossed>>
      /\ active' \subseteq active /\ x.kind = "logout"
      /\ call' = [call EXCEPT ![c] = y]
  BY <1>1 DEF LogoutConsume, TokensInv, TokensTyped, RecordsInv, ConsumeKeys, store,
     revocations, sessions, history
<1>3. CallShaped(x) /\ x # Idle /\ CallServes(x, issued)
  BY <1>2, CallIsServed
<1>4. /\ y.kind = "revoke" /\ y.sid = x.sid /\ y.jti = x.jti
      /\ y.pc = "get" /\ y.read = x.read /\ y.ids = x.ids
  BY <1>1, <1>3 DEF CallShaped
<1>5. OneCallIs(c, y) /\ y # Idle
  BY <1>2, <1>4, CallGoesOn
<1>6. CallServes(y, issued)
  BY <1>2, <1>3, <1>4 DEF CallServes
<1>7. Continues(x, y)
  BY <1>3, <1>4, <1>5 DEF Continues, Making
<1>8. \A j \in active' : Holds(x, j, issued[j]) => Holds(y, j, issued[j]) \/ issued[j] \in crossed'
  BY <1>2, <1>3, <1>4, <1>5 DEF CallServes, Holds, Aim
<1>9. ~rushed /\ crossed = {} /\ Making(y) /\ y.pc # "limit" => RoomFor(y, ToSet(index))
  BY <1>2, <1>3, <1>4 DEF CallServes, Making
<1> QED
  BY <1>2, <1>5, <1>6, <1>7, <1>8, <1>9, RecordsRest

LEMMA RotateReadFollows ==
  ASSUME RecordsInv, NEW c \in Calls, RotateRead(c)
  PROVE  RecordsHold'
<1> DEFINE x == call[c]
<1>1. x.pc = "rotate" /\ UNCHANGED <<issued, rushed, record, index, active>>
  BY DEF RotateRead, store, revocations, sessions
<1>2. CallShaped(x) /\ x # Idle /\ CallServes(x, issued)
  BY <1>1, CallIsServed
<1>3. CASE record[x.sid] = None
  <2>1. Done(c) /\ crossed' = crossed \cup {x.sid}
    BY <1>3 DEF RotateRead
  <2>2. \A j \in active' : Holds(x, j, issued[j]) => issued[j] \in crossed'
    BY <1>1, <1>2, <2>1 DEF CallServes, Holds
  <2> QED
    BY <1>1, <2>1, <2>2, CallLeaves
<1>4. CASE record[x.sid] # None
  <2>1. PICK r : r = record[x.sid]
    OBVIOUS
  <2>2. PICK y : y = [x EXCEPT !.pc = "rotated", !.read = r]
    OBVIOUS
  <2>3. call' = [call EXCEPT ![c] = y] /\ crossed' = crossed
    BY <1>4, <2>1, <2>2 DEF RotateRead, TokensInv, TokensTyped, RecordsInv
  <2>4. /\ y.kind = x.kind /\ y.sid = x.sid /\ y.jti = x.jti
        /\ y.pc = "rotated" /\ y.read = r /\ y.ids = x.ids
    BY <1>2, <2>2 DEF CallShaped
  <2>5. OneCallIs(c, y) /\ y # Idle
    BY <2>3, <2>4, CallGoesOn
  <2>6. CallServes(y, issued)
    BY <1>1, <1>2, <1>4, <2>1, <2>4, TokensAreSessions DEF CallServes
  <2>7. ~Making(y)
    BY <1>1, <1>2, <2>4 DEF CallServes, Making
  <2>8. Continues(x, y)
    BY <2>7 DEF Continues
  <2>9. \A j \in active' : Holds(x, j, issued[j]) => Holds(y, j, issued[j]) \/ issued[j] \in crossed'
    BY <1>1, <1>2, <2>4, <2>5 DEF CallServes, Holds
  <2> QED
    BY <1>1, <2>3, <2>5, <2>6, <2>7, <2>8, <2>9, RecordsRest
<1> QED
  BY <1>3, <1>4

LEMMA DenyFollows ==
  ASSUME RecordsInv, NEW c \in Calls, Deny(c)
  PROVE  RecordsHold'
<1>1. /\ call[c].pc = "issue" /\ Done(c)
      /\ UNCHANGED <<issued, rushed, record, index, active, crossed>>
  BY DEF Deny, store, revocations, sessions, history
<1>2. CallServes(call[c], issued)
  BY <1>1, CallIsServed
<1>3. \A j \in active' : Holds(call[c], j, issued[j]) => issued[j] \in crossed'
  BY <1>1, <1>2 DEF CallServes, Holds
<1> QED
  BY <1>1, <1>3, CallLeaves

(* The end of a revocation: a login goes on with the next session, which   *)
(* is no longer in the index.                                              *)
LEMMA AfterRevokeFollows ==
  ASSUME RecordsInv, NEW c \in Calls, AfterRevoke(c), call[c].pc \in {"get", "del"},
         UNCHANGED <<issued, rushed, record, index, crossed>>, active' \subseteq active,
         call[c].pc = "del" => call[c].read \notin active'
  PROVE  RecordsHold'
<1> DEFINE x == call[c]
           After ==
             CASE x.kind = "login" -> [x EXCEPT !.pc = "evict", !.ids = Tail(x.ids), !.read = None]
               [] x.kind = "logout" -> [x EXCEPT !.pc = "blacklist", !.read = None]
               [] OTHER -> Idle
<1>1. call' = [call EXCEPT ![c] = After]
  BY DEF AfterRevoke
<1>2. CallShaped(x) /\ x # Idle /\ CallServes(x, issued)
  BY CallIsServed
<1>3. \A j \in active' : Holds(x, j, issued[j]) => x.kind = "login" /\ x.jti = j
  BY <1>2 DEF CallServes, Holds
<1>4. /\ x.kind = "login" => After = [x EXCEPT !.pc = "evict", !.ids = Tail(x.ids), !.read = None]
      /\ x.kind = "logout" => After = [x EXCEPT !.pc = "blacklist", !.read = None]
      /\ x.kind \notin {"login", "logout"} => After = Idle
  OBVIOUS
<1> HIDE DEF After
<1>5. CASE x.kind = "login"
  <2>1. PICK y : y = [x EXCEPT !.pc = "evict", !.ids = Tail(x.ids), !.read = None]
    OBVIOUS
  <2>2. call' = [call EXCEPT ![c] = y]
    BY <1>1, <1>4, <1>5, <2>1
  <2>3. /\ y.kind = x.kind /\ y.sid = x.sid /\ y.jti = x.jti
        /\ y.pc = "evict" /\ y.read = None /\ y.ids = Tail(x.ids)
    BY <1>2, <2>1 DEF CallShaped
  <2>4. OneCallIs(c, y) /\ y # Idle
    BY <2>2, <2>3, CallGoesOn
  <2>5. x.pc = "del" /\ x.ids \in Seq(SessionIds) /\ x.ids # << >>
    BY <1>2, <1>5 DEF CallServes
  <2>6. PICK q : q = x.ids
    OBVIOUS
  <2>7. Tail(q) \in Seq(SessionIds) /\ ToSet(q) = {Head(q)} \cup ToSet(Tail(q))
    BY <2>5, <2>6, TailIs
  <2>8. CallServes(y, issued)
    BY <1>2, <1>5, <2>3, <2>6, <2>7 DEF CallServes
  <2>9. Continues(x, y)
    BY <1>2, <2>3 DEF Continues, Making
  <2>10. \A j \in active' : Holds(x, j, issued[j]) => Holds(y, j, issued[j]) \/ issued[j] \in crossed'
    BY <1>3, <2>3, <2>4 DEF Holds
  <2>11. ASSUME ~rushed, crossed = {} PROVE RoomFor(y, ToSet(index))
    <3>1. RoomFor(x, ToSet(index))
      BY <1>2, <1>5, <2>5, <2>11 DEF Making, RecordsInv, RecordsHold, RoomIsMade
    <3>2. ToSet(index) \ ToSet(q) = ToSet(index) \ ToSet(Tail(q))
      BY <2>5, <2>6, <2>7, <3>1 DEF RoomFor
    <3> QED
      BY <2>3, <2>6, <3>1, <3>2 DEF RoomFor
  <2> QED
    BY <2>4, <2>8, <2>9, <2>10, <2>11, RecordsRest
<1>6. CASE x.kind = "logout"
  <2>1. PICK y : y = [x EXCEPT !.pc = "blacklist", !.read = None]
    OBVIOUS
  <2>2. call' = [call EXCEPT ![c] = y]
    BY <1>1, <1>4, <1>6, <2>1
  <2>3. /\ y.kind = x.kind /\ y.sid = x.sid /\ y.jti = x.jti
        /\ y.pc = "blacklist" /\ y.read = None /\ y.ids = x.ids
    BY <1>2, <2>1 DEF CallShaped
  <2>4. OneCallIs(c, y) /\ ~Making(y)
    BY <1>6, <2>2, <2>3, CallGoesOn DEF Making
  <2>5. CallServes(y, issued)
    BY <1>2, <1>6, <2>3 DEF CallServes
  <2>6. Continues(x, y)
    BY <2>4 DEF Continues
  <2> QED
    BY <1>3, <1>6, <2>4, <2>5, <2>6, RecordsRest
<1>7. CASE x.kind \notin {"login", "logout"}
  <2>1. Done(c)
    BY <1>1, <1>4, <1>7 DEF Done
  <2> QED
    BY <1>3, <1>7, <2>1, CallLeaves
<1> QED
  BY <1>5, <1>6, <1>7

LEMMA RevokeDelFollows ==
  ASSUME RecordsInv, NEW c \in Calls, RevokeDel(c)
  PROVE  RecordsHold'
BY AfterRevokeFollows DEF RevokeDel, sessions, history

LEMMA RevokeReadFollows ==
  ASSUME RecordsInv, NEW c \in Calls, RevokeRead(c)
  PROVE  RecordsHold'
<1> DEFINE x == call[c]
<1>1. x.pc = "get" /\ UNCHANGED <<issued, rushed, record, index, crossed, active>>
  BY DEF RevokeRead, store, sessions, history
<1>2. CASE record[x.sid] = None
  BY <1>1, <1>2, AfterRevokeFollows DEF RevokeRead
<1>3. CASE record[x.sid] # None
  <2>1. CallShaped(x) /\ x # Idle /\ CallServes(x, issued)
    BY <1>1, CallIsServed
  <2>2. PICK r : r = record[x.sid]
    OBVIOUS
  <2>3. PICK y : y = [x EXCEPT !.pc = "remove", !.read = r]
    OBVIOUS
  <2>4. call' = [call EXCEPT ![c] = y]
    BY <1>3, <2>2, <2>3 DEF RevokeRead, TokensInv, TokensTyped, RecordsInv
  <2>5. /\ y.kind = x.kind /\ y.sid = x.sid /\ y.jti = x.jti
        /\ y.pc = "remove" /\ y.read = r /\ y.ids = x.ids
    BY <2>1, <2>3 DEF CallShaped
  <2>6. OneCallIs(c, y) /\ ~Making(y)
    BY <1>1, <2>1, <2>4, <2>5, CallGoesOn DEF Making, CallServes
  <2>7. CallServes(y, issued)
    BY <1>1, <2>1, <2>5 DEF CallServes
  <2>8. Continues(x, y)
    BY <2>6 DEF Continues
  <2>9. \A j, s : ~Holds(x, j, s)
    BY <1>1, <2>1 DEF CallServes, Holds
  <2> QED
    BY <1>1, <2>6, <2>7, <2>8, <2>9, RecordsRest
<1> QED
  BY <1>2, <1>3

LEMMA InvalidateFollows ==
  ASSUME RecordsInv, NEW c \in Calls, Invalidate(c)
  PROVE  RecordsHold'
<1> DEFINE x == call[c]
<1>1. /\ x.pc = "invalidate" /\ UNCHANGED <<issued, rushed, record, index, crossed>>
      /\ active' = {} /\ active' \subseteq active
  BY DEF Invalidate, sessions, history
<1>2. CallShaped(x) /\ x # Idle /\ CallServes(x, issued)
  BY <1>1, CallIsServed
<1>3. CASE x.kind = "own"
  <2>1. Done(c)
    BY <1>3 DEF Invalidate, Done, TokensInv, TokensTyped, RecordsInv
  <2> QED
    BY <1>1, <2>1, CallLeaves
<1>4. CASE x.kind # "own"
  <2>1. PICK k, p : /\ k = (IF x.kind = "mine" THEN "own" ELSE x.kind)
                    /\ p = (IF x.kind = "mine" THEN "epoch" ELSE "list")
    OBVIOUS
  <2>2. PICK y : y = [x EXCEPT !.kind = k, !.pc = p]
    OBVIOUS
  <2>3. /\ y.kind = k /\ y.sid = x.sid /\ y.jti = x.jti
        /\ y.pc = p /\ y.read = x.read /\ y.ids = x.ids
    BY <1>2, <2>2 DEF CallShaped
  <2>4. call' = [call EXCEPT ![c] = y]
    <3>1. x.kind # "mine" => y = [x EXCEPT !.pc = "list"]
      BY <1>2, <2>1, <2>2 DEF CallShaped
    <3> QED
      BY <1>4, <2>1, <2>2, <3>1 DEF Invalidate, TokensInv, TokensTyped, RecordsInv
  <2>5. OneCallIs(c, y)
    BY <2>1, <2>3, <2>4, CallGoesOn
  <2>6. CallServes(y, issued)
    BY <1>1, <1>2, <2>1, <2>3 DEF CallServes
  <2>7. ~Making(y)
    BY <1>1, <1>2, <2>1, <2>3 DEF CallServes, Making
  <2>8. Continues(x, y)
    BY <2>7 DEF Continues
  <2> QED
    BY <1>1, <2>5, <2>6, <2>7, <2>8, RecordsRest
<1> QED
  BY <1>3, <1>4

LEMMA ConsumeFollows ==
  ASSUME RecordsInv, NEW c \in Calls, Consume(c)
  PROVE  RecordsHold'
<1> DEFINE x == call[c]
<1>1. /\ x.pc = "consume" /\ x.kind = "refresh"
      /\ UNCHANGED <<issued, rushed, record, index, crossed>> /\ active' \subseteq active
  BY DEF Consume, ConsumeKeys, store, sessions, history
<1>2. CallShaped(x) /\ x # Idle /\ CallServes(x, issued)
  BY <1>1, CallIsServed
<1>3. \A j, s : ~Holds(x, j, s)
  BY <1>1, <1>2 DEF Holds
<1>4. ConsumeResult(x.jti) \in {"consumed", "already_consumed", "reuse", "unknown"}
  BY DEF ConsumeResult
<1>5. CASE ConsumeResult(x.jti) \in {"already_consumed", "unknown"}
  <2>1. Done(c)
    BY <1>5 DEF Consume, Done
  <2> QED
    BY <1>1, <1>3, <2>1, CallLeaves
<1>6. CASE ConsumeResult(x.jti) \in {"consumed", "reuse"}
  <2>1. PICK k, p, s, w :
          IF ConsumeResult(x.jti) = "consumed"
          THEN k = "refresh" /\ p = "issue" /\ s = x.sid /\ w = x.jti
          ELSE k = "reuse" /\ p = "invalidate" /\ s = "all" /\ w = x.spent
    OBVIOUS
  <2>2. PICK y : y = [x EXCEPT !.pc = p, !.kind = k, !.sid = s, !.spent = w]
    OBVIOUS
  <2>3. /\ y.kind = k /\ y.sid = s /\ y.jti = x.jti
        /\ y.pc = p /\ y.read = x.read /\ y.ids = x.ids
    BY <1>2, <2>2 DEF CallShaped
  <2>4. call' = [call EXCEPT ![c] = y]
    <3>1. ConsumeResult(x.jti) = "consumed" => y = [x EXCEPT !.pc = "issue", !.spent = x.jti]
      BY <1>1, <1>2, <2>1, <2>2 DEF CallShaped
    <3>2. ConsumeResult(x.jti) = "reuse" =>
            y = [x EXCEPT !.pc = "invalidate", !.kind = "reuse", !.sid = "all"]
      BY <2>1, <2>2
    <3> QED
      BY <1>6, <3>1, <3>2 DEF Consume
  <2>5. OneCallIs(c, y) /\ ~Making(y)
    BY <2>1, <2>3, <2>4, CallGoesOn DEF Making
  <2>6. CallServes(y, issued)
    BY <1>1, <1>2, <2>1, <2>3 DEF CallServes
  <2>7. Continues(x, y)
    BY <2>5 DEF Continues
  <2> QED
    BY <1>1, <1>3, <2>5, <2>6, <2>7, RecordsRest
<1> QED
  BY <1>4, <1>5, <1>6

(* What a request that dies had in hand is marked.                         *)
LEMMA CrashFollows ==
  ASSUME RecordsInv, NEW c \in Calls, Crash(c)
  PROVE  RecordsHold'
<1> DEFINE x == call[c]
<1>1. /\ x # Idle /\ Done(c) /\ UNCHANGED <<issued, rushed, record, index, active>>
      /\ crossed \subseteq crossed'
      /\ x.sid # "all" => x.sid \in crossed' /\ ToSet(x.ids) \subseteq crossed'
      /\ x.sid = "all" => SessionIds \subseteq crossed'
  BY DEF Crash, InFlight, store, sessions
<1>2. CallServes(x, issued)
  BY DEF RecordsInv, RecordsHold, RecordsTyped
<1>3. \A j \in active : issued[j] \in SessionIds
  BY DEF RecordsInv, TokensInv, TokensTyped, Tokens
<1>4. \A j \in active' : Holds(x, j, issued[j]) => issued[j] \in crossed'
  <2> SUFFICES ASSUME NEW j \in active', Holds(x, j, issued[j]) PROVE issued[j] \in crossed'
    OBVIOUS
  <2>1. issued[j] \in SessionIds
    BY <1>1, <1>3
  <2>2. CASE SessionIds \subseteq crossed'
    BY <2>1, <2>2
  <2>3. CASE ~(SessionIds \subseteq crossed')
    <3>1. x.sid # "all" /\ x.kind # "mine"
      BY <1>1, <1>2, <2>3 DEF CallServes
    <3>2. CASE x.kind = "login" /\ x.jti = j
      BY <1>1, <1>2, <3>1, <3>2 DEF CallServes
    <3>3. CASE x.pc \in {"rotate", "rotated"} /\ x.jti = j
      BY <1>1, <1>2, <3>1, <3>3 DEF CallServes
    <3>4. CASE x.pc = "del" /\ Aim(x) = issued[j] /\ x.kind # "login"
      BY <1>1, <3>1, <3>4 DEF Aim
    <3>5. CASE x.pc = "del" /\ Aim(x) = issued[j] /\ x.kind = "login"
      <4>1. PICK q : q = x.ids
        OBVIOUS
      <4>2. q \in Seq(SessionIds) /\ q # << >>
        BY <1>1, <1>2, <3>5, <4>1 DEF CallServes
      <4>3. Head(q) \in ToSet(q)
        BY <4>2, TailIs
      <4> QED
        BY <1>1, <3>1, <3>5, <4>1, <4>3 DEF Aim
    <3> QED
      BY <3>1, <3>2, <3>3, <3>4, <3>5 DEF Holds
  <2> QED
    BY <2>2, <2>3
<1> QED
  BY <1>1, <1>4, CallLeaves

LEMMA RemoveIndexFollows ==
  ASSUME RecordsInv, NEW c \in Calls, RemoveIndex(c)
  PROVE  RecordsHold'
<1> DEFINE x == call[c]
<1>1. /\ x.pc = "each" /\ UNCHANGED <<issued, rushed, record, active>>
      /\ index' = << >> /\ crossed' = crossed \cup ToSet(index)
  BY DEF RemoveIndex, store, sessions
<1>2. CallShaped(x) /\ x # Idle /\ CallServes(x, issued)
  BY <1>1, CallIsServed
<1>3. PICK y : y = IF x.kind = "mine" THEN [x EXCEPT !.pc = "invalidate"] ELSE Idle
  OBVIOUS
<1>4. x.kind = "mine" =>
        /\ y.kind = x.kind /\ y.sid = x.sid /\ y.jti = x.jti
        /\ y.pc = "invalidate" /\ y.read = x.read /\ y.ids = x.ids
  BY <1>2, <1>3 DEF CallShaped
<1>5. call' = [call EXCEPT ![c] = y]
  <2>1. CASE x.kind = "mine"
    BY <1>3, <2>1 DEF RemoveIndex, Goto, TokensInv, TokensTyped, RecordsInv
  <2>2. CASE x.kind # "mine"
    BY <1>3, <2>2 DEF RemoveIndex, Done
  <2> QED
    BY <2>1, <2>2
<1>6. OneCallIs(c, y) /\ (x.kind = "mine" => y # Idle)
  BY <1>4, <1>5, CallMoves, CallGoesOn DEF RecordsInv
<1>7. CallServes(y, issued)
  <2>1. CASE x.kind = "mine"
    BY <1>2, <1>4, <2>1 DEF CallServes
  <2>2. CASE x.kind # "mine"
    BY <1>3, <2>2, IdleServes
  <2> QED
    BY <2>1, <2>2
<1>8. ~Making(y)
  BY <1>3, <1>4, IdleServes DEF Making
<1>9. Continues(x, y)
  BY <1>8 DEF Continues
<1>10. /\ index \in Seq(SessionIds) /\ record \in [SessionIds -> Nat]
       /\ IndexMatches
  BY DEF RecordsInv, RecordsHold, RecordsTyped
<1>11. RecordsMove(x, y)
  BY <1>1, <1>10 DEF RecordsMove
<1>12. PICK e : e = index' /\ e = << >>
  BY <1>1
<1>13. e \in Seq(SessionIds) /\ IsInjective(e) /\ ToSet(e) = {}
  <2>1. Len(e) = 0 /\ e \in Seq(SessionIds) /\ DOMAIN e = {}
    BY <1>12
  <2> QED
    BY <2>1 DEF IsInjective, ToSet
<1>14. IndexMoves
  BY <1>1, <1>10, <1>12, <1>13 DEF IndexMoves, IndexMatches
<1>15. HandsOver(x, y)
  BY <1>1, <1>2, <1>4, <1>6 DEF HandsOver, Holds, CallServes
<1>16. RoomStays(y)
  BY <1>8, <1>12, <1>13 DEF RoomStays
<1>17. RoomIsMade'
  BY <1>1, <1>6, <1>16, RoomShrinks
<1> QED
  BY <1>1, <1>6, <1>7, <1>9, <1>11, <1>14, <1>15, <1>17, RecordsFollow

-----------------------------------------------------------------------------
(* The steps that write a record.                                          *)

LEMMA IndexWithout ==
  ASSUME RecordsInv, NEW s, s \in SessionIds, index' = Without(index, s),
         record' = [record EXCEPT ![s] = None], crossed \subseteq crossed'
  PROVE  IndexMoves /\ ToSet(index') = ToSet(index) \ {s}
<1>1. /\ index \in Seq(SessionIds) /\ IsInjective(index) /\ record \in [SessionIds -> Nat]
      /\ IndexMatches
  BY DEF RecordsInv, RecordsHold, RecordsTyped
<1>2. PICK q : q = index'
  OBVIOUS
<1>3. q \in Seq(SessionIds) /\ IsInjective(q) /\ ToSet(q) = ToSet(index) \ {s}
  BY <1>1, <1>2, WithoutIs
<1> QED
  BY <1>1, <1>2, <1>3 DEF IndexMoves, IndexMatches

LEMMA IndexBumped ==
  ASSUME RecordsInv, NEW s, s \in SessionIds, index' = Bumped(s), NEW j, j \in Nat, j # None,
         record' = [record EXCEPT ![s] = j], crossed \subseteq crossed'
  PROVE  IndexMoves /\ ToSet(index') = ToSet(index) \cup {s}
<1>1. /\ index \in Seq(SessionIds) /\ IsInjective(index) /\ record \in [SessionIds -> Nat]
      /\ IndexMatches
  BY DEF RecordsInv, RecordsHold, RecordsTyped
<1>2. PICK q : q = index'
  OBVIOUS
<1>3. q \in Seq(SessionIds) /\ IsInjective(q) /\ ToSet(q) = ToSet(index) \cup {s}
  BY <1>1, <1>2, BumpedIs
<1> QED
  BY <1>1, <1>2, <1>3 DEF IndexMoves, IndexMatches

(* A record is deleted, or deleted again.                                  *)
LEMMA RecordDeleted ==
  ASSUME RecordsInv, NEW c \in Calls, NEW y, OneCallIs(c, y), UNCHANGED <<issued, rushed, active>>,
         NEW s, s \in SessionIds, record' = [record EXCEPT ![s] = None],
         index' = Without(index, s), crossed \subseteq crossed',
         CallServes(y, issued), Continues(call[c], y),
         \A j \in active : /\ Holds(call[c], j, issued[j]) => Holds(y, j, issued[j])
                           /\ record[s] = j /\ issued[j] = s => s \in crossed' \/ Holds(y, j, s),
         ~rushed /\ crossed = {} /\ Making(y) /\ y.pc # "limit" => RoomFor(y, ToSet(index) \ {s})
  PROVE  RecordsHold'
<1>1. IndexMoves /\ ToSet(index') = ToSet(index) \ {s}
  BY IndexWithout
<1>2. RecordsMove(call[c], y)
  BY TokensAreSessions DEF RecordsMove, None
<1>3. HandsOver(call[c], y)
  BY TokensAreSessions DEF HandsOver
<1>4. RoomStays(y)
  BY <1>1 DEF RoomStays
<1>5. RoomIsMade'
  BY <1>4, RoomShrinks
<1> QED
  BY <1>1, <1>2, <1>3, <1>5, RecordsFollow

LEMMA DropFollows ==
  ASSUME RecordsInv, NEW c \in Calls, Drop(c)
  PROVE  RecordsHold'
<1> DEFINE x == call[c]
<1>0. PICK q : q = x.ids
  OBVIOUS
<1>1. PICK y : y = [x EXCEPT !.pc = "evict", !.ids = Tail(@)]
  OBVIOUS
<1>2. /\ x.pc = "drop" /\ UNCHANGED <<issued, rushed, active>>
      /\ call' = [call EXCEPT ![c] = y]
  BY <1>1 DEF Drop, TokensInv, TokensTyped, RecordsInv, store
<1>3. CallShaped(x) /\ x # Idle /\ CallServes(x, issued)
  BY <1>2, CallIsServed
<1>4. /\ y.kind = x.kind /\ y.sid = x.sid /\ y.jti = x.jti
      /\ y.pc = "evict" /\ y.read = x.read /\ y.ids = Tail(q)
  BY <1>0, <1>1, <1>3 DEF CallShaped
<1>5. OneCallIs(c, y) /\ y # Idle
  BY <1>2, <1>4, CallGoesOn
<1>6. x.kind = "login" /\ x.read = None /\ q \in Seq(SessionIds) /\ q # << >>
  BY <1>0, <1>2, <1>3 DEF CallServes
<1>7. PICK s : s = Head(q)
  OBVIOUS
<1>8. s \in SessionIds /\ Tail(q) \in Seq(SessionIds) /\ ToSet(q) = {s} \cup ToSet(Tail(q))
  BY <1>6, <1>7, TailIs
<1>9. /\ record' = [record EXCEPT ![s] = None] /\ index' = Without(index, s)
      /\ crossed \subseteq crossed' /\ (record[s] # None => s \in crossed')
  BY <1>0, <1>6, <1>7 DEF Drop, Crossing
<1>10. CallServes(y, issued)
  BY <1>3, <1>4, <1>6, <1>8 DEF CallServes
<1>11. Continues(x, y)
  BY <1>3, <1>4 DEF Continues, Making
<1>12. \A j \in active : /\ Holds(x, j, issued[j]) => Holds(y, j, issued[j])
                         /\ record[s] = j /\ issued[j] = s => s \in crossed' \/ Holds(y, j, s)
  BY <1>2, <1>4, <1>5, <1>6, <1>9, TokensAreSessions DEF Holds
<1>13. ASSUME ~rushed, crossed = {} PROVE RoomFor(y, ToSet(index) \ {s})
  <2>1. RoomFor(x, ToSet(index))
    BY <1>2, <1>3, <1>6, <1>13 DEF Making, RecordsInv, RecordsHold, RoomIsMade
  <2>2. ToSet(index) \ ToSet(q) = (ToSet(index) \ {s}) \ ToSet(Tail(q))
    BY <1>8
  <2> QED
    BY <1>0, <1>4, <2>1, <2>2 DEF RoomFor
<1> QED
  BY <1>2, <1>5, <1>8, <1>9, <1>10, <1>11, <1>12, <1>13, RecordDeleted

LEMMA RevokeRemoveFollows ==
  ASSUME RecordsInv, NEW c \in Calls, RevokeRemove(c)
  PROVE  RecordsHold'
<1> DEFINE x == call[c]
<1>0. PICK q : q = x.ids
  OBVIOUS
<1>1. PICK y : y = [x EXCEPT !.pc = "del"]
  OBVIOUS
<1>2. /\ x.pc = "remove" /\ UNCHANGED <<issued, rushed, active>>
      /\ call' = [call EXCEPT ![c] = y]
  BY <1>1 DEF RevokeRemove, Goto, TokensInv, TokensTyped, RecordsInv, store
<1>3. CallShaped(x) /\ x # Idle /\ CallServes(x, issued)
  BY <1>2, CallIsServed
<1>4. /\ y.kind = x.kind /\ y.sid = x.sid /\ y.jti = x.jti
      /\ y.pc = "del" /\ y.read = x.read /\ y.ids = q
  BY <1>0, <1>1, <1>3 DEF CallShaped
<1>5. OneCallIs(c, y) /\ y # Idle
  BY <1>2, <1>4, CallGoesOn
<1>6. PICK s : s = Target(c)
  OBVIOUS
<1>7. s = Aim(x) /\ s = Aim(y) /\ (x.kind = "login" => s = Head(q)) /\ s \in SessionIds
  <2>1. s = Aim(x) /\ s = Aim(y) /\ (x.kind = "login" => s = Head(q)) /\ (x.kind # "login" => s = x.sid)
    BY <1>0, <1>4, <1>6 DEF Target, Aim
  <2>2. CASE x.kind = "login"
    <3>1. q \in Seq(SessionIds) /\ q # << >>
      BY <1>0, <1>2, <1>3, <2>2 DEF CallServes
    <3> QED
      BY <2>1, <2>2, <3>1, TailIs
  <2>3. CASE x.kind # "login"
    BY <1>2, <1>3, <2>1, <2>3 DEF CallServes
  <2> QED
    BY <2>1, <2>2, <2>3
<1>8. /\ record' = [record EXCEPT ![s] = None] /\ index' = Without(index, s)
      /\ crossed \subseteq crossed' /\ (record[s] # x.read => s \in crossed')
  BY <1>6 DEF RevokeRemove, Crossing
<1>9. CallServes(y, issued)
  BY <1>2, <1>3, <1>0, <1>4 DEF CallServes
<1>10. Continues(x, y)
  BY <1>3, <1>4 DEF Continues, Making
<1>11. \A j \in active : /\ Holds(x, j, issued[j]) => Holds(y, j, issued[j])
                         /\ record[s] = j /\ issued[j] = s => s \in crossed' \/ Holds(y, j, s)
  BY <1>2, <1>3, <1>4, <1>5, <1>7, <1>8 DEF Holds, CallServes
<1>12. ASSUME ~rushed, crossed = {}, Making(y) PROVE RoomFor(y, ToSet(index) \ {s})
  <2>1. RoomFor(x, ToSet(index)) /\ s = Head(q)
    BY <1>2, <1>3, <1>4, <1>7, <1>12 DEF Making, RecordsInv, RecordsHold, RoomIsMade
  <2>2. PICK I : I = ToSet(index)
    OBVIOUS
  <2>3. IsFiniteSet(I)
    BY <2>2, SetsAreFinite DEF RecordsInv, RecordsHold, RecordsTyped
  <2>4. /\ Cardinality((I \ {s}) \ ToSet(q)) <= Cardinality(I \ ToSet(q))
        /\ Cardinality((I \ {s}) \ ToSet(q)) \in Nat /\ Cardinality(I \ ToSet(q)) \in Nat
    <3>1. (I \ {s}) \ ToSet(q) \subseteq I \ ToSet(q) /\ I \ ToSet(q) \subseteq I
      OBVIOUS
    <3>2. IsFiniteSet(I \ ToSet(q))
      BY <2>3, <3>1, FS_Subset
    <3> QED
      BY <3>1, <3>2, FS_Subset, FS_CardinalityType
  <2>5. Cardinality(I \ ToSet(q)) < MaxConcurrent
    BY <1>0, <2>1, <2>2 DEF RoomFor
  <2>6. Cardinality((I \ {s}) \ ToSet(q)) < MaxConcurrent
    BY <2>4, <2>5, LimitAssumption
  <2> QED
    BY <1>4, <2>1, <2>2, <2>6 DEF RoomFor
<1> QED
  BY <1>2, <1>5, <1>7, <1>8, <1>9, <1>10, <1>11, <1>12, RecordDeleted

LEMMA RemoveEachFollows ==
  ASSUME RecordsInv, NEW c \in Calls, RemoveEach(c)
  PROVE  RecordsHold'
<1> DEFINE x == call[c]
<1>0. PICK q : q = x.ids
  OBVIOUS
<1>1. PICK y : y = [x EXCEPT !.ids = Tail(@)]
  OBVIOUS
<1>2. /\ x.pc = "each" /\ q # << >> /\ UNCHANGED <<issued, rushed, active>>
      /\ call' = [call EXCEPT ![c] = y]
  BY <1>0, <1>1 DEF RemoveEach, TokensInv, TokensTyped, RecordsInv, store
<1>3. CallShaped(x) /\ x # Idle /\ CallServes(x, issued)
  BY <1>2, CallIsServed
<1>4. /\ y.kind = x.kind /\ y.sid = x.sid /\ y.jti = x.jti
      /\ y.pc = "each" /\ y.read = x.read /\ y.ids = Tail(q)
  BY <1>0, <1>1, <1>2, <1>3 DEF CallShaped
<1>5. OneCallIs(c, y) /\ y # Idle
  BY <1>2, <1>4, CallGoesOn
<1>6. q \in Seq(SessionIds)
  BY <1>0, <1>3 DEF CallServes
<1>7. PICK s : s = Head(q)
  OBVIOUS
<1>8. s \in SessionIds /\ Tail(q) \in Seq(SessionIds)
  BY <1>2, <1>6, <1>7, TailIs
<1>9. /\ record' = [record EXCEPT ![s] = None] /\ index' = Without(index, s)
      /\ crossed \subseteq crossed'
      /\ x.kind # "mine" /\ Of(s) \cap active # {} => s \in crossed'
  BY <1>0, <1>7 DEF RemoveEach
<1>10. CallServes(y, issued) /\ ~Making(y)
  BY <1>2, <1>3, <1>4, <1>8 DEF CallServes, Making
<1>11. Continues(x, y)
  BY <1>10 DEF Continues
<1>12. \A j \in active : /\ Holds(x, j, issued[j]) => Holds(y, j, issued[j])
                         /\ record[s] = j /\ issued[j] = s => s \in crossed' \/ Holds(y, j, s)
  <2>1. \A j \in active : issued[j] = s => j \in Of(s) \cap active
    BY DEF Of, RecordsInv, TokensInv, TokensTyped
  <2> QED
    BY <1>2, <1>3, <1>4, <1>5, <1>9, <2>1 DEF Holds, CallServes
<1> QED
  BY <1>2, <1>5, <1>8, <1>9, <1>10, <1>11, <1>12, RecordDeleted

(* A record is written by a request that leaves.                           *)
LEMMA RecordWritten ==
  ASSUME RecordsInv, NEW c \in Calls, Done(c), UNCHANGED <<issued, rushed, active>>,
         NEW s, s \in SessionIds, NEW j, j \in Nat, j # None, record' = [record EXCEPT ![s] = j],
         index' = Bumped(s), crossed \subseteq crossed', Of(s) # {},
         record[s] = None => s \in crossed' \/ (Making(call[c]) /\ call[c].sid = s),
         \A k \in active :
           (issued[k] = s /\ record[s] = k) \/ Holds(call[c], k, issued[k]) =>
             issued[k] = s /\ (s \in crossed' \/ k = j),
         RoomIsMade'
  PROVE  RecordsHold'
<1>1. OneCallIs(c, Idle)
  BY CallMoves DEF Done, RecordsInv
<1>2. PICK y : y = Idle
  OBVIOUS
<1>3. CallServes(y, issued) /\ ~Making(y) /\ OneCallIs(c, y)
  BY <1>1, <1>2, IdleServes
<1>4. Continues(call[c], y)
  BY <1>3 DEF Continues
<1>5. IndexMoves
  BY IndexBumped
<1>6. RecordsMove(call[c], y)
  BY <1>3, TokensAreSessions DEF RecordsMove
<1>7. HandsOver(call[c], y)
  BY TokensAreSessions DEF HandsOver
<1> QED
  BY <1>3, <1>4, <1>5, <1>6, <1>7, RecordsFollow

(* Written from a read that is still true, it is there already.            *)
LEMMA RoomAfterWrite ==
  ASSUME RecordsInv, NEW c \in Calls, Done(c), UNCHANGED rushed,
         NEW s, s \in SessionIds, NEW j, j \in Nat, j # None, record' = [record EXCEPT ![s] = j],
         index' = Bumped(s), crossed \subseteq crossed',
         record[s] = None => s \in crossed'
  PROVE  RoomIsMade'
<1>1. OneCallIs(c, Idle)
  BY CallMoves DEF Done, RecordsInv
<1>2. PICK y : y = Idle
  OBVIOUS
<1>3. ~Making(y) /\ OneCallIs(c, y)
  BY <1>1, <1>2, IdleServes
<1>4. ToSet(index') = ToSet(index) \cup {s}
  BY IndexBumped
<1>5. crossed' = {} => s \in ToSet(index)
  BY DEF RecordsInv, RecordsHold, IndexMatches
<1>6. RoomStays(y)
  BY <1>3, <1>4, <1>5 DEF RoomStays
<1> QED
  BY <1>3, <1>6, RoomShrinks

LEMMA RotateWriteFollows ==
  ASSUME RecordsInv, NEW c \in Calls, RotateWrite(c)
  PROVE  RecordsHold'
<1> DEFINE x == call[c]
<1>1. PICK s, j : s = x.sid /\ j = x.jti
  OBVIOUS
<1>2. /\ x.pc = "rotated" /\ Done(c) /\ UNCHANGED <<issued, rushed, active>>
      /\ record' = [record EXCEPT ![s] = j] /\ index' = Bumped(s)
      /\ crossed \subseteq crossed'
      /\ record[s] # x.read \/ j \notin active => s \in crossed'
  BY <1>1 DEF RotateWrite, Crossing, store
<1>3. CallServes(x, issued) /\ x # Idle
  BY <1>2, CallIsServed
<1>4. /\ s \in SessionIds /\ j \in 1..Len(issued) /\ issued[j] = s
      /\ x.read # None /\ x.kind = "refresh"
  BY <1>1, <1>2, <1>3 DEF CallServes
<1>5. j \in Nat /\ j # None /\ Of(s) # {}
  BY <1>4 DEF None, Of, Tokens, RecordsInv, TokensInv, TokensTyped
<1>6. record[s] = None => s \in crossed'
  BY <1>2, <1>4
<1>b. s \in SessionIds /\ j \in Nat /\ j # None /\ Of(s) # {}
  BY <1>4, <1>5
<1>a. record[s] = None => s \in crossed' \/ (Making(call[c]) /\ call[c].sid = s)
  BY <1>6
<1>7. \A k \in active :
        (issued[k] = s /\ record[s] = k) \/ Holds(x, k, issued[k]) =>
          issued[k] = s /\ (s \in crossed' \/ k = j)
  <2>1. j \in active => \A k \in active : issued[k] = s => k = j
    BY <1>4 DEF RecordsInv, TokensInv, OneIsLive
  <2> QED
    BY <1>1, <1>2, <1>4, <2>1 DEF Holds
<1>8. RoomIsMade'
  BY <1>2, <1>4, <1>5, <1>6, RoomAfterWrite
<1> QED
  BY <1>2, <1>b, <1>a, <1>7, <1>8, RecordWritten

LEMMA TouchWriteFollows ==
  ASSUME RecordsInv, NEW c \in Calls, TouchWrite(c)
  PROVE  RecordsHold'
<1> DEFINE x == call[c]
<1>1. PICK s, j : s = x.sid /\ j = x.read
  OBVIOUS
<1>2. /\ x.pc = "touch" /\ Done(c) /\ UNCHANGED <<issued, rushed, active>>
      /\ record' = [record EXCEPT ![s] = j] /\ index' = Bumped(s)
      /\ crossed \subseteq crossed' /\ (record[s] # j => s \in crossed')
  BY <1>1 DEF TouchWrite, Crossing, store
<1>3. CallServes(x, issued) /\ x # Idle
  BY <1>2, CallIsServed
<1>4. /\ s \in SessionIds /\ j \in Nat /\ j # None /\ Of(s) # {}
      /\ x.kind \notin {"login", "mine"}
  BY <1>1, <1>2, <1>3 DEF CallServes, Of, Tokens
<1>5. record[s] = None => s \in crossed'
  BY <1>2, <1>4
<1>a. record[s] = None => s \in crossed' \/ (Making(call[c]) /\ call[c].sid = s)
  BY <1>5
<1>6. \A k \in active :
        (issued[k] = s /\ record[s] = k) \/ Holds(x, k, issued[k]) =>
          issued[k] = s /\ (s \in crossed' \/ k = j)
  BY <1>2, <1>4 DEF Holds
<1>7. RoomIsMade'
  BY <1>2, <1>4, <1>5, RoomAfterWrite
<1> QED
  BY <1>2, <1>4, <1>a, <1>6, <1>7, RecordWritten

(* The session of a login is new: its record names the token that the      *)
(* login issued, and there is room for it.                                 *)
LEMMA CreateFollows ==
  ASSUME RecordsInv, NEW c \in Calls, Create(c)
  PROVE  RecordsHold'
<1> DEFINE x == call[c]
<1>1. PICK s, j : s = x.sid /\ j = x.jti
  OBVIOUS
<1>2. /\ x.pc = "evict" /\ x.ids = << >> /\ Done(c)
      /\ UNCHANGED <<issued, rushed, active, crossed>>
      /\ record' = [record EXCEPT ![s] = j] /\ index' = Bumped(s)
  BY <1>1 DEF Create, store, history
<1>3. CallServes(x, issued) /\ x # Idle
  BY <1>2, CallIsServed
<1>4. /\ s \in SessionIds /\ j \in 1..Len(issued) /\ issued[j] = s /\ Making(x)
  BY <1>1, <1>2, <1>3 DEF CallServes, Making
<1>5. j \in Nat /\ j # None /\ Of(s) # {}
  BY <1>4 DEF None, Of, Tokens, RecordsInv, TokensInv, TokensTyped
<1>6. s \in crossed \/ record[s] = None
  BY <1>1, <1>4 DEF RecordsInv, RecordsHold, LoginsAreNew
<1>b. s \in SessionIds /\ j \in Nat /\ j # None /\ Of(s) # {}
  BY <1>4, <1>5
<1>a. record[s] = None => s \in crossed' \/ (Making(call[c]) /\ call[c].sid = s)
  BY <1>1, <1>4
<1>7. \A k \in active :
        (issued[k] = s /\ record[s] = k) \/ Holds(x, k, issued[k]) =>
          issued[k] = s /\ (s \in crossed' \/ k = j)
  <2>1. \A k : Holds(x, k, issued[k]) => k = j
    BY <1>1, <1>2, <1>4 DEF Holds, Making
  <2> QED
    BY <1>2, <1>4, <1>6, <2>1, TokensAreSessions
<1>8. RoomIsMade'
  <2> SUFFICES ASSUME ~rushed, crossed = {}
               PROVE  /\ Cardinality(ToSet(index')) <= MaxConcurrent
                      /\ \A d \in Calls : ~Making(call'[d])
    BY <1>2 DEF RoomIsMade, Making
  <2>1. RoomFor(x, ToSet(index))
    BY <1>2, <1>4 DEF RecordsInv, RecordsHold, RoomIsMade
  <2>2. PICK I : I = ToSet(index)
    OBVIOUS
  <2>3. ToSet(x.ids) = {}
    <3>1. PICK e : e = x.ids
      OBVIOUS
    <3>2. e = << >> /\ DOMAIN e = {}
      BY <1>2, <3>1
    <3> QED
      BY <3>1, <3>2 DEF ToSet
  <2>4. Cardinality(I) < MaxConcurrent
    <3>1. I \ ToSet(x.ids) = I
      BY <2>3
    <3> QED
      BY <2>1, <2>2, <3>1 DEF RoomFor
  <2>5. IsFiniteSet(I) /\ Cardinality(I) \in Nat
    BY <2>2, SetsAreFinite DEF RecordsInv, RecordsHold, RecordsTyped
  <2>6. ToSet(index') = I \cup {s}
    BY <1>2, <1>4, <1>5, <2>2, IndexBumped
  <2>7. Cardinality(I \cup {s}) <= Cardinality(I) + 1 /\ Cardinality(I \cup {s}) \in Nat
    <3>1. IsFiniteSet(I \cup {s}) /\ (Cardinality(I \cup {s}) = Cardinality(I) \/ Cardinality(I \cup {s}) = Cardinality(I) + 1)
      BY <2>5, FS_AddElement
    <3> QED
      BY <2>5, <3>1
  <2>8. Cardinality(ToSet(index')) <= MaxConcurrent
    BY <2>4, <2>5, <2>6, <2>7, LimitAssumption
  <2>9. \A d \in Calls : ~Making(call'[d])
    <3>1. \A d \in Calls : Making(call[d]) => d = c
      BY <1>4 DEF RecordsInv, RecordsHold, LoginsAreNew
    <3>2. OneCallIs(c, Idle)
      BY <1>2, CallMoves DEF Done, RecordsInv
    <3> QED
      BY <3>1, <3>2, IdleServes DEF OneCallIs
  <2> QED
    BY <2>8, <2>9
<1> QED
  BY <1>2, <1>b, <1>a, <1>7, <1>8, RecordWritten

-----------------------------------------------------------------------------
(* The steps that register a token.                                        *)

LEMMA IssueFollows ==
  ASSUME RecordsInv, NEW c \in Calls, NEW y, OneCallIs(c, y), NEW s \in SessionIds, Issue(s),
         UNCHANGED <<record, index, crossed>>, rushed => rushed',
         CallServes(y, issued'), Holds(y, Len(issued) + 1, s),
         \A j \in active : ~Holds(call[c], j, issued[j]),
         Making(y) =>
           /\ Of(s) = {} /\ y.sid = s /\ y.pc = "limit"
           /\ \A d \in Calls : Making(call[d]) => call[d].sid # s /\ rushed'
  PROVE  RecordsHold'
<1>1. /\ RecordsTyped /\ TokensAreHeld /\ LoginsAreNew /\ IndexMatches /\ RoomIsMade
      /\ issued \in Seq(SessionIds) /\ active \subseteq 1..Len(issued)
  BY DEF RecordsInv, RecordsHold, TokensInv, TokensTyped, Tokens
<1>2. PICK n : n = Len(issued) + 1
  OBVIOUS
<1>3. issued' = Append(issued, s) /\ active' = active \cup {n}
  BY <1>2 DEF Issue
<1>4. /\ issued' \in Seq(SessionIds) /\ Len(issued') = n /\ issued'[n] = s
      /\ \A k \in 1..Len(issued) : issued'[k] = issued[k] /\ k \in 1..Len(issued')
      /\ n \in 1..Len(issued') /\ n \notin 1..Len(issued)
  BY <1>1, <1>2, <1>3
<1>5. \A d \in Calls \ {c} : call'[d] = call[d]
  BY DEF OneCallIs
<1>6. call'[c] = y
  BY DEF OneCallIs
<1>7. RecordsTyped'
  <2>1. ASSUME NEW x, CallServes(x, issued) PROVE CallServes(x, issued')
    BY <1>4, <2>1 DEF CallServes
  <2>2. \A d \in Calls : CallServes(call'[d], issued')
    BY <1>1, <1>5, <1>6, <2>1 DEF RecordsTyped
  <2>3. \A t : Of(t) # {} => Of(t)' # {}
    BY <1>4 DEF Of, Tokens
  <2> QED
    BY <1>1, <2>2, <2>3 DEF RecordsTyped
<1>8. TokensAreHeld'
  <2> SUFFICES ASSUME NEW j \in active'
               PROVE  \/ issued'[j] \in crossed
                      \/ record[issued'[j]] = j
                      \/ \E d \in Calls : Holds(call'[d], j, issued'[j])
    BY DEF TokensAreHeld, Holds, Aim
  <2>1. CASE j = n
    BY <1>2, <1>4, <1>6, <2>1
  <2>2. CASE j \in active
    <3>1. issued'[j] = issued[j]
      BY <1>1, <1>4, <2>2
    <3>2. \/ issued[j] \in crossed
          \/ record[issued[j]] = j
          \/ \E d \in Calls : Holds(call[d], j, issued[j])
      BY <1>1, <2>2 DEF TokensAreHeld
    <3>3. \A d \in Calls : Holds(call[d], j, issued[j]) => Holds(call'[d], j, issued[j])
      BY <1>5, <2>2
    <3> QED
      BY <3>1, <3>2, <3>3
  <2> QED
    BY <1>3, <2>1, <2>2
<1>9. LoginsAreNew'
  <2>1. \A d \in Calls : Making(call'[d]) =>
          (d = c /\ Making(y)) \/ (d # c /\ Making(call[d]) /\ call'[d] = call[d])
    BY <1>5, <1>6
  <2>2. Making(y) => record[s] = None
    BY <1>1 DEF RecordsTyped
  <2>3. \A d \in Calls : Making(call'[d]) => call'[d].sid \in crossed' \/ record'[call'[d].sid] = None
    BY <1>1, <1>6, <2>1, <2>2 DEF LoginsAreNew
  <2>4. \A d, e \in Calls : Making(call'[d]) /\ Making(call'[e]) /\ call'[d].sid = call'[e].sid => d = e
    BY <1>1, <1>6, <2>1 DEF LoginsAreNew
  <2>5. ~rushed' => \A d, e \in Calls : Making(call'[d]) /\ Making(call'[e]) => d = e
    BY <1>1, <2>1 DEF LoginsAreNew
  <2> QED
    BY <2>3, <2>4, <2>5 DEF LoginsAreNew, Making
<1>10. IndexMatches'
  BY <1>1 DEF IndexMatches
<1>11. RoomIsMade'
  <2> SUFFICES ASSUME ~rushed', crossed = {}
               PROVE  /\ Cardinality(ToSet(index)) <= MaxConcurrent
                      /\ \A d \in Calls : Making(call'[d]) /\ call'[d].pc # "limit" =>
                           RoomFor(call'[d], ToSet(index))
    BY DEF RoomIsMade, Making, RoomFor
  <2>1. /\ Cardinality(ToSet(index)) <= MaxConcurrent
        /\ \A d \in Calls : Making(call[d]) /\ call[d].pc # "limit" => RoomFor(call[d], ToSet(index))
    BY <1>1 DEF RoomIsMade
  <2> QED
    BY <1>5, <1>6, <2>1
<1> QED
  BY <1>7, <1>8, <1>9, <1>10, <1>11 DEF RecordsHold

LEMMA IssueNextFollows ==
  ASSUME RecordsInv, NEW c \in Calls, IssueNext(c)
  PROVE  RecordsHold'
<1> DEFINE x == call[c]
<1>1. PICK n, s : n = Len(issued) + 1 /\ s = x.sid
  OBVIOUS
<1>2. PICK y : y = [x EXCEPT !.pc = "rotate", !.jti = n]
  OBVIOUS
<1>3. /\ x.pc = "issue" /\ Issue(s) /\ UNCHANGED <<record, index, crossed, rushed>>
      /\ call' = [call EXCEPT ![c] = y]
  BY <1>1, <1>2 DEF IssueNext, TokensInv, TokensTyped, RecordsInv, sessions, history
<1>4. CallShaped(x) /\ x # Idle /\ CallServes(x, issued)
  BY <1>3, CallIsServed
<1>5. /\ y.kind = x.kind /\ y.sid = s /\ y.jti = n
      /\ y.pc = "rotate" /\ y.read = x.read /\ y.ids = x.ids
  BY <1>1, <1>2, <1>4 DEF CallShaped
<1>6. OneCallIs(c, y) /\ y # Idle
  BY <1>3, <1>5, CallGoesOn
<1>7. s \in SessionIds /\ x.kind = "refresh"
  BY <1>1, <1>3, <1>4 DEF CallServes
<1>9. n \in 1..Len(issued') /\ issued'[n] = s
  BY <1>1, <1>3, <1>7 DEF Issue, RecordsInv, TokensInv, TokensTyped
<1>10. CallServes(y, issued') /\ ~Making(y)
  BY <1>4, <1>5, <1>7, <1>9 DEF CallServes, Making
<1>11. \A j \in active : ~Holds(x, j, issued[j])
  BY <1>3, <1>7 DEF Holds
<1>12. Holds(y, Len(issued) + 1, s)
  BY <1>1, <1>5, <1>6 DEF Holds
<1> QED
  BY <1>3, <1>6, <1>7, <1>10, <1>11, <1>12, IssueFollows

LEMMA LoginFollows ==
  ASSUME RecordsInv, NEW c \in Calls, NEW s \in SessionIds, Login(c, s)
  PROVE  RecordsHold'
<1>1. PICK kind, pc, n : kind = "login" /\ pc = "limit" /\ n = Len(issued) + 1
  OBVIOUS
<1>2. /\ Begin(c, kind, pc, s, n) /\ Issue(s) /\ pc # "idle"
      /\ UNCHANGED <<record, index, crossed>>
      /\ rushed' = (rushed \/ \E d \in InFlight : call[d].kind = "login")
      /\ Of(s) = {} /\ \A d \in InFlight : call[d].sid # s
  BY <1>1 DEF Login, sessions
<1>3. PICK y : /\ OneCallIs(c, y) /\ CallShaped(y)
               /\ y.kind = kind /\ y.pc = pc /\ y.sid = s /\ y.jti = n /\ y.ids = << >>
  BY <1>2, CallBegins DEF RecordsInv
<1>4. y # Idle
  BY <1>1, <1>3 DEF Idle
<1>5. n \in 1..Len(issued') /\ issued'[n] = s
  BY <1>1, <1>2 DEF Issue, RecordsInv, TokensInv, TokensTyped
<1>6. CallServes(y, issued')
  BY <1>1, <1>3, <1>5 DEF CallServes
<1>7. Holds(y, Len(issued) + 1, s)
  BY <1>1, <1>3, <1>4 DEF Holds
<1>8. \A j \in active : ~Holds(call[c], j, issued[j])
  BY <1>2, IdleServes DEF Begin
<1>9. \A d \in Calls : Making(call[d]) => call[d].sid # s /\ rushed'
  BY <1>2 DEF Making, InFlight
<1> QED
  BY <1>1, <1>2, <1>3, <1>6, <1>7, <1>8, <1>9, IssueFollows

-----------------------------------------------------------------------------
(* Requests that begin.                                                    *)

LEMMA BeginsFollow ==
  ASSUME RecordsInv, NEW c \in Calls,
         \/ \E s \in SessionIds : Revoke(c, s) \/ TouchRead(c, s)
         \/ \E j \in Tokens : Refresh(c, j) \/ Logout(c, j)
         \/ RevokeAll(c)
  PROVE  RecordsHold'
<1>1. issued \in Seq(SessionIds) /\ record \in [SessionIds -> Nat]
  BY DEF RecordsInv, RecordsHold, RecordsTyped, TokensInv, TokensTyped
<1>2. ASSUME NEW s \in SessionIds, Revoke(c, s) PROVE RecordsHold'
  <2>1. PICK kind, pc, j : kind = "revoke" /\ pc = "get" /\ j = None
    OBVIOUS
  <2>2. Begin(c, kind, pc, s, j) /\ Fresh
    BY <1>2, <2>1 DEF Revoke
  <2>3. ASSUME NEW y, y.kind = kind, y.pc = pc, y.sid = s, y.ids = << >>
        PROVE  CallServes(y, issued)
    BY <2>1, <2>3 DEF CallServes
  <2> QED
    BY <2>1, <2>2, <2>3, BeginFollows
<1>3. ASSUME NEW s \in SessionIds, TouchRead(c, s) PROVE RecordsHold'
  <2>1. PICK kind, pc, j : kind = "touch" /\ pc = "touch" /\ j = None
    OBVIOUS
  <2>2. Begin(c, kind, pc, s, j) /\ Fresh /\ record[s] # None
    BY <1>3, <2>1 DEF TouchRead
  <2>3. \E k \in 1..Len(issued) : issued[k] = s
    BY <2>2 DEF RecordsInv, RecordsHold, RecordsTyped, Of, Tokens
  <2>4. ASSUME NEW y, y.kind = kind, y.pc = pc, y.sid = s, y.ids = << >>,
               y.read = (IF kind = "touch" THEN record[s] ELSE None)
        PROVE  CallServes(y, issued)
    BY <1>1, <2>1, <2>2, <2>3, <2>4 DEF CallServes
  <2> QED
    BY <2>1, <2>2, <2>4, BeginFollows
<1>4. ASSUME NEW j \in Tokens, Refresh(c, j) PROVE RecordsHold'
  <2>1. PICK kind, pc, s : kind = "refresh" /\ pc = "consume" /\ s = issued[j]
    OBVIOUS
  <2>2. Begin(c, kind, pc, s, j) /\ Fresh /\ s \in SessionIds
    BY <1>1, <1>4, <2>1 DEF Refresh, Tokens
  <2>3. ASSUME NEW y, y.kind = kind, y.pc = pc, y.sid = s, y.ids = << >>
        PROVE  CallServes(y, issued)
    BY <2>1, <2>2, <2>3 DEF CallServes
  <2> QED
    BY <2>1, <2>2, <2>3, BeginFollows
<1>5. ASSUME NEW j \in Tokens, Logout(c, j) PROVE RecordsHold'
  <2>1. PICK kind, pc, s : kind = "logout" /\ pc = "get" /\ s = issued[j]
    OBVIOUS
  <2>2. Begin(c, kind, pc, s, j) /\ Fresh /\ s \in SessionIds
    BY <1>1, <1>5, <2>1 DEF Logout, Tokens
  <2>3. ASSUME NEW y, y.kind = kind, y.pc = pc, y.sid = s, y.ids = << >>
        PROVE  CallServes(y, issued)
    BY <2>1, <2>2, <2>3 DEF CallServes
  <2> QED
    BY <2>1, <2>2, <2>3, BeginFollows
<1>6. ASSUME RevokeAll(c) PROVE RecordsHold'
  <2>1. PICK kind, pc, s, j :
          /\ s = "all" /\ j = None
          /\ \/ kind = "password" /\ pc = "epoch"
             \/ kind = "mine" /\ pc = "list"
          /\ Begin(c, kind, pc, s, j)
    BY <1>6 DEF RevokeAll
  <2>2. Fresh
    BY <1>6 DEF RevokeAll
  <2>3. ASSUME NEW y, y.kind = kind, y.pc = pc, y.sid = s, y.ids = << >>
        PROVE  CallServes(y, issued)
    BY <2>1, <2>3 DEF CallServes
  <2> QED
    BY <2>1, <2>2, <2>3, BeginFollows
<1> QED
  BY <1>2, <1>3, <1>4, <1>5, <1>6

LEMMA RecordsStart == SessionsInit => RecordsHold
<1> SUFFICES ASSUME SessionsInit PROVE RecordsHold
  OBVIOUS
<1>1. /\ active = {} /\ crossed = {} /\ record = [s \in SessionIds |-> None]
      /\ \A c \in Calls : call[c] = Idle
  BY DEF SessionsInit
<1>2. index \in Seq(SessionIds) /\ IsInjective(index) /\ ToSet(index) = {}
  <2>1. PICK e : e = index /\ e = << >>
    BY DEF SessionsInit
  <2>2. Len(e) = 0 /\ e \in Seq(SessionIds) /\ DOMAIN e = {}
    BY <2>1
  <2> QED
    BY <2>1, <2>2 DEF IsInjective, ToSet
<1>3. RecordsTyped
  BY <1>1, <1>2, IdleServes DEF RecordsTyped, None
<1>4. TokensAreHeld
  BY <1>1 DEF TokensAreHeld
<1>5. LoginsAreNew
  BY <1>1, IdleServes DEF LoginsAreNew
<1>6. IndexMatches
  BY <1>1, <1>2 DEF IndexMatches
<1>7. RoomIsMade
  BY <1>1, <1>2, IdleServes, FS_EmptySet, LimitAssumption DEF RoomIsMade
<1> QED
  BY <1>3, <1>4, <1>5, <1>6, <1>7 DEF RecordsHold

LEMMA RecordsUntouched ==
  ASSUME RecordsInv, UNCHANGED <<issued, active, record, index, call, crossed, rushed>>
  PROVE  RecordsHold'
<1>1. RecordsTyped'
  BY DEF RecordsInv, RecordsHold, RecordsTyped, Of, Tokens
<1>2. TokensAreHeld'
  BY DEF RecordsInv, RecordsHold, TokensAreHeld
<1>3. LoginsAreNew' /\ IndexMatches'
  BY DEF RecordsInv, RecordsHold, LoginsAreNew, IndexMatches
<1>4. RoomIsMade'
  BY DEF RecordsInv, RecordsHold, RoomIsMade
<1> QED
  BY <1>1, <1>2, <1>3, <1>4 DEF RecordsHold

LEMMA RecordsKeep == RecordsInv /\ [SessionsNext]_sessionVars => RecordsInv'
<1> SUFFICES ASSUME RecordsInv, [SessionsNext]_sessionVars PROVE RecordsHold'
  BY SessionsKeep DEF RecordsInv
<1>1. ASSUME NEW c \in Calls, NEW s \in SessionIds, Login(c, s)
      PROVE  RecordsHold'
  BY <1>1, LoginFollows
<1>2. ASSUME NEW c \in Calls,
             \/ \E s \in SessionIds : Revoke(c, s) \/ TouchRead(c, s)
             \/ \E j \in Tokens : Refresh(c, j) \/ Logout(c, j)
             \/ RevokeAll(c)
      PROVE  RecordsHold'
  BY <1>2, BeginsFollow
<1>3. ASSUME NEW c \in Calls,
             \/ Limit(c) \/ Evict(c) \/ Drop(c) \/ Create(c)
             \/ Consume(c) \/ Deny(c) \/ IssueNext(c) \/ RotateRead(c) \/ RotateWrite(c)
             \/ TouchWrite(c)
      PROVE  RecordsHold'
  BY <1>3, LimitFollows, EvictFollows, DropFollows, CreateFollows, ConsumeFollows, DenyFollows,
     IssueNextFollows, RotateReadFollows, RotateWriteFollows, TouchWriteFollows
<1>4. ASSUME NEW c \in Calls,
             \/ RevokeRead(c) \/ RevokeRemove(c) \/ RevokeDel(c)
             \/ LogoutBlacklist(c) \/ LogoutConsume(c)
             \/ SetEpoch(c) \/ Invalidate(c) \/ List(c)
             \/ RemoveEach(c) \/ RemoveIndex(c) \/ Crash(c)
      PROVE  RecordsHold'
  BY <1>4, RevokeReadFollows, RevokeRemoveFollows, RevokeDelFollows, LogoutBlacklistFollows,
     LogoutConsumeFollows, SetEpochFollows, InvalidateFollows, ListFollows, RemoveEachFollows,
     RemoveIndexFollows, CrashFollows
<1>5. ASSUME NEW j \in Tokens, MarkerExpires(j)
      PROVE  RecordsHold'
  BY <1>5, RecordsUntouched DEF MarkerExpires, sessions, history
<1>6. CASE UNCHANGED sessionVars
  BY <1>6, RecordsUntouched DEF sessionVars, store, sessions, history
<1> QED
  BY <1>1, <1>2, <1>3, <1>4, <1>5, <1>6 DEF SessionsNext

(* Tokens and session records tell the same story, however refreshes,      *)
(* heartbeats, logouts and revocations overlap and die: a session has one  *)
(* live token at most; outside of requests its record names that token,    *)
(* but for sessions written from a stale read; and logins that do not      *)
(* overlap keep the number of sessions within its limit.                   *)
THEOREM SessionsTellTheirTokens == SessionsSpec => []TokensMatchSessions
<1>1. ASSUME RecordsInv PROVE TokensHaveSessions
  <2> SUFFICES ASSUME NEW j \in active, issued[j] \notin crossed, record[issued[j]] # j
               PROVE  Busy(issued[j])
    BY DEF TokensHaveSessions
  <2>1. PICK c \in Calls : Holds(call[c], j, issued[j])
    BY <1>1 DEF RecordsInv, RecordsHold, TokensAreHeld
  <2>2. call[c] # Idle /\ CallServes(call[c], issued) /\ c \in InFlight
    BY <1>1, <2>1 DEF Holds, InFlight, RecordsInv, RecordsHold, RecordsTyped
  <2>3. call[c].sid \in {issued[j], "all"} \/ issued[j] \in ToSet(call[c].ids)
    <3>1. CASE call[c].kind = "login" /\ call[c].jti = j
      BY <2>2, <3>1 DEF CallServes
    <3>2. CASE call[c].pc \in {"rotate", "rotated"} /\ call[c].jti = j
      BY <2>2, <3>2 DEF CallServes
    <3>3. CASE call[c].kind = "mine"
      BY <2>2, <3>3 DEF CallServes
    <3>4. CASE call[c].pc = "del" /\ Aim(call[c]) = issued[j] /\ call[c].kind # "login"
      BY <3>4 DEF Aim
    <3>5. CASE call[c].pc = "del" /\ Aim(call[c]) = issued[j] /\ call[c].kind = "login"
      <4>1. PICK q : q = call[c].ids
        OBVIOUS
      <4>2. q \in Seq(SessionIds) /\ q # << >>
        BY <2>2, <3>5, <4>1 DEF CallServes
      <4>3. Head(q) \in ToSet(q)
        BY <4>2, TailIs
      <4> QED
        BY <3>5, <4>1, <4>3 DEF Aim
    <3> QED
      BY <2>1, <3>1, <3>2, <3>3, <3>4, <3>5 DEF Holds
  <2> QED
    BY <2>2, <2>3 DEF Busy
<1>2. ASSUME RecordsInv PROVE SessionLimit
  <2>1. Cardinality(ToSet(index)) = Len(index)
    BY <1>2, LengthIs DEF RecordsInv, RecordsHold, RecordsTyped
  <2> QED
    BY <1>2, <2>1 DEF RecordsInv, RecordsHold, RoomIsMade, SessionLimit
<1>3. RecordsInv => TokensHaveSessions /\ SessionLimit
  BY <1>1, <1>2
<1>4. SessionsInit => RecordsInv
  BY TokensStart, RecordsStart DEF RecordsInv
<1>5. TokensHaveSessions /\ SessionLimit /\ OneTokenPerSession => TokensMatchSessions
  BY DEF TokensMatchSessions
<1> QED
  BY <1>3, <1>4, <1>5, RecordsKeep, OneTokenAtATime, PTL DEF SessionsSpec
=============================================================================
