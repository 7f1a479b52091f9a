--------------------------- MODULE CustomerProofs ---------------------------
(***************************************************************************)
(* What an organization sees of the system: the socket of its web client   *)
(* follows the sign-in, its credit alerts come once, its webhooks are      *)
(* posted as often as their logs and their losses say, its audit log       *)
(* keeps, shows and exports what it should, its settings pages show what   *)
(* is stored, and reading a list page by page shows all of it.             *)
(***************************************************************************)
EXTENDS CreditAlerts, Deliveries, WebClient, Pages, Statements, Retention, AuditExport,
        SequenceTheorems, FiniteSetTheorems, TLAPS

-----------------------------------------------------------------------------
(* The socket.  SocketMatchesLogin only speaks of the moments when the     *)
(* page has caught up; what is inductive is that the socket always belongs *)
(* to the credentials of the last commit.                                  *)


Credentials == [token : Nat, org : OrgClaims]

CredsTyped == creds \in Credentials /\ committed \in Credentials /\ tokens \in Nat

(* The socket of the last commit's credentials, or none if they had no use *)
(* for one; it may be up or down and have any subscriptions.               *)
SocketOfCommit ==
  /\ (socket # Absent) = Usable(committed)
  /\ socket # Absent =>
       /\ socket \in Sockets
       /\ socket.token = committed.token /\ socket.org = committed.org

ClientInv == CredsTyped /\ SocketOfCommit

-----------------------------------------------------------------------------

LEMMA OpenedIsSocket ==
  ASSUME NEW c \in Credentials
  PROVE  Opened(c) \in Sockets /\ Opened(c) # Absent
<1>1. Opened(c) \in Sockets
  BY DEF Opened, Sockets, Credentials, OrgClaims
<1> QED BY <1>1, AbsentAssumption

(* The clean-ups run before the effects, so the provider starts from no    *)
(* socket, whatever the listeners do around it.                            *)
LEMMA CommitStep ==
  ASSUME ClientInv, Commit
  PROVE  ClientInv'
<1>1. CredsTyped'
  BY DEF ClientInv, CredsTyped, Commit
<1>2. CleanUp(ListenersLeave(socket)) = Absent
  <2>1. CASE Usable(committed)
    BY <2>1 DEF CleanUp, Disconnect
  <2>2. CASE ~Usable(committed)
    <3>1. socket = Absent
      BY <2>2 DEF ClientInv, SocketOfCommit
    <3>2. ListenersLeave(socket) = Absent
      BY <3>1 DEF ListenersLeave, Unsubscribe
    <3> QED BY <2>2, <3>2 DEF CleanUp
  <2> QED BY <2>1, <2>2
<1>3. ListenersAppear(Absent) = Absent
  BY DEF ListenersAppear, Subscribe
<1>4. socket' = ProviderEffect(Absent) /\ committed' = creds
  BY <1>2, <1>3 DEF Commit
<1>5. creds \in Credentials
  BY DEF ClientInv, CredsTyped
<1>6. CASE Usable(creds)
  <2>1. socket' = Opened(creds)
    BY <1>4, <1>6 DEF ProviderEffect, Connect
  <2>2. socket' \in Sockets /\ socket' # Absent
    BY <2>1, <1>5, OpenedIsSocket
  <2>3. socket'.token = creds.token /\ socket'.org = creds.org
    BY <2>1 DEF Opened
  <2>4. Usable(committed')
    BY <1>4, <1>6
  <2> QED BY <1>1, <1>4, <2>2, <2>3, <2>4 DEF ClientInv, SocketOfCommit, Usable
<1>7. CASE ~Usable(creds)
  <2>1. socket' = Absent
    BY <1>4, <1>7 DEF ProviderEffect, Disconnect
  <2> QED BY <1>1, <1>4, <1>7, <2>1 DEF ClientInv, SocketOfCommit, Usable
<1> QED BY <1>6, <1>7

(* An answer of the server writes the credentials; the socket waits for    *)
(* the commit.                                                             *)
LEMMA AnswerStep ==
  ASSUME ClientInv,
         \/ \E org \in OrgClaims : LoggedIn(org) \/ Refreshed(org)
         \/ LoggedOut \/ RefreshFailed
  PROVE  ClientInv'
<1>1. UNCHANGED <<committed, socket>>
  BY DEF LoggedIn, Refreshed, LoggedOut, RefreshFailed
<1>2. creds' \in Credentials /\ tokens' \in Nat
  BY DEF ClientInv, CredsTyped, Credentials, OrgClaims, LoggedIn, Refreshed,
         LoggedOut, RefreshFailed, SetCredentials, SignedOut
<1> QED BY <1>1, <1>2 DEF ClientInv, CredsTyped, SocketOfCommit, Usable

(* The connection comes and goes under the socket, which stays that of its *)
(* token.                                                                  *)
LEMMA ConnectionStep ==
  ASSUME ClientInv, SocketStep
  PROVE  ClientInv'
<1>1. /\ socket # Absent /\ socket \in Sockets
      /\ UNCHANGED <<creds, committed, tokens>>
  BY DEF ClientInv, SocketOfCommit, SocketStep, Up, Drop, AttemptFails
<1>2. \/ socket' = [socket EXCEPT !.up = TRUE, !.attempts = 0]
      \/ socket' = [socket EXCEPT !.up = FALSE]
      \/ socket' = [socket EXCEPT !.attempts = @ + 1]
  BY DEF SocketStep, Up, Drop, AttemptFails
<1>3. /\ socket' \in Sockets
      /\ socket'.token = socket.token /\ socket'.org = socket.org
  <2>1. socket.attempts \in Nat
    BY <1>1 DEF Sockets
  <2>2. CASE socket' = [socket EXCEPT !.up = TRUE, !.attempts = 0]
    BY <1>1, <2>2 DEF Sockets
  <2>3. CASE socket' = [socket EXCEPT !.up = FALSE]
    BY <1>1, <2>3 DEF Sockets
  <2>4. CASE socket' = [socket EXCEPT !.attempts = @ + 1]
    <3>1. socket.attempts + 1 \in Nat
      BY <2>1
    <3> QED BY <1>1, <2>4, <3>1 DEF Sockets
  <2> QED BY <1>2, <2>2, <2>3, <2>4
<1>4. socket' # Absent
  BY <1>3, AbsentAssumption
<1> QED BY <1>1, <1>3, <1>4 DEF ClientInv, CredsTyped, SocketOfCommit, Usable

LEMMA QuietStep ==
  ASSUME ClientInv,
         \/ \E m \in Mutations : Send(m)
         \/ LoginFailed \/ MarkAllRead \/ UNCHANGED clientVars
         \/ \E org \in Memberships, channel \in Channels : Emit(org, channel)
  PROVE  ClientInv'
<1>1. UNCHANGED <<creds, committed, socket, tokens>>
  BY DEF Send, LoginFailed, MarkAllRead, Emit, clientVars
<1> QED BY <1>1 DEF ClientInv, CredsTyped, SocketOfCommit, Usable

LEMMA ClientStart == ClientInit => ClientInv
BY DEF ClientInit, ClientInv, CredsTyped, SocketOfCommit, SignedOut, Usable,
       Credentials, OrgClaims

LEMMA ClientKeeps == ClientInv /\ [ClientNext]_clientVars => ClientInv'
BY CommitStep, AnswerStep, ConnectionStep, QuietStep DEF ClientNext

(* Whatever sign-ins, refreshes and sign-outs overlap, a page that has     *)
(* caught up has a socket just when its credentials are usable, and it is  *)
(* the one of these credentials.                                           *)
THEOREM SocketFollowsLogin == ClientSpec => []SocketMatchesLogin
<1>1. ClientInv => SocketMatchesLogin
  BY DEF ClientInv, SocketOfCommit, SocketMatchesLogin
<1> QED BY <1>1, ClientStart, ClientKeeps, PTL DEF ClientSpec

-----------------------------------------------------------------------------
(* The alerts.  While no two checks have overlapped, one check at most is  *)
(* running, so what it read of the levels alerted is still stored when it  *)
(* stores them; a level alerted is stored, or a check is about to.         *)

Shape(k) == k \in [at : {k.at}, percent : {k.percent}, thresholds : {k.thresholds},
                   sent : {k.sent}, matched : {k.matched}]

AlertsTyped ==
  /\ check = [c \in Checks |-> check[c]] /\ \A c \in Checks : Shape(check[c])
  /\ alerts \in [Levels -> Nat]
  /\ overlapped \in BOOLEAN
  /\ mail \in [Levels -> {"none", "waiting", "failed"}]

(* The queue took its alert, or will not take any.                         *)
Handed == queued \cup Silenced

OneRuns == \A c \in Checks, d \in Checks : check[c].at # "idle" /\ check[d].at # "idle" => c = d

Saving(k, l) == k.at = "save" /\ k.matched = l

ChecksAreCurrent ==
  \A c \in Checks :
    /\ check[c].at \in {"send", "save"} => check[c].sent = sent
    /\ check[c].at = "send" => check[c].matched \notin sent
    /\ check[c].at = "save" => check[c].matched \in Handed

AlertsAreStored ==
  \A l \in Levels :
    /\ alerts[l] <= 1
    /\ alerts[l] # 0 => l \in sent \/ \E c \in Checks : Saving(check[c], l)

AlertsInv ==
  /\ AlertsTyped
  /\ ~overlapped => OneRuns /\ ChecksAreCurrent /\ AlertsAreStored /\ sent \subseteq Handed

LEMMA AlertsStart == AlertsInit => AlertsInv
<1> SUFFICES ASSUME AlertsInit PROVE AlertsInv
  OBVIOUS
<1>1. /\ check = [c \in Checks |-> Idle] /\ sent = {} /\ queued = {} /\ overlapped = FALSE
      /\ alerts = [l \in Levels |-> 0] /\ mail = [l \in Levels |-> "none"]
  BY DEF AlertsInit
<1>2. Shape(Idle) /\ Idle.at = "idle"
  BY DEF Shape, Idle
<1>3. AlertsTyped
  BY <1>1, <1>2 DEF AlertsTyped
<1>4. OneRuns /\ ChecksAreCurrent
  BY <1>1, <1>2 DEF OneRuns, ChecksAreCurrent
<1>5. AlertsAreStored
  BY <1>1 DEF AlertsAreStored
<1> QED BY <1>1, <1>3, <1>4, <1>5 DEF AlertsInv

(* What a step of one check leaves alone: the others.                      *)
LEMMA OneCheckMoves ==
  ASSUME AlertsTyped, NEW c \in Checks, NEW k, Shape(k), check' = [check EXCEPT ![c] = k]
  PROVE  /\ check' = [d \in Checks |-> check'[d]] /\ \A d \in Checks : Shape(check'[d])
         /\ check'[c] = k
         /\ \A d \in Checks \ {c} : check'[d] = check[d]
BY DEF AlertsTyped

LEMMA IdleShape == Shape(Idle) /\ Idle.at = "idle"
BY DEF Shape, Idle

LEMMA StepShape ==
  ASSUME NEW k, Shape(k), NEW a, NEW z, z = [k EXCEPT !.at = a]
  PROVE  Shape(z) /\ z.at = a /\ z.sent = k.sent /\ z.matched = k.matched
<1>1. z.at = a /\ z \in [at : {a}, percent : {k.percent}, thresholds : {k.thresholds},
                         sent : {k.sent}, matched : {k.matched}]
  BY DEF Shape
<1> QED BY <1>1 DEF Shape

(* A check goes on without having sent anything, or ends before it does.   *)
LEMMA EarlySteps ==
  ASSUME AlertsInv, NEW c \in Checks,
         NEW k, Shape(k), check' = [check EXCEPT ![c] = k],
         check[c].at # "idle", check[c].at # "save", k.at # "save",
         k.at = "send" => k.sent = sent /\ k.matched \notin sent,
         UNCHANGED <<sent, alerts, queued, mail, overlapped>>
  PROVE  AlertsInv'
<1>1. AlertsTyped
  BY DEF AlertsInv
<1>2. /\ check' = [d \in Checks |-> check'[d]] /\ \A d \in Checks : Shape(check'[d])
      /\ check'[c] = k
      /\ \A d \in Checks \ {c} : check'[d] = check[d]
  BY <1>1, OneCheckMoves
<1>3. AlertsTyped'
  BY <1>1, <1>2 DEF AlertsTyped
<1>4. ASSUME ~overlapped
      PROVE  OneRuns' /\ ChecksAreCurrent' /\ AlertsAreStored' /\ (sent \subseteq Handed)'
  <2>1. OneRuns /\ ChecksAreCurrent /\ AlertsAreStored /\ sent \subseteq Handed
    BY <1>4 DEF AlertsInv
  <2>2. OneRuns'
    BY <1>2, <2>1 DEF OneRuns
  <2>3. ChecksAreCurrent'
    BY <1>2, <2>1 DEF ChecksAreCurrent, Handed, Silenced
  <2>4. AlertsAreStored'
    BY <1>2, <2>1 DEF AlertsAreStored, Saving
  <2> QED BY <2>1, <2>2, <2>3, <2>4 DEF Handed, Silenced
<1> QED BY <1>3, <1>4 DEF AlertsInv

LEMMA ChecksGoOn ==
  ASSUME AlertsInv, NEW c \in Checks,
         \/ GetBalanceSnapshot(c) \/ GetThresholds(c) \/ GetPreferences(c)
         \/ GetAlertState(c) \/ SendFails(c)
  PROVE  AlertsInv'
<1>1. AlertsTyped /\ Shape(check[c])
  BY DEF AlertsInv, AlertsTyped
<1>2. CASE GetBalanceSnapshot(c)
  <2>0. PICK k : k = [check[c] EXCEPT !.at = "settings", !.percent = percent]
    OBVIOUS
  <2>1. Shape(k) /\ k.at = "settings"
    <3>1. k.at = "settings" /\ k \in [at : {"settings"}, percent : {percent},
            thresholds : {check[c].thresholds}, sent : {check[c].sent}, matched : {check[c].matched}]
      BY <1>1, <2>0 DEF Shape
    <3> QED BY <3>1 DEF Shape
  <2>2. check' = [check EXCEPT ![c] = k]
    BY <1>1, <1>2, <2>0 DEF GetBalanceSnapshot, AlertsTyped
  <2>3. check[c].at = "balance" /\ UNCHANGED <<sent, alerts, queued, mail, overlapped>>
    BY <1>2 DEF GetBalanceSnapshot
  <2> QED BY <2>1, <2>2, <2>3, EarlySteps
<1>3. CASE GetThresholds(c)
  <2>0. PICK k : k = [check[c] EXCEPT !.at = "preferences", !.thresholds = settings.thresholds]
    OBVIOUS
  <2>1. Shape(k) /\ k.at = "preferences"
    <3>1. k.at = "preferences" /\ k \in [at : {"preferences"}, percent : {check[c].percent},
            thresholds : {settings.thresholds}, sent : {check[c].sent}, matched : {check[c].matched}]
      BY <1>1, <2>0 DEF Shape
    <3> QED BY <3>1 DEF Shape
  <2>2. check' = [check EXCEPT ![c] = k]
    BY <1>1, <1>3, <2>0 DEF GetThresholds, AlertsTyped
  <2>3. check[c].at = "settings" /\ UNCHANGED <<sent, alerts, queued, mail, overlapped>>
    BY <1>3 DEF GetThresholds
  <2> QED BY <2>1, <2>2, <2>3, EarlySteps
<1>4. CASE GetPreferences(c)
  <2> DEFINE k == IF settings.enabled THEN [check[c] EXCEPT !.at = "state"] ELSE Idle
  <2>1. Shape(k) /\ k.at \in {"state", "idle"}
    <3>1. PICK z : z = [check[c] EXCEPT !.at = "state"]
      OBVIOUS
    <3>2. Shape(z) /\ z.at = "state"
      BY <1>1, <3>1, StepShape
    <3> QED BY <3>1, <3>2, IdleShape
  <2>2. check' = [check EXCEPT ![c] = k]
    BY <1>1, <1>4 DEF GetPreferences, AlertsTyped, Ends
  <2>3. check[c].at = "preferences" /\ UNCHANGED <<sent, alerts, queued, mail, overlapped>>
    BY <1>4 DEF GetPreferences
  <2> HIDE DEF k
  <2> QED BY <2>1, <2>2, <2>3, EarlySteps
<1>5. CASE GetAlertState(c)
  <2>1. check[c].at = "state" /\ UNCHANGED <<sent, alerts, queued, mail, overlapped>>
    BY <1>5 DEF GetAlertState
  <2>2. \/ check' = [check EXCEPT ![c] = Idle]
        \/ check' = [check EXCEPT ![c] = [Idle EXCEPT !.at = "clear"]]
        \/ \E l : l \notin sent /\ check' = [check EXCEPT ![c] =
                    [Idle EXCEPT !.at = "send", !.sent = sent, !.matched = l]]
    BY <1>5 DEF GetAlertState, Ends
  <2>3. CASE check' = [check EXCEPT ![c] = Idle]
    BY <2>1, <2>3, IdleShape, EarlySteps
  <2>4. CASE check' = [check EXCEPT ![c] = [Idle EXCEPT !.at = "clear"]]
    <3> DEFINE k == [Idle EXCEPT !.at = "clear"]
    <3>1. Shape(k) /\ k.at = "clear"
      BY IdleShape, StepShape
    <3> HIDE DEF k
    <3> QED BY <2>1, <2>4, <3>1, EarlySteps DEF k
  <2>5. ASSUME NEW l, l \notin sent,
               check' = [check EXCEPT ![c] =
                           [Idle EXCEPT !.at = "send", !.sent = sent, !.matched = l]]
        PROVE  AlertsInv'
    <3>0. PICK k : k = [Idle EXCEPT !.at = "send", !.sent = sent, !.matched = l]
      OBVIOUS
    <3>1. Shape(k) /\ k.at = "send" /\ k.sent = sent /\ k.matched = l
      <4>1. k.at = "send" /\ k \in [at : {"send"}, percent : {0}, thresholds : {{}},
              sent : {sent}, matched : {l}]
        BY <3>0 DEF Idle
      <4> QED BY <4>1 DEF Shape
    <3>2. check' = [check EXCEPT ![c] = k]
      BY <2>5, <3>0
    <3> QED BY <2>1, <2>5, <3>1, <3>2, EarlySteps
  <2> QED BY <2>2, <2>3, <2>4, <2>5
<1>6. CASE SendFails(c)
  BY <1>6, IdleShape, EarlySteps DEF SendFails, Ends
<1> QED BY <1>2, <1>3, <1>4, <1>5, <1>6

LEMMA AlertIsSent ==
  ASSUME AlertsInv, NEW c \in Checks, SendAlert(c)
  PROVE  AlertsInv'
<1> DEFINE m == check[c].matched
<1>0. PICK k : k = [check[c] EXCEPT !.at = "save"]
  OBVIOUS
<1>1. AlertsTyped /\ Shape(check[c])
  BY DEF AlertsInv, AlertsTyped
<1>2. Shape(k) /\ k.at = "save" /\ k.sent = check[c].sent /\ k.matched = m
  BY <1>0, <1>1, StepShape
<1>3. /\ check[c].at = "send" /\ check' = [check EXCEPT ![c] = k]
      /\ alerts' = [alerts EXCEPT ![m] = @ + 1]
      /\ queued' = IF m \in Silenced THEN queued ELSE queued \cup {m}
      /\ mail' = [mail EXCEPT ![m] = IF @ = "none" THEN "waiting" ELSE @]
      /\ UNCHANGED <<sent, overlapped>>
  BY <1>0, <1>1 DEF SendAlert, AlertsTyped
<1>m. /\ mail' \in [Levels -> {"none", "waiting", "failed"}]
      /\ Silenced \subseteq Silenced'
  BY <1>1, <1>3 DEF AlertsTyped, Silenced
<1>h. Handed \subseteq Handed' /\ m \in Handed'
  BY <1>3, <1>m DEF Handed
<1>4. /\ check' = [d \in Checks |-> check'[d]] /\ \A d \in Checks : Shape(check'[d])
      /\ check'[c] = k
      /\ \A d \in Checks \ {c} : check'[d] = check[d]
  BY <1>1, <1>2, <1>3, OneCheckMoves
<1>5. /\ alerts' \in [Levels -> Nat]
      /\ \A l \in Levels : alerts'[l] = IF l = m THEN alerts[l] + 1 ELSE alerts[l]
  <2>1. alerts \in [Levels -> Nat]
    BY <1>1 DEF AlertsTyped
  <2>2. CASE m \in Levels
    BY <1>3, <2>1, <2>2
  <2>3. CASE m \notin Levels
    BY <1>3, <2>1, <2>3
  <2> QED BY <2>2, <2>3
<1>6. AlertsTyped'
  BY <1>1, <1>3, <1>4, <1>5, <1>m DEF AlertsTyped
<1>7. ASSUME ~overlapped
      PROVE  OneRuns' /\ ChecksAreCurrent' /\ AlertsAreStored' /\ (sent \subseteq Handed)'
  <2>1. OneRuns /\ ChecksAreCurrent /\ AlertsAreStored /\ sent \subseteq Handed
    BY <1>7 DEF AlertsInv
  <2>2. OneRuns'
    BY <1>3, <1>4, <2>1 DEF OneRuns
  <2>3. \A d \in Checks \ {c} : check[d].at = "idle" /\ check'[d].at = "idle"
    BY <1>3, <1>4, <2>1 DEF OneRuns
  <2>4. ChecksAreCurrent'
    BY <1>2, <1>3, <1>4, <1>h, <2>1, <2>3 DEF ChecksAreCurrent
  <2>5. m \notin sent
    BY <1>3, <2>1 DEF ChecksAreCurrent
  <2>6. ASSUME NEW l \in Levels
        PROVE  /\ alerts'[l] <= 1
               /\ alerts'[l] # 0 => l \in sent \/ \E d \in Checks : Saving(check'[d], l)
    <3>1. ~\E d \in Checks : Saving(check[d], l)
      BY <1>3, <2>3 DEF Saving
    <3>2. CASE l = m
      <4>1. alerts[l] = 0
        BY <1>1, <2>1, <2>5, <3>1, <3>2 DEF AlertsAreStored, AlertsTyped
      <4>2. Saving(check'[c], l)
        BY <1>2, <1>4, <3>2 DEF Saving
      <4> QED BY <1>5, <3>2, <4>1, <4>2
    <3>3. CASE l # m
      BY <1>5, <2>1, <3>1, <3>3 DEF AlertsAreStored
    <3> QED BY <3>2, <3>3
  <2>7. AlertsAreStored'
    BY <1>3, <2>6 DEF AlertsAreStored
  <2> QED BY <1>3, <1>h, <2>1, <2>2, <2>4, <2>7
<1> QED BY <1>3, <1>6, <1>7 DEF AlertsInv

LEMMA ChecksEnd ==
  ASSUME AlertsInv, NEW c \in Checks, ClearState(c) \/ SaveState(c) \/ SaveFails(c)
  PROVE  AlertsInv'
<1>1. AlertsTyped
  BY DEF AlertsInv
<1>2. check' = [check EXCEPT ![c] = Idle]
  BY DEF ClearState, SaveState, SaveFails, Ends
<1>3. /\ check' = [d \in Checks |-> check'[d]] /\ \A d \in Checks : Shape(check'[d])
      /\ check'[c] = Idle
      /\ \A d \in Checks \ {c} : check'[d] = check[d]
  BY <1>1, <1>2, OneCheckMoves, IdleShape
<1>4. /\ alerts' \in [Levels -> Nat]
      /\ overlapped' \in BOOLEAN
  <2>1. alerts \in [Levels -> Nat] /\ overlapped \in BOOLEAN
    BY <1>1 DEF AlertsTyped
  <2>2. \/ alerts' = alerts \/ alerts' = [l \in Levels |-> 0]
    BY DEF ClearState, SaveState, SaveFails
  <2>3. overlapped' = overlapped \/ overlapped' = TRUE \/ overlapped' = (Running # {c})
    BY DEF ClearState, SaveState, SaveFails
  <2>4. overlapped' \in BOOLEAN
    BY <2>1, <2>3, Zenon
  <2>5. alerts' \in [Levels -> Nat]
    BY <2>1, <2>2
  <2> QED BY <2>4, <2>5
<1>m. mail' = mail /\ Silenced' = Silenced
  BY DEF ClearState, SaveState, SaveFails, Silenced
<1>5. AlertsTyped'
  BY <1>1, <1>3, <1>4, <1>m DEF AlertsTyped
<1>6. CASE ClearState(c)
  <2> SUFFICES ASSUME ~overlapped'
               PROVE  OneRuns' /\ ChecksAreCurrent' /\ AlertsAreStored' /\ (sent \subseteq Handed)'
    BY <1>5 DEF AlertsInv
  <2>1. Running = {c} /\ sent' = {} /\ alerts' = [l \in Levels |-> 0]
    BY <1>6 DEF ClearState
  <2>2. \A d \in Checks : check'[d].at = "idle"
    BY <1>3, <2>1, IdleShape DEF Running
  <2> QED BY <2>1, <2>2 DEF OneRuns, ChecksAreCurrent, AlertsAreStored
<1>7. CASE SaveState(c)
  <2>1. /\ check[c].at = "save" /\ sent' = check[c].sent \cup {check[c].matched}
        /\ UNCHANGED <<alerts, queued, overlapped>> /\ Handed' = Handed
    BY <1>7, <1>m DEF SaveState, SentLevels, Handed
  <2> SUFFICES ASSUME ~overlapped
               PROVE  OneRuns' /\ ChecksAreCurrent' /\ AlertsAreStored' /\ (sent \subseteq Handed)'
    BY <1>5, <2>1 DEF AlertsInv
  <2>2. OneRuns /\ ChecksAreCurrent /\ AlertsAreStored /\ sent \subseteq Handed
    BY DEF AlertsInv
  <2>3. sent' = sent \cup {check[c].matched} /\ check[c].matched \in Handed
    BY <2>1, <2>2 DEF ChecksAreCurrent
  <2>4. \A d \in Checks \ {c} : check[d].at = "idle"
    BY <2>1, <2>2 DEF OneRuns
  <2>5. \A d \in Checks : check'[d].at = "idle"
    BY <1>3, <2>4, IdleShape
  <2>6. AlertsAreStored'
    BY <2>1, <2>2, <2>3, <2>4 DEF AlertsAreStored, Saving
  <2> QED BY <2>1, <2>2, <2>3, <2>5, <2>6 DEF OneRuns, ChecksAreCurrent
<1>8. CASE SaveFails(c)
  BY <1>5, <1>8 DEF SaveFails, AlertsInv
<1> QED BY <1>6, <1>7, <1>8

(* A check that starts is the only one, or two have overlapped.            *)
LEMMA CheckStarts ==
  ASSUME AlertsInv, NEW c \in Checks, NEW p, Consume(c, p)
  PROVE  AlertsInv'
<1>0. PICK k : k = [Idle EXCEPT !.at = "balance"]
  OBVIOUS
<1>1. AlertsTyped
  BY DEF AlertsInv
<1>2. Shape(k) /\ k.at = "balance"
  BY <1>0, IdleShape, StepShape
<1>3. /\ check[c] = Idle /\ check' = [check EXCEPT ![c] = k]
      /\ overlapped' = (overlapped \/ Running # {})
      /\ UNCHANGED <<sent, alerts, mail>> /\ Handed' = Handed
  BY <1>0, <1>1 DEF Consume, AlertsTyped, Handed, Silenced
<1>4. /\ check' = [d \in Checks |-> check'[d]] /\ \A d \in Checks : Shape(check'[d])
      /\ check'[c] = k
      /\ \A d \in Checks \ {c} : check'[d] = check[d]
  BY <1>1, <1>2, <1>3, OneCheckMoves
<1>5. AlertsTyped'
  BY <1>1, <1>3, <1>4 DEF AlertsTyped
<1>6. ASSUME ~overlapped'
      PROVE  OneRuns' /\ ChecksAreCurrent' /\ AlertsAreStored' /\ (sent \subseteq Handed)'
  <2>1. OneRuns /\ ChecksAreCurrent /\ AlertsAreStored /\ sent \subseteq Handed
    BY <1>3, <1>6 DEF AlertsInv
  <2>2. \A d \in Checks : check[d].at = "idle"
    BY <1>3, <1>6 DEF Running
  <2>3. OneRuns'
    BY <1>4, <2>2 DEF OneRuns
  <2>4. ChecksAreCurrent'
    BY <1>2, <1>4, <2>2 DEF ChecksAreCurrent
  <2>5. AlertsAreStored'
    BY <1>3, <2>1, <2>2 DEF AlertsAreStored, Saving
  <2> QED BY <1>3, <2>1, <2>3, <2>4, <2>5
<1> QED BY <1>5, <1>6 DEF AlertsInv

LEMMA AlertsStep == AlertsInv /\ [AlertsNext]_alertVars => AlertsInv'
<1> SUFFICES ASSUME AlertsInv, [AlertsNext]_alertVars PROVE AlertsInv'
  OBVIOUS
<1>1. CASE \E c \in Checks : CheckStep(c)
  BY <1>1, ChecksGoOn, AlertIsSent, ChecksEnd DEF CheckStep
<1>2. CASE \E c \in Checks, p \in Percents : Consume(c, p)
  BY <1>2, CheckStarts
<1>3. ASSUME UNCHANGED <<sent, check, alerts, queued, overlapped>>,
             \/ mail' = mail
             \/ \E l \in Levels : \E m \in {"none", "failed"} :
                  mail[l] = "waiting" /\ mail' = [mail EXCEPT ![l] = m]
      PROVE  AlertsInv'
  <2>1. mail \in [Levels -> {"none", "waiting", "failed"}]
    BY DEF AlertsInv, AlertsTyped
  <2>2. mail' \in [Levels -> {"none", "waiting", "failed"}] /\ Silenced \subseteq Silenced'
    BY <1>3, <2>1 DEF Silenced
  <2>3. Handed \subseteq Handed'
    BY <1>3, <2>2 DEF Handed
  <2>4. AlertsTyped'
    BY <1>3, <2>2 DEF AlertsInv, AlertsTyped
  <2>5. ~overlapped => OneRuns' /\ AlertsAreStored'
    BY <1>3 DEF AlertsInv, OneRuns, AlertsAreStored
  <2>6. ~overlapped => ChecksAreCurrent' /\ (sent \subseteq Handed)'
    BY <1>3, <2>3 DEF AlertsInv, ChecksAreCurrent
  <2> QED BY <1>3, <2>4, <2>5, <2>6 DEF AlertsInv
<1>4. \/ \E c \in Checks : CheckStep(c)
      \/ \E c \in Checks, p \in Percents : Consume(c, p)
      \/ /\ UNCHANGED <<sent, check, alerts, queued, overlapped>>
         /\ \/ mail' = mail
            \/ \E l \in Levels : \E m \in {"none", "failed"} :
                 mail[l] = "waiting" /\ mail' = [mail EXCEPT ![l] = m]
  BY DEF AlertsNext, Grant, UpdateThresholds, UpdatePreferences, ProcessNotificationJob,
         JobFails, alertVars
<1> QED BY <1>1, <1>2, <1>3, <1>4

(* For every number of checks, settings and balances: between two          *)
(* recoveries a level is alerted once, and what is stored as alerted was   *)
(* taken by the queue or has a job of its id that failed for good, unless  *)
(* checks overlapped (credit-alert.service.ts, checkAndAlert).             *)
THEOREM AlertsComeOnce == AlertsSpec => []LevelsAreAlertedOnce
<1>1. AlertsInv => LevelsAreAlertedOnce
  BY DEF AlertsInv, AlertsAreStored, LevelsAreAlertedOnce, RepeatsNeedOverlap, SentWasQueued, Handed
<1> QED BY <1>1, AlertsStart, AlertsStep, PTL DEF AlertsSpec

-----------------------------------------------------------------------------
(* The deliveries.  Every post is an attempt the queue counted or one that *)
(* died with its replica; a log entry that is final speaks of a job that   *)
(* is.                                                                     *)

DeliveryStates == {"waiting", "posting", "completed", "failed"}

DeliveryJobs ==
  [hook : Hooks, state : DeliveryStates, replica : Replicas,
   attemptsMade : Nat, posts : Nat, handled : Nat, lost : Nat, stalled : Nat]

(* What is known of one job.                                               *)
PostsAdd(k) ==
  /\ k.state \in {"waiting", "posting"} =>
       /\ k.attemptsMade < MaxJobAttempts
       /\ k.handled <= k.lost + k.stalled
       /\ k.posts = k.attemptsMade + k.stalled + (IF k.state = "posting" THEN 1 ELSE 0)
  /\ k.handled <= 1 + k.lost + k.stalled
  /\ k.posts <= MaxJobAttempts + k.stalled

GoodJobs == {k \in DeliveryJobs : PostsAdd(k)}

Final(k) == k.state \in {"completed", "failed"}

(* What a log may say of the jobs.                                         *)
Entries(jobs) ==
  {e \in [job : DOMAIN jobs, status : {"success", "retrying", "failed"}, attempt : Nat] :
     e.status # "retrying" => Final(jobs[e.job])}

DeliveryInv ==
  /\ delivery \in Seq(GoodJobs)
  /\ logs = [r \in Replicas |-> logs[r]]
  /\ \A r \in Replicas : logs[r] \in Seq(Entries(delivery))

LEMMA LongerLog ==
  ASSUME NEW S, NEW T, S \subseteq T, NEW log \in Seq(S)
  PROVE  log \in Seq(T)
<1>1. log \in [1..Len(log) -> S] /\ Len(log) \in Nat
  OBVIOUS
<1>2. log \in [1..Len(log) -> T]
  BY <1>1
<1> QED BY <1>1, <1>2

(* The step of one job, or of none: the entries that were right still are. *)
LEMMA EntriesStay ==
  ASSUME NEW jobs, NEW later, DOMAIN jobs \subseteq DOMAIN later,
         \A j \in DOMAIN jobs : Final(jobs[j]) => Final(later[j])
  PROVE  Entries(jobs) \subseteq Entries(later)
BY DEF Entries

LEMMA JobTyped ==
  ASSUME DeliveryInv, NEW j \in DOMAIN delivery
  PROVE  /\ delivery[j] \in DeliveryJobs /\ PostsAdd(delivery[j])
         /\ delivery[j].hook \in Hooks /\ delivery[j].state \in DeliveryStates
         /\ delivery[j].replica \in Replicas /\ delivery[j].attemptsMade \in Nat
         /\ delivery[j].posts \in Nat /\ delivery[j].handled \in Nat
         /\ delivery[j].lost \in Nat /\ delivery[j].stalled \in Nat
<1>1. delivery[j] \in GoodJobs
  BY DEF DeliveryInv
<1>2. delivery[j] \in DeliveryJobs /\ PostsAdd(delivery[j])
  BY <1>1 DEF GoodJobs
<1> QED BY <1>2 DEF DeliveryJobs

LEMMA DeliveriesStart == DeliveriesInit => DeliveryInv
<1> SUFFICES ASSUME DeliveriesInit PROVE DeliveryInv
  OBVIOUS
<1>1. logs = [r \in Replicas |-> <<>>] /\ delivery = <<>>
  BY DEF DeliveriesInit
<1> QED BY <1>1 DEF DeliveryInv

LEMMA JobAdded ==
  ASSUME DeliveryInv, NEW r \in Replicas, NEW h \in Hooks,
         delivery' = Append(delivery, NewJob(h)), UNCHANGED logs
  PROVE  DeliveryInv'
<1>1. NewJob(h) \in GoodJobs
  <2>1. (CHOOSE q \in Replicas : TRUE) \in Replicas
    OBVIOUS
  <2>2. NewJob(h) \in DeliveryJobs
    BY <2>1 DEF NewJob, DeliveryJobs, DeliveryStates
  <2>3. PostsAdd(NewJob(h))
    BY DeliveriesAssumption DEF NewJob, PostsAdd
  <2> QED BY <2>2, <2>3 DEF GoodJobs
<1>2. delivery \in Seq(GoodJobs)
  BY DEF DeliveryInv
<1>3. /\ delivery' \in Seq(GoodJobs)
      /\ DOMAIN delivery \subseteq DOMAIN delivery'
      /\ \A j \in DOMAIN delivery : delivery'[j] = delivery[j]
  BY <1>1, <1>2
<1>4. Entries(delivery) \subseteq Entries(delivery')
  BY <1>3, EntriesStay
<1> QED BY <1>3, <1>4, LongerLog DEF DeliveryInv

(* Several jobs change at once when a replica restarts.                    *)
LEMMA JobsChange ==
  ASSUME DeliveryInv, DOMAIN delivery' = DOMAIN delivery,
         delivery' = [j \in DOMAIN delivery |-> delivery'[j]],
         \A j \in DOMAIN delivery :
           /\ delivery'[j] \in DeliveryJobs /\ PostsAdd(delivery'[j])
           /\ Final(delivery[j]) => Final(delivery'[j])
  PROVE  delivery' \in Seq(GoodJobs) /\ Entries(delivery) \subseteq Entries(delivery')
<1>1. delivery \in Seq(GoodJobs)
  BY DEF DeliveryInv
<1>2. Len(delivery) \in Nat /\ DOMAIN delivery = 1..Len(delivery)
  BY <1>1
<1>3. \A j \in DOMAIN delivery : delivery'[j] \in GoodJobs
  BY DEF GoodJobs
<1>4. delivery' \in [1..Len(delivery) -> GoodJobs]
  BY <1>2, <1>3
<1>5. delivery' \in Seq(GoodJobs)
  BY <1>2, <1>4
<1> QED BY <1>5, EntriesStay

LEMMA Taken ==
  ASSUME DeliveryInv, NEW r \in Replicas, NEW j \in DOMAIN delivery, TakeDelivery(r, j)
  PROVE  DeliveryInv'
<1> DEFINE k == delivery[j]
           on == registry[r][delivery[j].hook] = "active"
           st == IF on THEN "posting" ELSE "completed"
           po == IF on THEN k.posts + 1 ELSE k.posts
<1>1. PICK z : z = [k EXCEPT !.state = st, !.replica = r, !.posts = po]
  OBVIOUS
<1>2. /\ k \in DeliveryJobs /\ PostsAdd(k)
      /\ k.attemptsMade \in Nat /\ k.posts \in Nat /\ k.handled \in Nat /\ k.lost \in Nat
      /\ k.stalled \in Nat
  BY JobTyped
<1>3. k.state = "waiting" /\ delivery' = [delivery EXCEPT ![j] = z] /\ UNCHANGED logs
  BY <1>1 DEF TakeDelivery, DeliveryInv
<1>4. /\ st \in {"posting", "completed"} /\ po \in Nat
      /\ st = "posting" => po = k.posts + 1
      /\ po <= k.posts + 1 /\ (st = "completed" => po = k.posts)
  BY <1>2
<1> HIDE DEF st, po, k
<1>5. /\ z \in DeliveryJobs /\ z.state = st /\ z.posts = po
      /\ z.attemptsMade = k.attemptsMade /\ z.handled = k.handled /\ z.lost = k.lost
      /\ z.stalled = k.stalled
  BY <1>1, <1>2, <1>4 DEF DeliveryJobs, DeliveryStates
<1>6. PostsAdd(z)
  BY <1>2, <1>3, <1>4, <1>5, DeliveriesAssumption DEF PostsAdd
<1>7. /\ DOMAIN delivery' = DOMAIN delivery
      /\ delivery' = [i \in DOMAIN delivery |-> delivery'[i]]
      /\ delivery'[j] = z /\ \A i \in DOMAIN delivery \ {j} : delivery'[i] = delivery[i]
  BY <1>3 DEF DeliveryInv
<1>8. \A i \in DOMAIN delivery : delivery[i] \in DeliveryJobs /\ PostsAdd(delivery[i])
  BY JobTyped
<1>9. delivery' \in Seq(GoodJobs) /\ Entries(delivery) \subseteq Entries(delivery')
  BY <1>3, <1>5, <1>7, <1>8, <1>6, JobsChange DEF Final, k
<1> QED BY <1>3, <1>9, LongerLog DEF DeliveryInv

LEMMA LogGrows ==
  ASSUME NEW S, logs = [q \in Replicas |-> logs[q]], \A q \in Replicas : logs[q] \in Seq(S),
         NEW r \in Replicas, NEW e \in S, AppendLog(r, e)
  PROVE  logs' = [q \in Replicas |-> logs'[q]] /\ \A q \in Replicas : logs'[q] \in Seq(S)
<1> DEFINE all == Append(logs[r], e)
<1>1. all \in Seq(S) /\ Len(all) \in Nat
  OBVIOUS
<1>2. logs' = [logs EXCEPT ![r] =
        IF Len(all) > MaxLogs THEN SubSeq(all, Len(all) - MaxLogs + 1, Len(all)) ELSE all]
  BY DEF AppendLog
<1> HIDE DEF all
<1>3. Len(all) > MaxLogs => SubSeq(all, Len(all) - MaxLogs + 1, Len(all)) \in Seq(S)
  BY <1>1, DeliveriesAssumption, SubSeqProperties
<1> QED BY <1>1, <1>2, <1>3

LEMMA Answered ==
  ASSUME DeliveryInv, NEW r \in Replicas, NEW j \in DOMAIN delivery, NEW o \in Outcomes,
         Posted(r, j, o)
  PROVE  DeliveryInv'
<1> DEFINE k == delivery[j]
           again == k.attemptsMade + 1 < MaxJobAttempts
           e == [job |-> j, status |-> Status(j, o), attempt |-> Attempt(j)]
           st == IF Delivered(o) THEN "completed" ELSE IF again THEN "waiting" ELSE "failed"
           am == IF Delivered(o) THEN k.attemptsMade ELSE k.attemptsMade + 1
           ha == IF Handles(o) THEN k.handled + 1 ELSE k.handled
           lo == IF o = "lost" THEN k.lost + 1 ELSE k.lost
<1>1. PICK z : z = [k EXCEPT !.state = st, !.attemptsMade = am, !.handled = ha, !.lost = lo]
  OBVIOUS
<1>2. /\ k \in DeliveryJobs /\ PostsAdd(k)
      /\ k.attemptsMade \in Nat /\ k.posts \in Nat /\ k.handled \in Nat /\ k.lost \in Nat
      /\ k.stalled \in Nat
  BY JobTyped
<1>3. k.state = "posting" /\ delivery' = [delivery EXCEPT ![j] = z] /\ AppendLog(r, e)
  BY <1>1 DEF Posted, Attempt, DeliveryInv
<1>4. /\ st \in DeliveryStates /\ am \in Nat /\ ha \in Nat /\ lo \in Nat
  BY <1>2 DEF DeliveryStates
<1> HIDE DEF st, am, ha, lo, k
<1>5. /\ z \in DeliveryJobs /\ z.state = st /\ z.attemptsMade = am /\ z.handled = ha
       /\ z.lost = lo /\ z.posts = k.posts /\ z.stalled = k.stalled
  BY <1>1, <1>2, <1>4 DEF DeliveryJobs
<1>6. /\ z \in DeliveryJobs
      /\ z.state = (IF Delivered(o) THEN "completed" ELSE IF again THEN "waiting" ELSE "failed")
      /\ z.posts = k.posts /\ z.stalled = k.stalled
      /\ z.attemptsMade = (IF Delivered(o) THEN k.attemptsMade ELSE k.attemptsMade + 1)
      /\ z.handled = (IF Handles(o) THEN k.handled + 1 ELSE k.handled)
      /\ z.lost = (IF o = "lost" THEN k.lost + 1 ELSE k.lost)
  BY <1>5 DEF st, am, ha, lo
<1>7. /\ Status(j, o) = (IF Delivered(o) THEN "success" ELSE IF again THEN "retrying" ELSE "failed")
      /\ Attempt(j) \in Nat
  BY <1>2 DEF Status, Attempt, k
<1>8. Handles(o) => Delivered(o) \/ o = "lost"
  BY DEF Handles, Delivered
<1> HIDE DEF e
<1>9. PostsAdd(z)
  BY <1>2, <1>3, <1>6, <1>8, DeliveriesAssumption DEF PostsAdd
<1>10. /\ DOMAIN delivery' = DOMAIN delivery
      /\ delivery' = [i \in DOMAIN delivery |-> delivery'[i]]
      /\ delivery'[j] = z /\ \A i \in DOMAIN delivery \ {j} : delivery'[i] = delivery[i]
  BY <1>3 DEF DeliveryInv
<1>11. \A i \in DOMAIN delivery : delivery[i] \in DeliveryJobs /\ PostsAdd(delivery[i])
  BY JobTyped
<1>12. delivery' \in Seq(GoodJobs) /\ Entries(delivery) \subseteq Entries(delivery')
  BY <1>3, <1>6, <1>9, <1>10, <1>11, JobsChange DEF Final, k
<1>13. e \in Entries(delivery')
  BY <1>6, <1>7, <1>10 DEF Entries, Final, e
<1>14. /\ logs = [q \in Replicas |-> logs[q]]
       /\ \A q \in Replicas : logs[q] \in Seq(Entries(delivery'))
  BY <1>12, LongerLog DEF DeliveryInv
<1>15. /\ logs' = [q \in Replicas |-> logs'[q]]
       /\ \A q \in Replicas : logs'[q] \in Seq(Entries(delivery'))
  BY <1>3, <1>13, <1>14, LogGrows
<1> QED BY <1>12, <1>15 DEF DeliveryInv

LEMMA Restarted ==
  ASSUME DeliveryInv, NEW r \in Replicas, NEW handled, RestartReplica(r, handled)
  PROVE  DeliveryInv'
<1> DEFINE mine == {j \in DOMAIN delivery : delivery[j].state = "posting" /\ delivery[j].replica = r}
<1>1. /\ logs' = [logs EXCEPT ![r] = <<>>]
      /\ delivery' = [j \in DOMAIN delivery |->
           IF j \notin mine THEN delivery[j]
           ELSE [delivery[j] EXCEPT !.state = "waiting", !.stalled = @ + 1,
                                    !.handled = IF j \in handled THEN @ + 1 ELSE @]]
  BY DEF RestartReplica
<1>2. \A j \in mine : j \in DOMAIN delivery /\ delivery[j].state = "posting"
  OBVIOUS
<1> HIDE DEF mine
<1>3. /\ DOMAIN delivery' = DOMAIN delivery
      /\ delivery' = [j \in DOMAIN delivery |-> delivery'[j]]
  BY <1>1
<1>4. ASSUME NEW j \in DOMAIN delivery
      PROVE  /\ delivery'[j] \in DeliveryJobs /\ PostsAdd(delivery'[j])
             /\ Final(delivery[j]) => Final(delivery'[j])
  <2> DEFINE k == delivery[j]
             z == delivery'[j]
  <2>1. /\ k \in DeliveryJobs /\ PostsAdd(k)
        /\ k.attemptsMade \in Nat /\ k.posts \in Nat /\ k.handled \in Nat /\ k.lost \in Nat
        /\ k.stalled \in Nat
    BY JobTyped
  <2>2. CASE j \notin mine
    BY <1>1, <2>1, <2>2
  <2>3. CASE j \in mine
    <3>1. z = [k EXCEPT !.state = "waiting", !.stalled = @ + 1,
                        !.handled = IF j \in handled THEN @ + 1 ELSE @]
      BY <1>1, <2>3
    <3>2. k.state = "posting"
      BY <1>2, <2>3
    <3> DEFINE ha == IF j \in handled THEN k.handled + 1 ELSE k.handled
    <3>3. ha \in Nat /\ k.stalled + 1 \in Nat /\ ha <= k.handled + 1
      BY <2>1
    <3>4. z = [k EXCEPT !.state = "waiting", !.stalled = k.stalled + 1, !.handled = ha]
      BY <3>1
    <3> HIDE DEF k, z, ha
    <3>5. /\ z \in DeliveryJobs /\ z.state = "waiting" /\ z.stalled = k.stalled + 1
          /\ z.handled = ha
          /\ z.posts = k.posts /\ z.attemptsMade = k.attemptsMade /\ z.lost = k.lost
      BY <2>1, <3>3, <3>4 DEF DeliveryJobs, DeliveryStates
    <3>6. PostsAdd(z)
      BY <2>1, <3>2, <3>5, <3>3, DeliveriesAssumption DEF PostsAdd
    <3> QED BY <3>2, <3>5, <3>6 DEF Final, k, z
  <2> QED BY <2>2, <2>3
<1>5. delivery' \in Seq(GoodJobs) /\ Entries(delivery) \subseteq Entries(delivery')
  BY <1>3, <1>4, JobsChange
<1>6. /\ logs' = [q \in Replicas |-> logs'[q]]
      /\ \A q \in Replicas : logs'[q] \in Seq(Entries(delivery))
  <2>1. <<>> \in Seq(Entries(delivery))
    OBVIOUS
  <2>2. logs' = [logs EXCEPT ![r] = <<>>]
    BY <1>1
  <2> QED BY <2>1, <2>2 DEF DeliveryInv
<1> QED BY <1>5, <1>6, LongerLog DEF DeliveryInv

LEMMA DeliveriesKeep == DeliveryInv /\ [DeliveriesNext]_deliveryVars => DeliveryInv'
<1> SUFFICES ASSUME DeliveryInv, [DeliveriesNext]_deliveryVars PROVE DeliveryInv'
  OBVIOUS
<1>1. CASE UNCHANGED <<logs, delivery>>
  BY <1>1 DEF DeliveryInv
<1>2. ASSUME NEW r \in Replicas, DeliveryStep(r)
      PROVE  DeliveryInv'
  <2>1. CASE \E h \in Hooks : EnqueueDelivery(r, h) \/ AddOne(r, h)
    BY <2>1, JobAdded DEF EnqueueDelivery, AddOne, Add
  <2>2. CASE \E j \in DOMAIN delivery : TakeDelivery(r, j)
    BY <2>2, Taken
  <2>3. CASE \E j \in DOMAIN delivery, o \in Outcomes : Posted(r, j, o)
    BY <2>3, Answered
  <2>4. CASE \E handled \in SUBSET (DOMAIN delivery) : RestartReplica(r, handled)
    BY <2>4, Restarted
  <2>5. CASE BroadcastEvent(r) \/ \E h \in Hooks :
          (\E activity \in {"active", "inactive"} : Register(r, h, activity)) \/ Remove(r, h)
    BY <1>1, <2>5 DEF BroadcastEvent, Register, Remove
  <2> QED BY <1>2, <2>1, <2>2, <2>3, <2>4, <2>5 DEF DeliveryStep
<1> QED BY <1>1, <1>2 DEF DeliveriesNext, deliveryVars

(* For any replicas, hooks and numbers of attempts: a second handling of   *)
(* one event has a lost answer or a dead replica to its name, a post       *)
(* beyond the attempts a dead replica, and a log that calls a delivery     *)
(* over is right (webhook.service.ts, processDeliveryJob).                 *)
THEOREM DeliveriesAddUp == DeliveriesSpec => []DeliveriesAreExplained
<1>1. DeliveryInv => DeliveriesAreExplained
  <2> SUFFICES ASSUME DeliveryInv PROVE DeliveriesAreExplained
    OBVIOUS
  <2>1. RepeatedPostsAreExplained
    BY JobTyped DEF RepeatedPostsAreExplained, PostsAdd
  <2>2. ASSUME NEW r \in Replicas, NEW i \in DOMAIN logs[r], logs[r][i].status # "retrying"
        PROVE  delivery[logs[r][i].job].state \in {"completed", "failed"}
    <3>1. logs[r] \in Seq(Entries(delivery))
      BY DEF DeliveryInv
    <3>2. logs[r][i] \in Entries(delivery)
      BY <3>1
    <3> QED BY <2>2, <3>2 DEF Entries, Final
  <2> QED BY <2>1, <2>2 DEF DeliveriesAreExplained, LogsAreFinal
<1> QED BY <1>1, DeliveriesStart, DeliveriesKeep, PTL DEF DeliveriesSpec

-----------------------------------------------------------------------------
(* The audit log with its two users, retention and exports, which overlap  *)
(* in any way: what happens is logged, indexed, archived, deleted and      *)
(* fetched meanwhile.                                                      *)

AuditInit ==
  /\ LogInit(Seq([org : Orgs, at : 0 .. MaxNow, logged : BOOLEAN, says : {Nothing}]))
  /\ RetentionInit /\ ExportInit

AuditNext ==
  \/ /\ Tick \/ (\E o \in Orgs : Happen(o)) \/ (\E i \in saving : Index(i))
     /\ UNCHANGED <<retentionVars, exportVars>>
  \/ (\E r \in Admins : AdminStep(r)) /\ UNCHANGED exportVars
  \/ (\E w \in Workers : SweepStep(w)) /\ UNCHANGED exportVars
  \/ ExportNext /\ UNCHANGED retentionVars

auditVars == <<logVars, retentionVars, exportVars>>
AuditSpec == AuditInit /\ [][AuditNext]_auditVars

EventsListed == \E S : events \in Seq(S)
Stamped == now \in Int /\ \A i \in Ids : events[i].at \in Int /\ events[i].at <= now
Placed ==
  /\ store \subseteq Ids /\ index \subseteq Ids /\ saving \subseteq Ids
  /\ saving \cap index = {}

LogTyped == EventsListed /\ Stamped /\ Placed

NewIds == Ids' \ Ids

(* What any step may do to the log: events are added, stamped now; what    *)
(* was logged of them is stored; only they enter the collection, and only  *)
(* they and the saved ones enter the index.                                *)
LogMoves ==
  /\ now <= now'
  /\ Ids \subseteq Ids' /\ \A i \in Ids : events'[i] = events[i]
  /\ \A i \in NewIds : events'[i].at = now /\ (events'[i].logged => i \in store')
  /\ store' \subseteq store \cup NewIds
  /\ saving' \subseteq saving \cup NewIds
  /\ index' \subseteq index \cup saving \cup NewIds

(* And what it does unless it deletes.                                     *)
LogKeeps == store \subseteq store' /\ index \subseteq index'

LEMMA AppendFacts ==
  ASSUME NEW s, \E S : s \in Seq(S), NEW e, NEW t, t = Append(s, e)
  PROVE  /\ \E S : t \in Seq(S)
         /\ Len(s) \in Nat /\ Len(t) = Len(s) + 1
         /\ \A i \in 1 .. Len(s) : t[i] = s[i]
         /\ t[Len(s) + 1] = e
<1>1. PICK S : s \in Seq(S)
  OBVIOUS
<1>2. PICK T : T = S \cup {e}
  OBVIOUS
<1>3. s \in Seq(T) /\ e \in T
  <2>1. /\ Len(s) \in Nat /\ \A i \in 1 .. Len(s) : s[i] \in S
        /\ s = [i \in 1 .. Len(s) |-> s[i]]
    BY <1>1
  <2> QED BY <1>2, <2>1, IsASeq
<1>4. /\ t \in Seq(T) /\ Len(t) = Len(s) + 1
      /\ \A i \in 1 .. Len(s) : t[i] = s[i]
      /\ t[Len(s) + 1] = e
  BY <1>3, AppendProperties
<1> QED BY <1>1, <1>4

LEMMA LogGrew ==
  ASSUME EventsListed, NEW e, events' = Append(events, e)
  PROVE  /\ EventsListed'
         /\ Ids \subseteq Ids' /\ \A i \in Ids : events'[i] = events[i]
         /\ NewIds = {Len(events) + 1} /\ Len(events) + 1 \in Ids'
         /\ events'[Len(events) + 1] = e
<1>1. \E S : events \in Seq(S)
  BY DEF EventsListed
<1>2. /\ \E S : events' \in Seq(S)
      /\ Len(events) \in Nat /\ Len(events') = Len(events) + 1
      /\ \A i \in 1 .. Len(events) : events'[i] = events[i]
      /\ events'[Len(events) + 1] = e
  BY <1>1, AppendFacts
<1>3. NewIds = {Len(events) + 1} /\ Ids \subseteq Ids' /\ Len(events) + 1 \in Ids'
  BY <1>2 DEF NewIds, Ids
<1> QED BY <1>2, <1>3 DEF Ids, EventsListed

(* The log with one more event, and what is stored and indexed of it.      *)
LEMMA EventAdded ==
  ASSUME LogTyped, NEW e, e.at = now, events' = Append(events, e), UNCHANGED now,
         NEW S \in SUBSET {Len(events) + 1}, store' = store \cup S, saving' = saving \cup S,
         e.logged => S # {},
         NEW T \in SUBSET {Len(events) + 1}, index' = index \cup T, S = {} \/ T = {}
  PROVE  /\ LogTyped' /\ LogMoves /\ LogKeeps
         /\ \E i \in Ids' : events'[i] = e
<1>1. /\ EventsListed'
      /\ Ids \subseteq Ids' /\ \A i \in Ids : events'[i] = events[i]
      /\ NewIds = {Len(events) + 1} /\ Len(events) + 1 \in Ids'
      /\ events'[Len(events) + 1] = e
  BY LogGrew DEF LogTyped
<1>2. PICK n : n = Len(events) + 1
  OBVIOUS
<1>3. n \notin Ids /\ n \in Ids' /\ \A i \in Ids' : i \in Ids \/ i = n
  BY <1>1, <1>2 DEF NewIds
<1>4. Stamped'
  <2>1. now \in Int /\ \A j \in Ids : events[j].at \in Int /\ events[j].at <= now
    BY DEF LogTyped, Stamped
  <2>2. ASSUME NEW i \in Ids' PROVE events'[i].at \in Int /\ events'[i].at <= now
    <3>1. i \in Ids => events'[i] = events[i]
      BY <1>1
    <3>2. i \notin Ids => events'[i] = e
      BY <1>1, <1>2, <1>3
    <3>3. CASE i \in Ids
      BY <2>1, <3>1, <3>3
    <3>4. CASE i \notin Ids
      <4>1. events'[i].at = now
        BY <3>2, <3>4
      <4> QED BY <2>1, <4>1
    <3> QED BY <3>3, <3>4
  <2> QED BY <2>1, <2>2 DEF Stamped
<1>5. Placed'
  BY <1>1, <1>2, <1>3 DEF LogTyped, Placed
<1>6. LogMoves
  <2>1. \A i \in NewIds : events'[i] = e
    BY <1>1
  <2>2. now <= now'
    <3>1. now \in Int
      BY DEF LogTyped, Stamped
    <3> QED BY <3>1
  <2>3. e.logged => NewIds \subseteq store'
    BY <1>1
  <2>4. \A i \in NewIds : events'[i].at = now /\ (events'[i].logged => i \in store')
    BY <2>1, <2>3
  <2>5. /\ store' \subseteq store \cup NewIds /\ saving' \subseteq saving \cup NewIds
        /\ index' \subseteq index \cup saving \cup NewIds
    BY <1>1
  <2> QED BY <1>1, <2>2, <2>4, <2>5 DEF LogMoves
<1> QED BY <1>1, <1>4, <1>5, <1>6 DEF LogTyped, LogKeeps

LEMMA SaveMoves ==
  ASSUME LogTyped, NEW o, NEW says, SaveEvent(o, says)
  PROVE  /\ LogTyped' /\ LogMoves /\ LogKeeps
         /\ \E i \in Ids' : events'[i].org = o /\ events'[i].says = says
<1>1. PICK e : e = [org |-> o, at |-> now, logged |-> TRUE, says |-> says]
  OBVIOUS
<1>2. e.org = o /\ e.at = now /\ e.says = says
  BY <1>1
<1>3. PICK S : S = {Len(events) + 1}
  OBVIOUS
<1>4. PICK T : T = {}
  OBVIOUS
<1>5. /\ events' = Append(events, e) /\ UNCHANGED now /\ index' = index \cup T
      /\ store' = store \cup S /\ saving' = saving \cup S
  BY <1>1, <1>3, <1>4 DEF SaveEvent
<1>6. /\ LogTyped' /\ LogMoves /\ LogKeeps
      /\ \E i \in Ids' : events'[i] = e
  BY <1>2, <1>3, <1>4, <1>5, EventAdded
<1> QED BY <1>2, <1>6

LEMMA LogStands ==
  ASSUME LogTyped, UNCHANGED <<events, store, saving, index>>, now' \in Int, now <= now'
  PROVE  LogTyped' /\ LogMoves /\ LogKeeps
<1>1. NewIds = {} /\ Ids' = Ids
  BY DEF NewIds, Ids
<1>2. LogMoves /\ LogKeeps
  BY <1>1 DEF LogMoves, LogKeeps
<1>3. Stamped'
  BY <1>1 DEF LogTyped, Stamped
<1> QED BY <1>1, <1>2, <1>3 DEF LogTyped, EventsListed, Placed

LEMMA FileMoves ==
  ASSUME LogTyped, NEW o, FileEvent(o)
  PROVE  LogTyped' /\ LogMoves /\ LogKeeps
<1>1. UNCHANGED <<now, store, saving>>
  BY DEF FileEvent
<1>2. CASE UNCHANGED <<events, index>>
  BY <1>1, <1>2, LogStands DEF LogTyped, Stamped
<1>3. CASE /\ events' = Append(events, [org |-> o, at |-> now, logged |-> FALSE, says |-> Nothing])
           /\ index' = index \cup {Len(events) + 1}
  <2>1. PICK e : e = [org |-> o, at |-> now, logged |-> FALSE, says |-> Nothing]
    OBVIOUS
  <2>2. events' = Append(events, e) /\ e.at = now /\ ~e.logged
    BY <1>3, <2>1
  <2>3. PICK T : T = {Len(events) + 1}
    OBVIOUS
  <2>4. PICK S : S = {}
    OBVIOUS
  <2>5. store' = store \cup S /\ saving' = saving \cup S /\ index' = index \cup T
    BY <1>1, <1>3, <2>3, <2>4
  <2> QED BY <1>1, <2>2, <2>3, <2>4, <2>5, EventAdded
<1> QED BY <1>2, <1>3 DEF FileEvent

LEMMA IndexMoves ==
  ASSUME LogTyped, NEW i \in saving, Index(i)
  PROVE  LogTyped' /\ LogMoves /\ LogKeeps
<1>1. /\ UNCHANGED <<now, events, store>> /\ saving' = saving \ {i}
      /\ index' \in {index, index \cup {i}}
  BY DEF Index
<1>2. NewIds = {} /\ Ids' = Ids
  BY <1>1 DEF NewIds, Ids
<1>3. LogMoves /\ LogKeeps
  BY <1>1, <1>2 DEF LogMoves, LogKeeps, LogTyped, Stamped
<1>4. Placed'
  BY <1>1, <1>2 DEF LogTyped, Placed
<1>5. EventsListed' /\ Stamped'
  BY <1>1, <1>2 DEF LogTyped, EventsListed, Stamped
<1> QED BY <1>3, <1>4, <1>5 DEF LogTyped

(* Deletions.                                                              *)
LEMMA LogShrinks ==
  ASSUME LogTyped, UNCHANGED <<now, events, saving>>, store' \subseteq store, index' \subseteq index
  PROVE  LogTyped' /\ LogMoves
<1>1. NewIds = {} /\ Ids' = Ids
  BY DEF NewIds, Ids
<1>2. LogMoves
  BY <1>1 DEF LogMoves, LogTyped, Stamped
<1>3. EventsListed' /\ Stamped' /\ Placed'
  BY <1>1 DEF LogTyped, EventsListed, Stamped, Placed
<1> QED BY <1>2, <1>3 DEF LogTyped

-----------------------------------------------------------------------------
(* Retention.  A claim that nothing older than a cutoff is left stays true *)
(* because a cutoff lies before the clock and events are stamped by it.  A *)
(* run gets past its archive phase only when nothing of it is left in the  *)
(* collection, so what it deletes after that is nothing.  A policy in      *)
(* force is in the log, or a change that has still to log will read it.    *)

Past(c) == c \in Int /\ c <= now
Gone(o, c) == Past(c) /\ Expired(o, c) = {}

RunsTrue ==
  /\ \E S : runs \in Seq(S)
  /\ \A k \in 1 .. Len(runs) :
       /\ runs[k] \in [org : {runs[k].org}, cutoff : {runs[k].cutoff},
                       done : {runs[k].done}, status : {runs[k].status}]
       /\ Past(runs[k].cutoff)
       /\ runs[k].done /\ runs[k].status = "completed" => Gone(runs[k].org, runs[k].cutoff)

ReportsTrue ==
  /\ report = [o \in Orgs |-> report[o]]
  /\ \A o \in Orgs : report[o] # Nothing =>
       Past(report[o].cutoff) /\ (report[o].compliant => Gone(o, report[o].cutoff))

Working(x) == x.pc \in {"archive", "delete", "search"}

WorkOf(x) ==
  Working(x) =>
    /\ x \in [pc : {x.pc}, todo : {x.todo}, run : {x.run}, archive : {x.archive},
              uploads : {x.uploads}, deletedAny : {x.deletedAny}]
    /\ x.run \in 1 .. Len(runs)
    /\ (x.pc = "delete" /\ x.archive) \/ x.pc = "search" =>
         Gone(runs[x.run].org, runs[x.run].cutoff)

SweepWork(x) == (x.pc # "idle" => x.todo \in Seq(Orgs)) /\ WorkOf(x)

SweepsTrue ==
  sweep = [w \in Workers |-> sweep[w]] /\ \A w \in Workers : SweepWork(sweep[w])

AdminWork(a) ==
  /\ a.pc \in {"write", "reread", "log", "count"} => a.org \in Orgs
  /\ a.pc = "write" => a.p \in Policies
  /\ a.pc = "count" => Past(a.cutoff)

AdminsTrue ==
  /\ policy \in [Orgs -> Policies \cup {Nothing}]
  /\ admin = [r \in Admins |-> admin[r]] /\ \A r \in Admins : AdminWork(admin[r])

IsLogged(o, p) == \E i \in Ids : events[i].org = o /\ events[i].says = p

WillShow(a, o, p) ==
  a.pc \in {"reread", "log"} /\ a.org = o /\ (a.pc = "log" => a.after = p)

PoliciesShown ==
  \A o \in Orgs :
    \/ policy[o] = Nothing \/ o \in unlogged
    \/ IsLogged(o, policy[o])
    \/ \E r \in Admins : WillShow(admin[r], o, policy[o])

RetentionInv ==
  RunsTrue /\ ReportsTrue /\ SweepsTrue /\ AdminsTrue /\ PoliciesShown /\ NothingVanishes

-----------------------------------------------------------------------------
(* What the log does leaves all of this as it is.                          *)

LEMMA PastStays ==
  ASSUME LogTyped, LogTyped', LogMoves, NEW c, Past(c)
  PROVE  Past(c)'
<1>1. now \in Int /\ now' \in Int /\ now <= now'
  BY DEF LogTyped, Stamped, LogMoves
<1> QED BY <1>1 DEF Past

LEMMA GoneStays ==
  ASSUME LogTyped, LogTyped', LogMoves, NEW o, NEW c, Gone(o, c)
  PROVE  Gone(o, c)'
<1>1. Past(c) /\ Past(c)' /\ Expired(o, c) = {}
  BY PastStays DEF Gone
<1>2. now \in Int /\ c \in Int /\ c <= now
  BY <1>1 DEF LogTyped, Stamped, Past
<1>3. ASSUME NEW i \in store', events'[i].org = o, events'[i].at < c
      PROVE  FALSE
  <2>1. i \in store \/ i \in NewIds
    BY DEF LogMoves
  <2>2. CASE i \in store
    <3>1. i \in Ids
      BY <2>2 DEF LogTyped, Placed
    <3>2. events'[i] = events[i]
      BY <3>1 DEF LogMoves
    <3> QED BY <1>1, <1>3, <2>2, <3>2 DEF Expired
  <2>3. CASE i \in NewIds
    <3>1. events'[i].at = now
      BY <2>3 DEF LogMoves
    <3> QED BY <1>2, <1>3, <3>1
  <2> QED BY <2>1, <2>2, <2>3
<1>4. Expired(o, c)' = {}
  BY <1>3 DEF Expired
<1> QED BY <1>1, <1>4 DEF Gone

LEMMA RunsStay ==
  ASSUME LogTyped, LogTyped', LogMoves, RunsTrue, UNCHANGED runs
  PROVE  RunsTrue'
<1>1. ASSUME NEW k \in 1 .. Len(runs)
      PROVE  /\ Past(runs[k].cutoff)'
             /\ runs[k].done /\ runs[k].status = "completed" => Gone(runs[k].org, runs[k].cutoff)'
  <2>1. PICK c, o : c = runs[k].cutoff /\ o = runs[k].org
    OBVIOUS
  <2>2. Past(c) /\ (runs[k].done /\ runs[k].status = "completed" => Gone(o, c))
    BY <2>1 DEF RunsTrue
  <2>3. Past(c)' /\ (runs[k].done /\ runs[k].status = "completed" => Gone(o, c)')
    BY <2>2, PastStays, GoneStays
  <2>4. c = runs'[k].cutoff /\ o = runs'[k].org
    BY <2>1
  <2> QED BY <2>3, <2>4
<1> QED BY <1>1 DEF RunsTrue

LEMMA ReportsStay ==
  ASSUME LogTyped, LogTyped', LogMoves, ReportsTrue, UNCHANGED report
  PROVE  ReportsTrue'
<1>1. ASSUME NEW o \in Orgs, report[o] # Nothing
      PROVE  Past(report[o].cutoff)' /\ (report[o].compliant => Gone(o, report[o].cutoff)')
  <2>1. PICK c : c = report[o].cutoff
    OBVIOUS
  <2>2. Past(c) /\ (report[o].compliant => Gone(o, c))
    BY <1>1, <2>1 DEF ReportsTrue
  <2>3. Past(c)' /\ (report[o].compliant => Gone(o, c)')
    BY <2>2, PastStays, GoneStays
  <2>4. c = report'[o].cutoff
    BY <2>1
  <2> QED BY <2>3, <2>4
<1> QED BY <1>1 DEF ReportsTrue

(* Runs are added and finished, never about something else.                *)
RunsGoOn ==
  /\ Len(runs) \in Nat /\ Len(runs') \in Nat /\ Len(runs) <= Len(runs')
  /\ \A k \in 1 .. Len(runs) :
       runs'[k].org = runs[k].org /\ runs'[k].cutoff = runs[k].cutoff

LEMMA SweepWorkStays ==
  ASSUME LogTyped, LogTyped', LogMoves, RunsGoOn, NEW x, SweepWork(x)
  PROVE  SweepWork(x)'
<1> SUFFICES ASSUME Working(x) PROVE WorkOf(x)'
  BY DEF SweepWork, WorkOf, Working
<1>1. /\ x \in [pc : {x.pc}, todo : {x.todo}, run : {x.run}, archive : {x.archive},
                uploads : {x.uploads}, deletedAny : {x.deletedAny}]
      /\ x.run \in 1 .. Len(runs)
      /\ (x.pc = "delete" /\ x.archive) \/ x.pc = "search" =>
           Gone(runs[x.run].org, runs[x.run].cutoff)
  BY DEF SweepWork, WorkOf
<1>2. x.run \in 1 .. Len(runs')
  BY <1>1 DEF RunsGoOn
<1>3. PICK o, c : o = runs[x.run].org /\ c = runs[x.run].cutoff
  OBVIOUS
<1>4. o = runs'[x.run].org /\ c = runs'[x.run].cutoff
  BY <1>1, <1>3 DEF RunsGoOn
<1>5. Gone(o, c) => Gone(o, c)'
  BY GoneStays
<1>6. (x.pc = "delete" /\ x.archive) \/ x.pc = "search" => Gone(o, c)'
  BY <1>1, <1>3, <1>5
<1>7. (x.pc = "delete" /\ x.archive) \/ x.pc = "search" =>
        Gone(runs[x.run].org, runs[x.run].cutoff)'
  BY <1>4, <1>6
<1> QED BY <1>1, <1>2, <1>7 DEF WorkOf

LEMMA RunsStand ==
  ASSUME RunsTrue, UNCHANGED runs
  PROVE  RunsGoOn
<1>1. Len(runs) \in Nat
  BY DEF RunsTrue
<1> QED BY <1>1 DEF RunsGoOn

LEMMA SweepsStay ==
  ASSUME LogTyped, LogTyped', LogMoves, RunsTrue, SweepsTrue, UNCHANGED <<runs, sweep>>
  PROVE  SweepsTrue'
<1>1. RunsGoOn
  BY RunsStand
<1>2. ASSUME NEW w \in Workers PROVE SweepWork(sweep[w])'
  <2>1. PICK x : x = sweep[w]
    OBVIOUS
  <2>2. SweepWork(x)'
    BY <1>1, <2>1, SweepWorkStays DEF SweepsTrue
  <2>3. sweep'[w] = x
    BY <2>1
  <2> QED BY <2>2, <2>3
<1> QED BY <1>2 DEF SweepsTrue

LEMMA AdminWorkStays ==
  ASSUME LogTyped, LogTyped', LogMoves, NEW a, AdminWork(a)
  PROVE  AdminWork(a)'
<1>1. PICK c : c = a.cutoff
  OBVIOUS
<1>2. Past(c) => Past(c)'
  BY PastStays
<1> QED BY <1>1, <1>2 DEF AdminWork

LEMMA ShownStays ==
  ASSUME LogMoves, NEW o, NEW p, IsLogged(o, p)
  PROVE  IsLogged(o, p)'
BY DEF LogMoves, IsLogged

LEMMA AdminsStay ==
  ASSUME LogTyped, LogTyped', LogMoves, AdminsTrue, PoliciesShown,
         UNCHANGED <<policy, admin, unlogged>>
  PROVE  AdminsTrue' /\ PoliciesShown'
<1>1. ASSUME NEW r \in Admins PROVE AdminWork(admin[r])'
  <2>1. PICK a : a = admin[r]
    OBVIOUS
  <2>2. AdminWork(a)'
    BY <2>1, AdminWorkStays DEF AdminsTrue
  <2>3. admin'[r] = a
    BY <2>1
  <2> QED BY <2>2, <2>3
<1>2. PoliciesShown'
  <2> SUFFICES ASSUME NEW o \in Orgs, policy[o] # Nothing, o \notin unlogged,
                      ~\E r \in Admins : WillShow(admin[r], o, policy[o])
               PROVE  IsLogged(o, policy[o])'
    BY DEF PoliciesShown, WillShow
  <2>1. PICK p : p = policy[o]
    OBVIOUS
  <2>2. IsLogged(o, p)'
    BY <2>1, ShownStays DEF PoliciesShown
  <2>3. p = policy'[o]
    BY <2>1
  <2> QED BY <2>2, <2>3
<1> QED BY <1>1, <1>2 DEF AdminsTrue

(* What is logged is stored, and only deletions take it out.               *)
LEMMA VanishingStays ==
  ASSUME LogMoves, NothingVanishes,
         plain \subseteq plain', archived \subseteq archived',
         store \subseteq store' \cup plain' \cup archived'
  PROVE  NothingVanishes'
<1> SUFFICES ASSUME NEW i \in Ids', events'[i].logged
             PROVE  i \in store' \cup plain' \cup archived'
  BY DEF NothingVanishes
<1>1. CASE i \in Ids
  <2>1. events'[i] = events[i]
    BY <1>1 DEF LogMoves
  <2>2. i \in store \cup plain \cup archived
    BY <1>1, <2>1 DEF NothingVanishes
  <2> QED BY <2>2
<1>2. CASE i \in NewIds
  BY <1>2 DEF LogMoves
<1> QED BY <1>1, <1>2 DEF NewIds

LEMMA RetentionStays ==
  ASSUME LogTyped, LogTyped', LogMoves, LogKeeps, RetentionInv, UNCHANGED retentionVars
  PROVE  RetentionInv'
<1>1. UNCHANGED <<policy, runs, archived, suspended, sweep, admin, report, unlogged, plain>>
  BY DEF retentionVars
<1>2. NothingVanishes'
  BY <1>1, VanishingStays DEF RetentionInv, LogKeeps
<1>3. RunsTrue' /\ ReportsTrue' /\ SweepsTrue' /\ AdminsTrue' /\ PoliciesShown'
  BY <1>1, RunsStay, ReportsStay, SweepsStay, AdminsStay DEF RetentionInv
<1> QED BY <1>2, <1>3 DEF RetentionInv

-----------------------------------------------------------------------------
(* Administrators.                                                         *)

LEMMA AdminChanges ==
  ASSUME LogTyped, LogTyped', LogMoves, AdminsTrue, NEW r \in Admins, NEW a,
         admin' = [admin EXCEPT ![r] = a], AdminWork(a)',
         policy' \in [Orgs -> Policies \cup {Nothing}]
  PROVE  AdminsTrue'
<1>1. ASSUME NEW q \in Admins PROVE AdminWork(admin[q])' 
  <2>1. PICK b : b = admin[q]
    OBVIOUS
  <2>2. AdminWork(b)'
    BY <2>1, AdminWorkStays DEF AdminsTrue
  <2>3. admin'[q] = IF q = r THEN a ELSE b
    BY <2>1 DEF AdminsTrue
  <2>4. CASE q = r
    <3>1. a = admin'[q]
      BY <2>3, <2>4
    <3> QED BY <3>1
  <2>5. CASE q # r
    <3>1. b = admin'[q]
      BY <2>3, <2>5
    <3> QED BY <2>2, <3>1
  <2> QED BY <2>4, <2>5
<1>2. admin' = [q \in Admins |-> admin'[q]]
  BY DEF AdminsTrue
<1> QED BY <1>1, <1>2 DEF AdminsTrue

(* What is in force is shown, or will be by another than r, or r sees to it. *)
LEMMA PoliciesStand ==
  ASSUME LogMoves, AdminsTrue, PoliciesShown, NEW r \in Admins, NEW a,
         admin' = [admin EXCEPT ![r] = a], unlogged \subseteq unlogged', UNCHANGED policy,
         \A o \in Orgs : WillShow(admin[r], o, policy[o]) =>
            o \in unlogged' \/ IsLogged(o, policy[o])' \/ WillShow(a, o, policy[o])
  PROVE  PoliciesShown'
<1> SUFFICES ASSUME NEW o \in Orgs, policy[o] # Nothing, o \notin unlogged',
                    ~IsLogged(o, policy[o])'
             PROVE  (\E q \in Admins : WillShow(admin[q], o, policy[o]))'
  BY DEF PoliciesShown
<1>1. PICK p : p = policy[o]
  OBVIOUS
<1>2. ~IsLogged(o, p)
  BY <1>1, ShownStays
<1>3. PICK q \in Admins : WillShow(admin[q], o, p)
  BY <1>1, <1>2 DEF PoliciesShown
<1>4. admin'[q] = IF q = r THEN a ELSE admin[q]
  BY DEF AdminsTrue
<1>5. CASE q = r
  <2>1. WillShow(a, o, p)
    BY <1>1, <1>3, <1>5
  <2>2. a = admin'[q] /\ p = policy'[o]
    BY <1>1, <1>4, <1>5
  <2>3. WillShow(admin[q], o, policy[o])'
    BY <2>1, <2>2 DEF WillShow
  <2> QED BY <2>3
<1>6. CASE q # r
  <2>1. admin'[q] = admin[q] /\ p = policy'[o]
    BY <1>1, <1>4, <1>6
  <2>2. WillShow(admin[q], o, policy[o])'
    BY <1>3, <2>1 DEF WillShow
  <2> QED BY <2>2
<1> QED BY <1>5, <1>6

LEMMA EffectiveTyped ==
  ASSUME AdminsTrue, NEW o \in Orgs
  PROVE  EffectivePolicy(o) \in Policies
<1>1. DefaultPolicy \in Policies
  BY RetentionAssumption DEF DefaultPolicy, Policies
<1>2. policy[o] \in Policies \cup {Nothing}
  BY DEF AdminsTrue
<1> QED BY <1>1, <1>2 DEF EffectivePolicy

LEMMA CutoffIsPast ==
  ASSUME LogTyped, AdminsTrue, NEW o \in Orgs
  PROVE  Past(Cutoff(EffectivePolicy(o)))
<1>1. PICK p : p = EffectivePolicy(o)
  OBVIOUS
<1>2. p.span \in MinSpan .. MaxSpan
  BY <1>1, EffectiveTyped DEF Policies
<1>3. now \in Int
  BY DEF LogTyped, Stamped
<1>4. now - p.span \in Int /\ now - p.span <= now
  BY <1>2, <1>3, RetentionAssumption
<1> QED BY <1>1, <1>4 DEF Past, Cutoff

LEMMA WriteMoves ==
  ASSUME LogTyped, LogTyped', LogMoves, AdminsTrue, PoliciesShown,
         NEW r \in Admins, WritePolicy(r)
  PROVE  AdminsTrue' /\ PoliciesShown'
<1>1. PICK o, p : o = admin[r].org /\ p = admin[r].p
  OBVIOUS
<1>2. o \in Orgs /\ p \in Policies
  BY <1>1 DEF AdminsTrue, AdminWork, WritePolicy
<1>3. PICK a : a = [pc |-> "reread", org |-> o]
  OBVIOUS
<1>4. a.pc = "reread" /\ a.org = o
  BY <1>3
<1>5. /\ admin' = [admin EXCEPT ![r] = a]
      /\ policy' = [policy EXCEPT ![o] = p] /\ unlogged' = unlogged \ {o}
  BY <1>1, <1>3 DEF WritePolicy
<1>6. policy' \in [Orgs -> Policies \cup {Nothing}]
  BY <1>2, <1>5 DEF AdminsTrue
<1>7. AdminWork(a)'
  BY <1>2, <1>4 DEF AdminWork
<1>8. AdminsTrue'
  BY <1>5, <1>6, <1>7, AdminChanges
<1>9. PoliciesShown'
  <2> SUFFICES ASSUME NEW u \in Orgs, policy'[u] # Nothing, u \notin unlogged',
                      ~IsLogged(u, policy[u])'
               PROVE  (\E q \in Admins : WillShow(admin[q], u, policy[u]))'
    BY DEF PoliciesShown
  <2>1. CASE u = o
    <3>1. admin'[r] = a
      BY <1>5 DEF AdminsTrue
    <3>2. WillShow(admin[r], u, policy[u])'
      BY <1>4, <2>1, <3>1 DEF WillShow
    <3> QED BY <3>2
  <2>2. CASE u # o
    <3>1. PICK x : x = policy[u]
      OBVIOUS
    <3>2. policy'[u] = x /\ u \notin unlogged
      BY <1>5, <2>2, <3>1 DEF AdminsTrue
    <3>3. ~IsLogged(u, x)'
      BY <3>2
    <3>4. ~IsLogged(u, x)
      BY <3>3, ShownStays
    <3>5. PICK q \in Admins : WillShow(admin[q], u, x)
      BY <3>1, <3>2, <3>4 DEF PoliciesShown
    <3>6. q # r
      <4>1. CASE q = r
        <5>1. admin[r].pc = "write"
          BY DEF WritePolicy
        <5> QED BY <3>5, <4>1, <5>1 DEF WillShow
      <4> QED BY <4>1
    <3>7. admin'[q] = admin[q]
      BY <1>5, <3>6 DEF AdminsTrue
    <3>8. WillShow(admin[q], u, policy[u])'
      BY <3>2, <3>5, <3>7 DEF WillShow
    <3> QED BY <3>8
  <2> QED BY <2>1, <2>2
<1> QED BY <1>8, <1>9

LEMMA RereadMoves ==
  ASSUME LogTyped, LogTyped', LogMoves, AdminsTrue, PoliciesShown,
         NEW r \in Admins, RereadPolicy(r)
  PROVE  AdminsTrue' /\ PoliciesShown'
<1>1. PICK o : o = admin[r].org
  OBVIOUS
<1>2. admin[r].pc = "reread" /\ o \in Orgs /\ UNCHANGED <<policy, report, unlogged>>
  BY <1>1 DEF AdminsTrue, AdminWork, RereadPolicy
<1>3. PICK a : a = [pc |-> "log", org |-> o, after |-> EffectivePolicy(o)]
  OBVIOUS
<1>4. a.pc = "log" /\ a.org = o /\ a.after = EffectivePolicy(o)
  BY <1>3
<1>5. admin' = [admin EXCEPT ![r] = a]
  BY <1>1, <1>3 DEF RereadPolicy
<1>6. AdminWork(a)'
  BY <1>2, <1>4 DEF AdminWork
<1>7. AdminsTrue'
  <2>1. policy' \in [Orgs -> Policies \cup {Nothing}]
    BY <1>2 DEF AdminsTrue
  <2> QED BY <1>5, <1>6, <2>1, AdminChanges
<1>8. ASSUME NEW u \in Orgs, WillShow(admin[r], u, policy[u])
      PROVE  policy[u] = Nothing \/ WillShow(a, u, policy[u])
  <2>1. u = o
    BY <1>1, <1>8 DEF WillShow
  <2> QED BY <1>4, <2>1 DEF WillShow, EffectivePolicy
<1>9. PoliciesShown'
  <2> SUFFICES ASSUME NEW u \in Orgs, policy'[u] # Nothing, u \notin unlogged',
                      ~IsLogged(u, policy[u])'
               PROVE  (\E q \in Admins : WillShow(admin[q], u, policy[u]))'
    BY DEF PoliciesShown
  <2>1. PICK x : x = policy[u]
    OBVIOUS
  <2>2. x # Nothing /\ u \notin unlogged /\ policy'[u] = x /\ ~IsLogged(u, x)'
    BY <1>2, <2>1
  <2>3. PICK q \in Admins : WillShow(admin[q], u, x)
    BY <2>1, <2>2, ShownStays DEF PoliciesShown
  <2>4. admin'[q] = IF q = r THEN a ELSE admin[q]
    BY <1>5 DEF AdminsTrue
  <2>5. WillShow(admin'[q], u, x)
    BY <1>8, <2>1, <2>2, <2>3, <2>4
  <2>6. WillShow(admin[q], u, policy[u])'
    BY <2>2, <2>5 DEF WillShow
  <2> QED BY <2>6
<1> QED BY <1>7, <1>9

LEMMA LogPolicyMoves ==
  ASSUME LogTyped, AdminsTrue, PoliciesShown, NEW r \in Admins, LogPolicy(r)
  PROVE  /\ LogTyped' /\ LogMoves /\ LogKeeps /\ AdminsTrue' /\ PoliciesShown'
         /\ UNCHANGED report
<1>1. PICK o, p : o = admin[r].org /\ p = admin[r].after
  OBVIOUS
<1>2. /\ admin[r].pc = "log" /\ UNCHANGED <<policy, report>>
      /\ admin' = [admin EXCEPT ![r] = Resting]
      /\ \/ SaveEvent(o, p) /\ UNCHANGED unlogged
         \/ EventIsLost /\ unlogged' = unlogged \cup {o}
  BY <1>1 DEF LogPolicy
<1>3. LogTyped' /\ LogMoves /\ LogKeeps /\ (IsLogged(o, p)' \/ o \in unlogged')
  <2>1. CASE SaveEvent(o, p)
    BY <2>1, SaveMoves DEF IsLogged
  <2>2. CASE EventIsLost /\ unlogged' = unlogged \cup {o}
    <3>1. UNCHANGED <<now, events, store, saving, index, s3>>
      BY <2>2 DEF EventIsLost, logVars
    <3>2. now \in Int
      BY DEF LogTyped, Stamped
    <3>3. now' \in Int /\ now <= now'
      BY <3>1, <3>2
    <3> QED BY <2>2, <3>1, <3>3, LogStands
  <2> QED BY <1>2, <2>1, <2>2
<1>4. PICK a : a = Resting
  OBVIOUS
<1>5. AdminWork(a)'
  BY <1>4 DEF AdminWork, Resting
<1>6. AdminsTrue'
  BY <1>2, <1>3, <1>4, <1>5, AdminChanges DEF AdminsTrue
<1>7. unlogged \subseteq unlogged'
  BY <1>2
<1>8. ASSUME NEW u \in Orgs, WillShow(admin[r], u, policy[u])
      PROVE  u \in unlogged' \/ IsLogged(u, policy[u])' \/ WillShow(a, u, policy[u])
  <2>1. u = o /\ p = policy[u] /\ p = policy'[u]
    BY <1>1, <1>2, <1>8 DEF WillShow
  <2> QED BY <1>3, <2>1
<1>9. PoliciesShown'
  BY <1>2, <1>3, <1>4, <1>7, <1>8, PoliciesStand
<1> QED BY <1>2, <1>3, <1>6, <1>9

(* Whoever is not between a change and its log changes nothing about what  *)
(* is logged.                                                              *)
LEMMA OtherAdmins ==
  ASSUME LogTyped, LogTyped', LogMoves, AdminsTrue, PoliciesShown, NEW r \in Admins, NEW a,
         admin[r].pc \notin {"reread", "log"}, UNCHANGED <<policy, unlogged>>,
         admin' = [admin EXCEPT ![r] = a], AdminWork(a)'
  PROVE  AdminsTrue' /\ PoliciesShown'
<1>1. \A o \in Orgs : ~WillShow(admin[r], o, policy[o])
  BY DEF WillShow
<1>2. AdminsTrue'
  BY AdminChanges DEF AdminsTrue
<1>3. PoliciesShown'
  BY <1>1, PoliciesStand
<1> QED BY <1>2, <1>3

(* A request that ends early leaves what it has not logged on record.      *)
LEMMA RequestEndMoves ==
  ASSUME LogTyped, LogTyped', LogMoves, AdminsTrue, PoliciesShown, NEW r \in Admins,
         RequestEnds(r)
  PROVE  AdminsTrue' /\ PoliciesShown'
<1>1. PICK a : a = Resting
  OBVIOUS
<1>2. AdminWork(a)'
  BY <1>1 DEF AdminWork, Resting
<1>3. /\ UNCHANGED <<policy, report>> /\ admin' = [admin EXCEPT ![r] = a]
      /\ unlogged' = unlogged \cup {o \in Orgs : /\ admin[r].pc \in {"reread", "log"}
                                               /\ admin[r].org = o}
  BY <1>1 DEF RequestEnds
<1>4. AdminsTrue'
  BY <1>2, <1>3, AdminChanges DEF AdminsTrue
<1>5. ASSUME NEW u \in Orgs, WillShow(admin[r], u, policy[u])
      PROVE  u \in unlogged'
  BY <1>3, <1>5 DEF WillShow
<1>6. PoliciesShown'
  BY <1>3, <1>5, PoliciesStand
<1> QED BY <1>4, <1>6

LEMMA ReadBeforeMoves ==
  ASSUME LogTyped, LogTyped', LogMoves, AdminsTrue, PoliciesShown,
         NEW r \in Admins, NEW o \in Orgs, ReadBefore(r, o)
  PROVE  AdminsTrue' /\ PoliciesShown'
<1>1. PICK span \in Spans, archive \in BOOLEAN :
        admin' = [admin EXCEPT ![r] =
           IF Acceptable([span |-> span, archive |-> archive])
           THEN [pc |-> "write", org |-> o, p |-> [span |-> span, archive |-> archive]]
           ELSE Resting]
  BY DEF ReadBefore
<1>2. PICK p : p = [span |-> span, archive |-> archive]
  OBVIOUS
<1>3. p.span = span /\ p.archive = archive
  BY <1>2
<1>4. PICK a : a = IF Acceptable(p) THEN [pc |-> "write", org |-> o, p |-> p] ELSE Resting
  OBVIOUS
<1>5. admin' = [admin EXCEPT ![r] = a]
  BY <1>1, <1>2, <1>4
<1>6. AdminWork(a)'
  <2>1. CASE Acceptable(p)
    <3>1. span >= MinSpan /\ span <= MaxSpan
      BY <1>3, <2>1 DEF Acceptable
    <3>2. span \in Int
      BY RetentionAssumption
    <3>3. span \in MinSpan .. MaxSpan
      BY <3>1, <3>2, RetentionAssumption
    <3>4. p \in Policies
      BY <1>2, <3>3 DEF Policies
    <3>5. a.pc = "write" /\ a.org = o /\ a.p = p
      BY <1>4, <2>1
    <3> QED BY <3>4, <3>5 DEF AdminWork
  <2>2. CASE ~Acceptable(p)
    BY <1>4, <2>2 DEF AdminWork, Resting
  <2> QED BY <2>1, <2>2
<1>7. admin[r].pc = "idle" /\ UNCHANGED <<policy, unlogged>>
  BY DEF ReadBefore
<1> QED BY <1>5, <1>6, <1>7, OtherAdmins

LEMMA StartReportMoves ==
  ASSUME LogTyped, LogTyped', LogMoves, AdminsTrue, PoliciesShown,
         NEW r \in Admins, NEW o \in Orgs, StartReport(r, o)
  PROVE  AdminsTrue' /\ PoliciesShown'
<1>1. PICK c : c = Cutoff(EffectivePolicy(o))
  OBVIOUS
<1>2. PICK a : a = [pc |-> "count", org |-> o, cutoff |-> c]
  OBVIOUS
<1>3. a.pc = "count" /\ a.org = o /\ a.cutoff = c
  BY <1>2
<1>4. Past(c)'
  <2>1. Past(c)
    BY <1>1, CutoffIsPast
  <2> QED BY <2>1, PastStays
<1>5. AdminWork(a)'
  BY <1>3, <1>4 DEF AdminWork
<1>6. /\ admin[r].pc = "idle" /\ UNCHANGED <<policy, unlogged>>
      /\ admin' = [admin EXCEPT ![r] = a]
  BY <1>1, <1>2 DEF StartReport
<1> QED BY <1>5, <1>6, OtherAdmins

LEMMA FinishReportMoves ==
  ASSUME LogTyped, LogTyped', LogMoves, AdminsTrue, PoliciesShown, ReportsTrue,
         NEW r \in Admins, FinishReport(r), UNCHANGED <<store, events>>
  PROVE  AdminsTrue' /\ PoliciesShown' /\ ReportsTrue'
<1>1. PICK o, c : o = admin[r].org /\ c = admin[r].cutoff
  OBVIOUS
<1>2. o \in Orgs /\ Past(c)
  BY <1>1 DEF AdminsTrue, AdminWork, FinishReport
<1>3. PICK v : v = [cutoff |-> c, compliant |-> Expired(o, c) = {}]
  OBVIOUS
<1>4. v.cutoff = c /\ v.compliant = (Expired(o, c) = {})
  BY <1>3
<1>5. report' = [report EXCEPT ![o] = v]
  BY <1>1, <1>3 DEF FinishReport, PastCutoff
<1>6. AdminsTrue' /\ PoliciesShown'
  <2>1. PICK a : a = Resting
    OBVIOUS
  <2>2. AdminWork(a)'
    BY <2>1 DEF AdminWork, Resting
  <2>3. /\ admin[r].pc = "count" /\ UNCHANGED <<policy, unlogged>>
        /\ admin' = [admin EXCEPT ![r] = a]
    BY <2>1 DEF FinishReport
  <2> QED BY <2>2, <2>3, OtherAdmins
<1>7. ASSUME NEW u \in Orgs, report'[u] # Nothing
      PROVE  (Past(report[u].cutoff) /\ (report[u].compliant => Gone(u, report[u].cutoff)))'
  <2>1. CASE u = o
    <3>1. report'[u] = v
      BY <1>5, <2>1 DEF ReportsTrue
    <3>2. Past(c) /\ (v.compliant => Gone(o, c))
      BY <1>2, <1>4 DEF Gone
    <3>3. Past(c)' /\ (v.compliant => Gone(o, c)')
      BY <3>2, PastStays, GoneStays
    <3>4. c = report'[u].cutoff
      BY <1>4, <3>1
    <3> QED BY <2>1, <3>1, <3>3, <3>4
  <2>2. CASE u # o
    <3>1. PICK d : d = report[u].cutoff
      OBVIOUS
    <3>2. report'[u] = report[u]
      BY <1>5, <2>2 DEF ReportsTrue
    <3>3. Past(d) /\ (report[u].compliant => Gone(u, d))
      BY <1>7, <3>1, <3>2 DEF ReportsTrue
    <3>4. Past(d)' /\ (report[u].compliant => Gone(u, d)')
      BY <3>3, PastStays, GoneStays
    <3>5. d = report'[u].cutoff
      BY <3>1, <3>2
    <3> QED BY <3>2, <3>4, <3>5
  <2> QED BY <2>1, <2>2
<1>8. report' = [u \in Orgs |-> report'[u]]
  BY <1>5 DEF ReportsTrue
<1> QED BY <1>6, <1>7, <1>8 DEF ReportsTrue

LEMMA AdminMoves ==
  ASSUME LogTyped, RetentionInv, NEW r \in Admins, AdminStep(r)
  PROVE  LogTyped' /\ LogMoves /\ LogKeeps /\ RetentionInv'
<1>1. UNCHANGED <<runs, archived, suspended, sweep, plain>>
  BY DEF AdminStep
<1>2. /\ RunsTrue /\ ReportsTrue /\ SweepsTrue /\ AdminsTrue /\ PoliciesShown
      /\ NothingVanishes
  BY DEF RetentionInv
<1>3. LogTyped' /\ LogMoves /\ LogKeeps /\ ReportsTrue' /\ AdminsTrue' /\ PoliciesShown'
  <2>1. CASE LogPolicy(r)
    <3>1. /\ LogTyped' /\ LogMoves /\ LogKeeps /\ AdminsTrue' /\ PoliciesShown'
          /\ UNCHANGED report
      BY <1>2, <2>1, LogPolicyMoves
    <3>2. ReportsTrue'
      BY <1>2, <3>1, ReportsStay
    <3> QED BY <3>1, <3>2
  <2>2. CASE UNCHANGED logVars /\ ~LogPolicy(r)
    <3>1. UNCHANGED <<now, events, store, saving, index, s3>>
      BY <2>2 DEF logVars
    <3>2. LogTyped' /\ LogMoves /\ LogKeeps
      <4>1. now \in Int
        BY DEF LogTyped, Stamped
      <4>2. now' \in Int /\ now <= now'
        BY <3>1, <4>1
      <4> QED BY <3>1, <4>2, LogStands
    <3>3. CASE WritePolicy(r)
      <4>1. UNCHANGED report
        BY <3>3 DEF WritePolicy
      <4> QED BY <1>2, <3>2, <3>3, <4>1, WriteMoves, ReportsStay
    <3>4. CASE RereadPolicy(r)
      <4>1. UNCHANGED report
        BY <3>4 DEF RereadPolicy
      <4> QED BY <1>2, <3>2, <3>4, <4>1, RereadMoves, ReportsStay
    <3>5. CASE FinishReport(r)
      BY <1>2, <3>1, <3>2, <3>5, FinishReportMoves
    <3>6. CASE \E o \in Orgs : ReadBefore(r, o)
      <4>1. UNCHANGED report
        BY <3>6 DEF ReadBefore
      <4> QED BY <1>2, <3>2, <3>6, <4>1, ReadBeforeMoves, ReportsStay
    <3>7. CASE \E o \in Orgs : StartReport(r, o)
      <4>1. UNCHANGED report
        BY <3>7 DEF StartReport
      <4> QED BY <1>2, <3>2, <3>7, <4>1, StartReportMoves, ReportsStay
    <3>8. CASE RequestEnds(r)
      <4>1. UNCHANGED report
        BY <3>8 DEF RequestEnds
      <4> QED BY <1>2, <3>2, <3>8, <4>1, RequestEndMoves, ReportsStay
    <3> QED BY <2>2, <3>3, <3>4, <3>5, <3>6, <3>7, <3>8 DEF AdminStep
  <2> QED BY <2>1, <2>2 DEF AdminStep
<1>4. RunsTrue' /\ SweepsTrue'
  BY <1>1, <1>2, <1>3, RunsStay, SweepsStay
<1>5. NothingVanishes'
  BY <1>1, <1>2, <1>3, VanishingStays DEF LogKeeps
<1> QED BY <1>3, <1>4, <1>5 DEF RetentionInv

-----------------------------------------------------------------------------
(* Sweeps.                                                                 *)

LEMMA SweepChanges ==
  ASSUME LogTyped, LogTyped', LogMoves, RunsGoOn, SweepsTrue, NEW w, NEW x,
         sweep' = [sweep EXCEPT ![w] = x], SweepWork(x)'
  PROVE  SweepsTrue'
<1>1. ASSUME NEW v \in Workers PROVE SweepWork(sweep[v])'
  <2>1. PICK y : y = sweep[v]
    OBVIOUS
  <2>2. SweepWork(y)'
    BY <2>1, SweepWorkStays DEF SweepsTrue
  <2>3. sweep'[v] = IF v = w THEN x ELSE y
    BY <2>1 DEF SweepsTrue
  <2>4. CASE v = w
    <3>1. x = sweep'[v]
      BY <2>3, <2>4
    <3> QED BY <3>1
  <2>5. CASE v # w
    <3>1. y = sweep'[v]
      BY <2>3, <2>5
    <3> QED BY <2>2, <3>1
  <2> QED BY <2>4, <2>5
<1>2. sweep' = [v \in Workers |-> sweep'[v]]
  BY DEF SweepsTrue
<1> QED BY <1>1, <1>2 DEF SweepsTrue

(* What every action of a sweep has to show of itself.                     *)
SweepHolds == LogTyped' /\ LogMoves /\ RunsTrue' /\ SweepsTrue' /\ NothingVanishes'

LEMMA LogRests ==
  ASSUME LogTyped, UNCHANGED logVars
  PROVE  LogTyped' /\ LogMoves /\ LogKeeps
<1>1. UNCHANGED <<now, events, store, saving, index>>
  BY DEF logVars
<1>2. now \in Int
  BY DEF LogTyped, Stamped
<1>3. now' \in Int /\ now <= now'
  BY <1>1, <1>2
<1> QED BY <1>1, <1>3, LogStands

(* A sweep that does nothing to the log or the runs.                       *)
LEMMA SweepGoes ==
  ASSUME LogTyped, RetentionInv, NEW w, NEW x, sweep' = [sweep EXCEPT ![w] = x], SweepWork(x),
         UNCHANGED <<runs, archived, plain>>, UNCHANGED logVars
  PROVE  SweepHolds
<1>1. LogTyped' /\ LogMoves /\ LogKeeps
  BY LogRests
<1>2. RunsTrue' /\ RunsGoOn
  BY <1>1, RunsStay, RunsStand DEF RetentionInv
<1>3. SweepWork(x)'
  BY <1>1, <1>2, SweepWorkStays
<1>4. SweepsTrue'
  BY <1>1, <1>2, <1>3, SweepChanges DEF RetentionInv
<1>5. NothingVanishes'
  BY <1>1, VanishingStays DEF RetentionInv, LogKeeps
<1> QED BY <1>1, <1>2, <1>4, <1>5 DEF SweepHolds

LEMMA RestingWork ==
  ASSUME NEW x, x.pc = "idle" \/ (x.pc = "next" /\ x.todo \in Seq(Orgs))
  PROVE  SweepWork(x)
BY DEF SweepWork, WorkOf, Working

LEMMA Unfinished ==
  ASSUME SweepsTrue, NEW w \in Workers, At(w, "next"), sweep[w].todo # <<>>
  PROVE  Head(sweep[w].todo) \in Orgs /\ Tail(sweep[w].todo) \in Seq(Orgs)
<1>1. sweep[w].todo \in Seq(Orgs)
  BY DEF SweepsTrue, SweepWork, At
<1> QED BY <1>1, HeadTailProperties

LEMMA SweepBegins ==
  ASSUME LogTyped, RetentionInv, NEW w \in Workers,
         StartSweep(w) \/ EndSweep(w) \/ PassOver(w) \/ Crash(w)
  PROVE  SweepHolds
<1>1. PICK y : sweep' = [sweep EXCEPT ![w] = y] /\ SweepWork(y)
  <2>1. CASE StartSweep(w)
    <3>1. PICK y : y = [pc |-> "next", todo |-> OrgOrder]
      OBVIOUS
    <3>2. sweep' = [sweep EXCEPT ![w] = y] /\ y.pc = "next" /\ y.todo \in Seq(Orgs)
      BY <2>1, <3>1, RetentionAssumption DEF StartSweep, Go
    <3> QED BY <3>2, RestingWork
  <2>2. CASE EndSweep(w) \/ Crash(w)
    <3>1. PICK y : y = Resting
      OBVIOUS
    <3>2. sweep' = [sweep EXCEPT ![w] = y] /\ y.pc = "idle"
      BY <2>2, <3>1 DEF EndSweep, Crash, Go, Resting
    <3> QED BY <3>2, RestingWork
  <2>3. CASE PassOver(w)
    <3>1. PICK t : t = Tail(sweep[w].todo)
      OBVIOUS
    <3>2. t \in Seq(Orgs)
      BY <2>3, <3>1, Unfinished DEF PassOver, RetentionInv
    <3>3. PICK y : y = [pc |-> "next", todo |-> t]
      OBVIOUS
    <3>4. sweep' = [sweep EXCEPT ![w] = y] /\ y.pc = "next" /\ y.todo \in Seq(Orgs)
      BY <2>3, <3>1, <3>2, <3>3 DEF PassOver, Go
    <3> QED BY <3>4, RestingWork
  <2> QED BY <2>1, <2>2, <2>3
<1>2. UNCHANGED <<runs, archived, plain>> /\ UNCHANGED logVars
  BY DEF StartSweep, EndSweep, PassOver, Crash
<1> QED BY <1>1, <1>2, SweepGoes

LEMMA StartRunMoves ==
  ASSUME LogTyped, RetentionInv, NEW w \in Workers, StartRun(w)
  PROVE  SweepHolds
<1>0. PICK o, t : o = Head(sweep[w].todo) /\ t = Tail(sweep[w].todo)
  OBVIOUS
<1>a. o \in Orgs /\ t \in Seq(Orgs)
  BY <1>0, Unfinished DEF StartRun, RetentionInv
<1>1. PICK p : p = EffectivePolicy(o)
  OBVIOUS
<1>2. PICK c : c = Cutoff(p)
  OBVIOUS
<1>3. Past(c)
  BY <1>a, <1>1, <1>2, CutoffIsPast DEF RetentionInv
<1>4. PICK e : e = [org |-> o, cutoff |-> c, done |-> FALSE, status |-> "completed"]
  OBVIOUS
<1>5. /\ e.org = o /\ e.cutoff = c /\ e.done = FALSE
      /\ e \in [org : {e.org}, cutoff : {e.cutoff}, done : {e.done}, status : {e.status}]
  BY <1>4
<1>6. PICK x : x = [pc |-> IF p.archive THEN "archive" ELSE "delete",
                    todo |-> t, run |-> Len(runs) + 1,
                    archive |-> p.archive, uploads |-> 0, deletedAny |-> FALSE]
  OBVIOUS
<1>7. /\ runs' = Append(runs, e) /\ sweep' = [sweep EXCEPT ![w] = x]
      /\ UNCHANGED logVars /\ UNCHANGED <<archived, plain>>
  BY <1>0, <1>1, <1>2, <1>4, <1>6 DEF StartRun, Go
<1>8. LogTyped' /\ LogMoves /\ LogKeeps
  BY <1>7, LogRests
<1>9. /\ \E S : runs' \in Seq(S)
      /\ Len(runs) \in Nat /\ Len(runs') = Len(runs) + 1
      /\ \A i \in 1 .. Len(runs) : runs'[i] = runs[i]
      /\ runs'[Len(runs) + 1] = e
  <2>1. \E S : runs \in Seq(S)
    BY DEF RetentionInv, RunsTrue
  <2> QED BY <1>7, <2>1, AppendFacts
<1>10. RunsTrue'
  <2>1. ASSUME NEW k \in 1 .. Len(runs')
        PROVE  /\ runs'[k] \in [org : {runs'[k].org}, cutoff : {runs'[k].cutoff},
                                done : {runs'[k].done}, status : {runs'[k].status}]
               /\ Past(runs[k].cutoff)'
               /\ runs'[k].done /\ runs'[k].status = "completed" =>
                    Gone(runs[k].org, runs[k].cutoff)'
    <3>1. CASE k \in 1 .. Len(runs)
      <4>1. PICK d, u : d = runs[k].cutoff /\ u = runs[k].org
        OBVIOUS
      <4>2. /\ runs[k] \in [org : {runs[k].org}, cutoff : {runs[k].cutoff},
                            done : {runs[k].done}, status : {runs[k].status}]
            /\ Past(d)
            /\ runs[k].done /\ runs[k].status = "completed" => Gone(u, d)
        BY <3>1, <4>1 DEF RetentionInv, RunsTrue
      <4>3. Past(d)' /\ (runs[k].done /\ runs[k].status = "completed" => Gone(u, d)')
        BY <1>8, <4>2, PastStays, GoneStays
      <4>4. runs'[k] = runs[k] /\ d = runs'[k].cutoff /\ u = runs'[k].org
        BY <1>9, <3>1, <4>1
      <4> QED BY <4>2, <4>3, <4>4
    <3>2. CASE k = Len(runs) + 1
      <4>1. runs'[k] = e
        BY <1>9, <3>2
      <4>2. Past(c)' /\ c = runs'[k].cutoff
        BY <1>3, <1>5, <1>8, <4>1, PastStays
      <4> QED BY <1>5, <4>1, <4>2
    <3> QED BY <1>9, <3>1, <3>2
  <2> QED BY <1>9, <2>1 DEF RunsTrue
<1>11. RunsGoOn
  BY <1>9 DEF RunsGoOn
<1>12. SweepWork(x)'
  <2>1. /\ x \in [pc : {x.pc}, todo : {x.todo}, run : {x.run}, archive : {x.archive},
                  uploads : {x.uploads}, deletedAny : {x.deletedAny}]
        /\ x.pc = (IF p.archive THEN "archive" ELSE "delete")
        /\ x.run = Len(runs) + 1 /\ x.archive = p.archive /\ x.todo = t
    BY <1>6
  <2>2. x.run \in 1 .. Len(runs')
    BY <1>9, <2>1
  <2>3. ~((x.pc = "delete" /\ x.archive) \/ x.pc = "search")
    BY <2>1
  <2> QED BY <1>a, <2>1, <2>2, <2>3 DEF SweepWork, WorkOf
<1>13. SweepsTrue'
  BY <1>7, <1>8, <1>11, <1>12, SweepChanges DEF RetentionInv
<1>14. NothingVanishes'
  BY <1>7, <1>8, VanishingStays DEF RetentionInv, LogKeeps
<1> QED BY <1>8, <1>10, <1>13, <1>14 DEF SweepHolds

(* What is known of a sweep at work on a run.                              *)
LEMMA AtWork ==
  ASSUME RetentionInv, NEW w \in Workers, NEW x, x = sweep[w], Working(x), LogTyped
  PROVE  /\ x \in [pc : {x.pc}, todo : {x.todo}, run : {x.run}, archive : {x.archive},
                   uploads : {x.uploads}, deletedAny : {x.deletedAny}]
         /\ x.todo \in Seq(Orgs) /\ x.run \in 1 .. Len(runs)
         /\ (x.pc = "delete" /\ x.archive) \/ x.pc = "search" =>
              Gone(runs[x.run].org, runs[x.run].cutoff)
         /\ Left(w) = {} => Gone(runs[x.run].org, runs[x.run].cutoff)
<1>1. SweepWork(x) /\ RunsTrue
  BY DEF RetentionInv, SweepsTrue
<1>2. x.run \in 1 .. Len(runs)
  BY <1>1 DEF SweepWork, WorkOf
<1>3. Past(runs[x.run].cutoff)
  BY <1>1, <1>2 DEF RunsTrue
<1>4. Left(w) = {} => Gone(runs[x.run].org, runs[x.run].cutoff)
  BY <1>3 DEF Left, Run, Gone
<1> QED BY <1>1, <1>4 DEF SweepWork, WorkOf, Working

LEMMA ArchiveBatchMoves ==
  ASSUME LogTyped, RetentionInv, NEW w \in Workers, ArchiveBatch(w)
  PROVE  SweepHolds
<1>1. PICK x : x = sweep[w]
  OBVIOUS
<1>2. x.pc = "archive" /\ UNCHANGED <<runs, plain>>
  BY <1>1 DEF ArchiveBatch, At
<1>3. PICK B : archived' = archived \cup B /\ FileEvent(Run(w).org)
  BY DEF ArchiveBatch, UploadArchive
<1>4. LogTyped' /\ LogMoves /\ LogKeeps
  BY <1>3, FileMoves
<1>5. PICK u : u = IF x.uploads = 1 THEN 2 ELSE 1
  OBVIOUS
<1>6. PICK y : y = [x EXCEPT !.uploads = u]
  OBVIOUS
<1>7. sweep' = [sweep EXCEPT ![w] = y]
  BY <1>1, <1>5, <1>6 DEF ArchiveBatch, Go
<1>8. /\ x \in [pc : {x.pc}, todo : {x.todo}, run : {x.run}, archive : {x.archive},
                uploads : {x.uploads}, deletedAny : {x.deletedAny}]
      /\ x.todo \in Seq(Orgs) /\ x.run \in 1 .. Len(runs)
  BY <1>1, <1>2, AtWork DEF Working
<1>9. /\ y.pc = "archive" /\ y.todo = x.todo /\ y.run = x.run
      /\ y \in [pc : {y.pc}, todo : {y.todo}, run : {y.run}, archive : {y.archive},
                uploads : {y.uploads}, deletedAny : {y.deletedAny}]
  BY <1>2, <1>6, <1>8
<1>10. SweepWork(y)'
  BY <1>2, <1>8, <1>9 DEF SweepWork, WorkOf
<1>11. RunsTrue' /\ RunsGoOn
  BY <1>2, <1>4, RunsStay, RunsStand DEF RetentionInv
<1>12. SweepsTrue'
  BY <1>4, <1>7, <1>10, <1>11, SweepChanges DEF RetentionInv
<1>13. NothingVanishes'
  BY <1>2, <1>3, <1>4, VanishingStays DEF RetentionInv, LogKeeps
<1> QED BY <1>4, <1>11, <1>12, <1>13 DEF SweepHolds

(* From phase to phase: nothing is left of what the run has before it.     *)
LEMMA PhaseEnds ==
  ASSUME LogTyped, RetentionInv, NEW w \in Workers, EndArchive(w) \/ EndDelete(w)
  PROVE  SweepHolds
<1>1. PICK x : x = sweep[w]
  OBVIOUS
<1>2. Working(x) /\ Left(w) = {}
  BY <1>1 DEF EndArchive, EndDelete, At, Working, ArchiveDone, DeleteDone
<1>3. PICK p \in {"delete", "search"} : sweep' = [sweep EXCEPT ![w] = [x EXCEPT !.pc = p]]
  BY <1>1 DEF EndArchive, EndDelete, Go
<1>4. PICK y : y = [x EXCEPT !.pc = p]
  OBVIOUS
<1>5. /\ x \in [pc : {x.pc}, todo : {x.todo}, run : {x.run}, archive : {x.archive},
                uploads : {x.uploads}, deletedAny : {x.deletedAny}]
      /\ x.todo \in Seq(Orgs) /\ x.run \in 1 .. Len(runs)
      /\ Gone(runs[x.run].org, runs[x.run].cutoff)
  BY <1>1, <1>2, AtWork
<1>6. /\ y.pc = p /\ y.todo = x.todo /\ y.run = x.run
      /\ y \in [pc : {y.pc}, todo : {y.todo}, run : {y.run}, archive : {y.archive},
                uploads : {y.uploads}, deletedAny : {y.deletedAny}]
  BY <1>4, <1>5
<1>7. SweepWork(y)
  BY <1>5, <1>6 DEF SweepWork, WorkOf
<1>8. sweep' = [sweep EXCEPT ![w] = y]
  BY <1>3, <1>4
<1>9. UNCHANGED <<runs, archived, plain>> /\ UNCHANGED logVars
  BY DEF EndArchive, EndDelete
<1> QED BY <1>7, <1>8, <1>9, SweepGoes

LEMMA DeleteBatchMoves ==
  ASSUME LogTyped, RetentionInv, NEW w \in Workers, DeleteBatch(w)
  PROVE  SweepHolds
<1>1. PICK x : x = sweep[w]
  OBVIOUS
<1>2. x.pc = "delete" /\ Left(w) # {} /\ UNCHANGED <<now, events, saving, index, runs, archived>>
  BY <1>1 DEF DeleteBatch, At, DeleteDone
<1>3. /\ x \in [pc : {x.pc}, todo : {x.todo}, run : {x.run}, archive : {x.archive},
                uploads : {x.uploads}, deletedAny : {x.deletedAny}]
      /\ x.todo \in Seq(Orgs) /\ x.run \in 1 .. Len(runs)
      /\ x.archive => Gone(runs[x.run].org, runs[x.run].cutoff)
  BY <1>1, <1>2, AtWork DEF Working
<1>4. ~x.archive
  BY <1>1, <1>2, <1>3 DEF Gone, Left, Run
<1>5. PICK B : store' = store \ B /\ plain' = plain \cup B
  BY <1>1, <1>4 DEF DeleteBatch
<1>6. LogTyped' /\ LogMoves
  BY <1>2, <1>5, LogShrinks
<1>7. PICK y : y = [x EXCEPT !.deletedAny = TRUE]
  OBVIOUS
<1>8. sweep' = [sweep EXCEPT ![w] = y]
  BY <1>1, <1>7 DEF DeleteBatch, Go
<1>9. /\ y.pc = "delete" /\ y.todo = x.todo /\ y.run = x.run /\ y.archive = x.archive
      /\ y \in [pc : {y.pc}, todo : {y.todo}, run : {y.run}, archive : {y.archive},
                uploads : {y.uploads}, deletedAny : {y.deletedAny}]
  BY <1>2, <1>3, <1>7
<1>10. SweepWork(y)'
  BY <1>2, <1>3, <1>4, <1>9 DEF SweepWork, WorkOf
<1>11. RunsTrue' /\ RunsGoOn
  BY <1>2, <1>6, RunsStay, RunsStand DEF RetentionInv
<1>12. SweepsTrue'
  BY <1>6, <1>8, <1>10, <1>11, SweepChanges DEF RetentionInv
<1>13. NothingVanishes'
  BY <1>2, <1>5, <1>6, VanishingStays DEF RetentionInv
<1> QED BY <1>6, <1>11, <1>12, <1>13 DEF SweepHolds

(* A run finishes: as completed only if its claim is true.                 *)
LEMMA RunFinishes ==
  ASSUME LogTyped, LogTyped', LogMoves, RetentionInv, NEW w \in Workers, NEW status,
         Working(sweep[w]), FinishRun(w, status),
         status = "completed" =>
           Gone(runs[sweep[w].run].org, runs[sweep[w].run].cutoff)
  PROVE  RunsTrue' /\ SweepsTrue'
<1>1. PICK x : x = sweep[w]
  OBVIOUS
<1>2. x.todo \in Seq(Orgs) /\ x.run \in 1 .. Len(runs)
  BY <1>1, AtWork
<1>3. PICK k : k = x.run
  OBVIOUS
<1>4. PICK e : e = [runs[k] EXCEPT !.done = TRUE, !.status = status]
  OBVIOUS
<1>5. runs' = [runs EXCEPT ![k] = e]
  BY <1>1, <1>3, <1>4 DEF FinishRun
<1>6. RunsTrue
  BY DEF RetentionInv
<1>7. /\ e.org = runs[k].org /\ e.cutoff = runs[k].cutoff /\ e.done = TRUE /\ e.status = status
      /\ e \in [org : {e.org}, cutoff : {e.cutoff}, done : {e.done}, status : {e.status}]
  <2>1. runs[k] \in [org : {runs[k].org}, cutoff : {runs[k].cutoff},
                     done : {runs[k].done}, status : {runs[k].status}]
    BY <1>2, <1>3, <1>6 DEF RunsTrue
  <2> QED BY <1>4, <2>1
<1>8. /\ \E S : runs' \in Seq(S)
      /\ Len(runs) \in Nat /\ Len(runs') = Len(runs)
      /\ \A i \in 1 .. Len(runs) : runs'[i] = IF i = k THEN e ELSE runs[i]
  <2>1. PICK S : runs \in Seq(S)
    BY <1>6 DEF RunsTrue
  <2>2. PICK T : T = S \cup {e}
    OBVIOUS
  <2>3. /\ Len(runs) \in Nat /\ \A i \in 1 .. Len(runs) : runs[i] \in S
        /\ runs = [i \in 1 .. Len(runs) |-> runs[i]]
    BY <2>1
  <2>4. runs' = [i \in 1 .. Len(runs) |-> IF i = k THEN e ELSE runs[i]]
    BY <1>5, <2>3
  <2>5. \A i \in 1 .. Len(runs) : (IF i = k THEN e ELSE runs[i]) \in T
    BY <2>2, <2>3
  <2>6. runs' \in Seq(T)
    BY <2>3, <2>4, <2>5, IsASeq
  <2>7. Len(runs') = Len(runs)
    BY <2>3, <2>4, <2>6
  <2> QED BY <2>3, <2>4, <2>6, <2>7
<1>9. RunsTrue'
  <2>1. ASSUME NEW i \in 1 .. Len(runs')
        PROVE  /\ runs'[i] \in [org : {runs'[i].org}, cutoff : {runs'[i].cutoff},
                                done : {runs'[i].done}, status : {runs'[i].status}]
               /\ Past(runs[i].cutoff)'
               /\ runs'[i].done /\ runs'[i].status = "completed" =>
                    Gone(runs[i].org, runs[i].cutoff)'
    <3>1. i \in 1 .. Len(runs) /\ runs'[i] = IF i = k THEN e ELSE runs[i]
      BY <1>8
    <3>2. PICK d, u : d = runs[i].cutoff /\ u = runs[i].org
      OBVIOUS
    <3>3. /\ runs[i] \in [org : {runs[i].org}, cutoff : {runs[i].cutoff},
                          done : {runs[i].done}, status : {runs[i].status}]
          /\ Past(d)
          /\ runs[i].done /\ runs[i].status = "completed" => Gone(u, d)
      BY <1>6, <3>1, <3>2 DEF RunsTrue
    <3>4. Past(d)' /\ (Gone(u, d) => Gone(u, d)')
      BY <3>3, PastStays, GoneStays
    <3>5. CASE i = k
      <4>1. runs'[i] = e /\ d = runs'[i].cutoff /\ u = runs'[i].org
        BY <1>7, <3>1, <3>2, <3>5
      <4>2. e.status = "completed" => Gone(u, d)
        BY <1>1, <1>3, <1>7, <3>2, <3>5
      <4>3. e.status = "completed" => Gone(u, d)'
        BY <3>4, <4>2
      <4> QED BY <1>7, <3>4, <4>1, <4>3
    <3>6. CASE i # k
      <4>1. runs'[i] = runs[i] /\ d = runs'[i].cutoff /\ u = runs'[i].org
        BY <3>1, <3>2, <3>6
      <4> QED BY <3>3, <3>4, <4>1
    <3> QED BY <3>5, <3>6
  <2> QED BY <1>8, <2>1 DEF RunsTrue
<1>10. RunsGoOn
  BY <1>7, <1>8 DEF RunsGoOn
<1>11. SweepsTrue'
  <2>1. PICK y : y = [pc |-> "next", todo |-> x.todo]
    OBVIOUS
  <2>2. y.pc = "next" /\ y.todo \in Seq(Orgs)
    BY <1>2, <2>1
  <2>3. sweep' = [sweep EXCEPT ![w] = y]
    BY <1>1, <2>1 DEF FinishRun, Go
  <2>4. SweepWork(y)'
    BY <2>2 DEF SweepWork, WorkOf, Working
  <2> QED BY <1>10, <2>3, <2>4, SweepChanges DEF RetentionInv
<1> QED BY <1>9, <1>11

LEMMA SearchDeleteMoves ==
  ASSUME LogTyped, RetentionInv, NEW w \in Workers, DeleteFromSearch(w)
  PROVE  SweepHolds
<1>1. sweep[w].pc = "search" /\ UNCHANGED <<now, events, store, saving, archived, plain>>
  BY DEF DeleteFromSearch, At
<1>2. index' \subseteq index
  BY DEF DeleteFromSearch
<1>3. LogTyped' /\ LogMoves
  BY <1>1, <1>2, LogShrinks
<1>4. Working(sweep[w]) /\ Gone(runs[sweep[w].run].org, runs[sweep[w].run].cutoff)
  <2>1. PICK x : x = sweep[w]
    OBVIOUS
  <2>2. Working(x) /\ Gone(runs[x.run].org, runs[x.run].cutoff)
    BY <1>1, <2>1, AtWork DEF Working
  <2> QED BY <2>1, <2>2
<1>5. FinishRun(w, "completed")
  BY DEF DeleteFromSearch
<1>6. RunsTrue' /\ SweepsTrue'
  BY <1>3, <1>4, <1>5, RunFinishes
<1>7. NothingVanishes'
  BY <1>1, <1>3, VanishingStays DEF RetentionInv
<1> QED BY <1>3, <1>6, <1>7 DEF SweepHolds

LEMMA FailMoves ==
  ASSUME LogTyped, RetentionInv, NEW w \in Workers, FailRun(w)
  PROVE  SweepHolds
<1>1. UNCHANGED logVars /\ UNCHANGED <<archived, plain>> /\ Working(sweep[w])
  BY DEF FailRun, At, Working
<1>2. LogTyped' /\ LogMoves /\ LogKeeps
  BY <1>1, LogRests
<1>3. PICK status \in {"partial", "failed"} : FinishRun(w, status)
  BY DEF FailRun, FailedStatus
<1>4. RunsTrue' /\ SweepsTrue'
  BY <1>1, <1>2, <1>3, RunFinishes
<1>5. NothingVanishes'
  BY <1>1, <1>2, VanishingStays DEF RetentionInv, LogKeeps
<1> QED BY <1>2, <1>4, <1>5 DEF SweepHolds

LEMMA SweepMoves ==
  ASSUME LogTyped, RetentionInv, NEW w \in Workers, SweepStep(w)
  PROVE  LogTyped' /\ LogMoves /\ RetentionInv'
<1>1. UNCHANGED <<policy, suspended, admin, report, unlogged>>
  BY DEF SweepStep
<1>2. SweepHolds
  BY SweepBegins, StartRunMoves, ArchiveBatchMoves, PhaseEnds, DeleteBatchMoves,
     SearchDeleteMoves, FailMoves DEF SweepStep, GoOn
<1>3. ReportsTrue' /\ AdminsTrue' /\ PoliciesShown'
  BY <1>1, <1>2, ReportsStay, AdminsStay DEF SweepHolds, RetentionInv
<1> QED BY <1>2, <1>3 DEF SweepHolds, RetentionInv

-----------------------------------------------------------------------------
(* Exports.  An event that matched when a fetch began and is alone at its  *)
(* instant is fetched, or has all the rows of the pages fetched so far     *)
(* ahead of it: what is deleted is older than what stays, so that nothing  *)
(* moves up past the pages.                                                *)

FetchPcs == {"fetch", "answered", "upload", "mail", "log", "completed"}

Ahead(e, i) ==
  e.pc = "fetch" /\ (e.page - 1) * PageSize <= LaterThan(Matching(e.org, e.range), i)

FetchKnows(e, m) ==
  \A i \in m : i \in Ids /\ i \notin saving /\ events[i].org = e.org /\ InRange(i, e.range)

FetchGets(e, m) == \A i \in m \cap index : AloneAtItsTime(i) => i \in e.got \/ Ahead(e, i)

FetchWork(e, m) ==
  e.pc \in FetchPcs =>
    /\ e \in [pc : {e.pc}, org : {e.org}, range : {e.range}, page : {e.page},
              got : {e.got}, attempt : {e.attempt}]
    /\ e.page \in Nat \ {0}
    /\ FetchKnows(e, m) /\ FetchGets(e, m)

ExportInv ==
  /\ export = [x \in Exports |-> export[x]] /\ matched = [x \in Exports |-> matched[x]]
  /\ \A x \in Exports : FetchWork(export[x], matched[x])

(* What leaves the index is older than what stays of its organization.     *)
IndexAges ==
  \A i \in index \cap index', j \in index \ index' :
     events[j].org = events[i].org => events[j].at < events[i].at

LEMMA FiniteUpTo ==
  ASSUME NEW n \in Nat, NEW S, S \subseteq 1 .. n
  PROVE  IsFiniteSet(S) /\ Cardinality(S) \in Nat
<1>1. IsFiniteSet(1 .. n)
  BY FS_Interval
<1>2. IsFiniteSet(S)
  BY <1>1, FS_Subset
<1> QED BY <1>2, FS_CardinalityType

FiniteIndex == \A S : S \subseteq index => IsFiniteSet(S) /\ Cardinality(S) \in Nat

LEMMA IndexIsFinite ==
  ASSUME LogTyped
  PROVE  FiniteIndex
<1>1. Len(events) \in Nat
  BY DEF LogTyped, EventsListed
<1>2. index \subseteq 1 .. Len(events)
  BY DEF LogTyped, Placed, Ids
<1> QED BY <1>1, <1>2, FiniteUpTo DEF FiniteIndex

LEMMA IndexStaysFinite ==
  ASSUME LogTyped'
  PROVE  FiniteIndex'
<1>1. Len(events') \in Nat
  BY DEF LogTyped, EventsListed
<1>2. index' \subseteq 1 .. Len(events')
  BY DEF LogTyped, Placed, Ids
<1> QED BY <1>1, <1>2, FiniteUpTo DEF FiniteIndex

LEMMA LaterStays ==
  ASSUME LogTyped, LogTyped', LogMoves, IndexAges, NEW o, NEW range, NEW i,
         i \in index \cap index', events[i].org = o
  PROVE  LaterThan(Matching(o, range), i) <= LaterThan(Matching(o, range), i)'
<1>1. PICK S : S = {j \in Matching(o, range) : events[j].at > events[i].at}
  OBVIOUS
<1>2. PICK T : T = {j \in Matching(o, range)' : events'[j].at > events'[i].at}
  OBVIOUS
<1>3. \A j \in index : j \in Ids /\ events'[j] = events[j] /\ events[j].at \in Int
  BY DEF LogTyped, Placed, Stamped, LogMoves
<1>4. S \subseteq T
  <2> SUFFICES ASSUME NEW j \in S PROVE j \in T
    OBVIOUS
  <2>1. j \in index /\ events[j].org = o /\ InRange(j, range) /\ events[j].at > events[i].at
    BY <1>1 DEF Matching
  <2>2. j \in index'
    <3>1. CASE j \notin index'
      <4>1. events[j].at < events[i].at
        BY <2>1, <3>1 DEF IndexAges
      <4>2. events[j].at \in Int /\ events[i].at \in Int
        BY <1>3, <2>1
      <4> QED BY <2>1, <4>1, <4>2
    <3> QED BY <3>1
  <2>3. events'[j] = events[j] /\ events'[i] = events[i]
    BY <1>3, <2>1
  <2>4. InRange(j, range)'
    BY <2>1, <2>3 DEF InRange
  <2> QED BY <1>2, <2>1, <2>2, <2>3, <2>4 DEF Matching
<1>5. IsFiniteSet(T)
  <2>1. T \subseteq index'
    BY <1>2 DEF Matching
  <2> QED BY <2>1, IndexStaysFinite DEF FiniteIndex
<1>6. Cardinality(S) <= Cardinality(T)
  BY <1>4, <1>5, FS_Subset
<1> QED BY <1>1, <1>2, <1>6 DEF LaterThan

LEMMA FetchStays ==
  ASSUME LogTyped, LogTyped', LogMoves, IndexAges, NEW e, NEW m, FetchWork(e, m)
  PROVE  FetchWork(e, m)'
<1> SUFFICES ASSUME e.pc \in FetchPcs PROVE FetchWork(e, m)'
  BY DEF FetchWork, FetchPcs
<1>1. /\ e \in [pc : {e.pc}, org : {e.org}, range : {e.range}, page : {e.page},
                got : {e.got}, attempt : {e.attempt}]
      /\ e.page \in Nat \ {0} /\ FetchKnows(e, m) /\ FetchGets(e, m)
  BY DEF FetchWork
<1>2. ASSUME NEW i \in m
      PROVE  i \in Ids /\ i \in Ids' /\ events'[i] = events[i] /\ i \notin saving'
  BY <1>1 DEF FetchKnows, LogMoves, NewIds
<1>3. FetchKnows(e, m)'
  BY <1>1, <1>2 DEF FetchKnows, InRange
<1>4. ASSUME NEW i \in m, i \in index', AloneAtItsTime(i)'
      PROVE  i \in e.got \/ Ahead(e, i)'
  <2>1. i \in index
    BY <1>1, <1>2, <1>4 DEF FetchKnows, LogMoves, NewIds
  <2>2. AloneAtItsTime(i)
    BY <1>2, <1>4 DEF AloneAtItsTime, LogMoves
  <2>3. i \in e.got \/ Ahead(e, i)
    BY <1>1, <2>1, <2>2 DEF FetchGets
  <2>4. CASE Ahead(e, i)
    <3>1. PICK o, range, p : o = e.org /\ range = e.range /\ p = (e.page - 1) * PageSize
      OBVIOUS
    <3>2. p <= LaterThan(Matching(o, range), i) /\ e.pc = "fetch"
      BY <2>4, <3>1 DEF Ahead
    <3>3. events[i].org = o
      BY <1>1, <3>1 DEF FetchKnows
    <3>4. LaterThan(Matching(o, range), i) <= LaterThan(Matching(o, range), i)'
      BY <1>4, <2>1, <3>3, LaterStays
    <3>5. PICK a, b : a = LaterThan(Matching(o, range), i) /\ b = LaterThan(Matching(o, range), i)'
      OBVIOUS
    <3>6. a \in Nat /\ b \in Nat /\ p \in Int
      <4>3. a \in Nat
        BY <3>5, IndexIsFinite DEF FiniteIndex, LaterThan, Matching
      <4>4. b \in Nat
        BY <3>5, IndexStaysFinite DEF FiniteIndex, LaterThan, Matching
      <4> QED BY <1>1, <3>1, <4>3, <4>4, ExportAssumption
    <3>7. p <= b
      BY <3>2, <3>4, <3>5, <3>6
    <3> QED BY <3>1, <3>2, <3>5, <3>7 DEF Ahead
  <2> QED BY <2>3, <2>4
<1>5. FetchGets(e, m)'
  BY <1>4 DEF FetchGets
<1> QED BY <1>1, <1>3, <1>5 DEF FetchWork

LEMMA KeptAges ==
  ASSUME index \subseteq index'
  PROVE  IndexAges
BY DEF IndexAges

(* What the log does leaves the exports as they are.                       *)
LEMMA ExportsStay ==
  ASSUME LogTyped, LogTyped', LogMoves, IndexAges, ExportInv, UNCHANGED exportVars
  PROVE  ExportInv'
<1>1. UNCHANGED <<export, matched>>
  BY DEF exportVars
<1>2. ASSUME NEW x \in Exports PROVE FetchWork(export[x], matched[x])'
  <2>1. PICK e, m : e = export[x] /\ m = matched[x]
    OBVIOUS
  <2>2. FetchWork(e, m)'
    BY <2>1, FetchStays DEF ExportInv
  <2>3. e = export'[x] /\ m = matched'[x]
    BY <1>1, <2>1
  <2> QED BY <2>2, <2>3
<1> QED BY <1>1, <1>2 DEF ExportInv

LEMMA ExportChanges ==
  ASSUME LogTyped, LogTyped', LogMoves, IndexAges, ExportInv, NEW x, NEW e, NEW m,
         export' = [export EXCEPT ![x] = e], matched' = [matched EXCEPT ![x] = m],
         FetchWork(e, m)'
  PROVE  ExportInv'
<1>1. ASSUME NEW z \in Exports PROVE FetchWork(export[z], matched[z])'
  <2>1. CASE z = x
    <3>1. e = export'[z] /\ m = matched'[z]
      BY <2>1 DEF ExportInv
    <3> QED BY <3>1
  <2>2. CASE z # x
    <3>1. PICK d, n : d = export[z] /\ n = matched[z]
      OBVIOUS
    <3>2. FetchWork(d, n)'
      BY <3>1, FetchStays DEF ExportInv
    <3>3. d = export'[z] /\ n = matched'[z]
      BY <2>2, <3>1 DEF ExportInv
    <3> QED BY <3>2, <3>3
  <2> QED BY <2>1, <2>2
<1>2. export' = [z \in Exports |-> export'[z]] /\ matched' = [z \in Exports |-> matched'[z]]
  BY DEF ExportInv
<1> QED BY <1>1, <1>2 DEF ExportInv

(* A fetch that begins has nothing behind it.                              *)
LEMMA FetchBegins ==
  ASSUME LogTyped, LogTyped', LogMoves, NEW o, NEW range, NEW attempt, NEW e, NEW m,
         e = Fetching(o, range, attempt), m = Matching(o, range)
  PROVE  FetchWork(e, m)'
<1>1. /\ e.pc = "fetch" /\ e.org = o /\ e.range = range /\ e.page = 1 /\ e.got = {}
      /\ e \in [pc : {e.pc}, org : {e.org}, range : {e.range}, page : {e.page},
                got : {e.got}, attempt : {e.attempt}]
  BY DEF Fetching
<1>2. ASSUME NEW i \in m
      PROVE  /\ i \in Ids /\ i \in Ids' /\ events'[i] = events[i] /\ i \notin saving'
             /\ events[i].org = o /\ InRange(i, range)
  <2>1. i \in index /\ events[i].org = o /\ InRange(i, range)
    BY DEF Matching
  <2>2. i \in Ids /\ i \notin saving
    BY <2>1 DEF LogTyped, Placed
  <2> QED BY <2>1, <2>2 DEF LogMoves, NewIds
<1>3. FetchKnows(e, m)'
  BY <1>1, <1>2 DEF FetchKnows, InRange
<1>4. FetchGets(e, m)'
  <2>1. ASSUME NEW i PROVE Ahead(e, i)'
    <3>2. LaterThan(Matching(o, range), i)' \in Nat
      BY IndexStaysFinite DEF FiniteIndex, LaterThan, Matching
    <3>3. (1 - 1) * PageSize = 0
      BY ExportAssumption
    <3> QED BY <1>1, <3>2, <3>3 DEF Ahead
  <2> QED BY <2>1 DEF FetchGets
<1> QED BY <1>1, <1>3, <1>4 DEF FetchWork

(* Between the fetch and the end nothing more is fetched.                  *)
LEMMA PhaseKeepsFetch ==
  ASSUME LogTyped, LogTyped', LogMoves, IndexAges, ExportInv, NEW x \in Exports, NEW pc,
         export[x].pc \in FetchPcs, export[x].pc # "fetch", Phase(x, pc), UNCHANGED matched
  PROVE  ExportInv'
<1>1. PICK d, e, m : d = export[x] /\ e = [d EXCEPT !.pc = pc] /\ m = matched[x]
  OBVIOUS
<1>2. FetchWork(d, m)
  BY <1>1 DEF ExportInv
<1>3. FetchWork(d, m)'
  BY <1>2, FetchStays
<1>4. /\ e.pc = pc /\ e.org = d.org /\ e.range = d.range /\ e.page = d.page /\ e.got = d.got
      /\ e \in [pc : {e.pc}, org : {e.org}, range : {e.range}, page : {e.page},
                got : {e.got}, attempt : {e.attempt}]
  BY <1>1, <1>2 DEF FetchWork
<1>5. FetchWork(e, m)'
  BY <1>1, <1>3, <1>4 DEF FetchWork, FetchKnows, FetchGets, Ahead
<1>6. export' = [export EXCEPT ![x] = e] /\ matched' = [matched EXCEPT ![x] = m]
  BY <1>1 DEF Phase, ExportInv
<1> QED BY <1>5, <1>6, ExportChanges

(* An export that ends without a file.                                     *)
LEMMA ExportEnds ==
  ASSUME LogTyped, LogTyped', LogMoves, IndexAges, ExportInv, NEW x \in Exports, NEW e,
         e.pc \notin FetchPcs, export' = [export EXCEPT ![x] = e], UNCHANGED matched
  PROVE  ExportInv'
<1>1. FetchWork(e, matched[x])'
  BY DEF FetchWork
<1>2. PICK m : m = matched[x]
  OBVIOUS
<1>3. matched' = [matched EXCEPT ![x] = m]
  BY <1>2 DEF ExportInv
<1>4. FetchWork(e, m)'
  BY DEF FetchWork
<1> QED BY <1>3, <1>4, ExportChanges

LEMMA ThrowKeeps ==
  ASSUME LogTyped, LogTyped', LogMoves, IndexAges, ExportInv, NEW x \in Exports,
         export[x].pc \in FetchPcs, Throw(x)
  PROVE  ExportInv'
<1>1. PICK d : d = export[x]
  OBVIOUS
<1>2. d \in [pc : {d.pc}, org : {d.org}, range : {d.range}, page : {d.page},
             got : {d.got}, attempt : {d.attempt}]
  BY <1>1 DEF ExportInv, FetchWork
<1>3. CASE (Phase(x, "refused") \/ Phase(x, "failed")) /\ UNCHANGED matched
  <2>1. PICK pc \in {"refused", "failed"} : Phase(x, pc)
    BY <1>3
  <2>2. PICK e : e = [d EXCEPT !.pc = pc]
    OBVIOUS
  <2>3. e.pc = pc
    BY <1>2, <2>2
  <2>4. export' = [export EXCEPT ![x] = e] /\ e.pc \notin FetchPcs
    BY <1>1, <2>1, <2>2, <2>3 DEF Phase, FetchPcs
  <2> QED BY <1>3, <2>4, ExportEnds
<1>4. CASE /\ Become(x, Fetching(d.org, d.range, d.attempt + 1))
           /\ matched' = [matched EXCEPT ![x] = Matching(d.org, d.range)]
  <2>1. PICK o, range, attempt : o = d.org /\ range = d.range /\ attempt = d.attempt + 1
    OBVIOUS
  <2>2. PICK e, m : e = Fetching(o, range, attempt) /\ m = Matching(o, range)
    OBVIOUS
  <2>3. export' = [export EXCEPT ![x] = e] /\ matched' = [matched EXCEPT ![x] = m]
    BY <1>4, <2>1, <2>2 DEF Become
  <2>4. FetchWork(e, m)'
    BY <2>2, FetchBegins
  <2> QED BY <2>3, <2>4, ExportChanges
<1> QED BY <1>1, <1>3, <1>4 DEF Throw

(* The pages announced hold all there is.                                  *)
LEMMA PagesSuffice ==
  ASSUME NEW total \in Nat, NEW size \in Nat \ {0}, NEW at \in Nat,
         at >= PageCount(total, size)
  PROVE  total <= at * size
<1>1. PICK q : q = (total + size - 1) \div size
  OBVIOUS
<1>2. PICK n : n = total + size - 1
  OBVIOUS
<1>3. n \in Nat /\ q = n \div size
  BY <1>1, <1>2
<1>4. q \in Int /\ n < (q + 1) * size
  BY <1>3
<1>5. q <= at
  BY <1>1 DEF PageCount
<1>6. (q + 1) * size <= (at + 1) * size
  BY <1>4, <1>5
<1>7. (at + 1) * size = at * size + size
  OBVIOUS
<1>8. at * size \in Int /\ (q + 1) * size \in Int
  BY <1>4
<1> QED BY <1>2, <1>3, <1>4, <1>6, <1>7, <1>8

(* An event alone at its instant is the only row of its place: the page it *)
(* falls on holds it.                                                      *)
LEMMA PageHolds ==
  ASSUME LogTyped, NEW S, S \subseteq index, NEW i \in S, NEW at \in Nat \ {0},
         NEW size \in Nat \ {0}, NEW P \in PagesOf(S, at, size), i \notin P,
         \A j \in S : j # i => events[j].at # events[i].at,
         (at - 1) * size <= LaterThan(S, i)
  PROVE  at * size <= LaterThan(S, i)
<1>1. PICK from : from = (at - 1) * size
  OBVIOUS
<1>2. from \in Int /\ at * size = from + size
  BY <1>1
<1>3. PICK L : L = {j \in S : events[j].at > events[i].at}
  OBVIOUS
<1>4. FiniteIndex
  BY IndexIsFinite
<1>5. IsFiniteSet(L) /\ Cardinality(L) \in Nat
  BY <1>3, <1>4 DEF FiniteIndex
<1>6. {j \in S : events[j].at >= events[i].at} = L \cup {i}
  <2>1. \A j \in S : events[j].at \in Int
    BY DEF LogTyped, Placed, Stamped
  <2> QED BY <1>3, <2>1
<1>7. NotOlder(S, i) = Cardinality(L) + 1
  <2>1. i \notin L
    <3>1. events[i].at \in Int
      BY DEF LogTyped, Placed, Stamped
    <3> QED BY <1>3, <3>1
  <2> QED BY <1>5, <1>6, <2>1, FS_AddElement DEF NotOlder
<1>8. LaterThan(S, i) = Cardinality(L)
  BY <1>3 DEF LaterThan
<1>9. Cardinality({j \in P : events[j].at = events[i].at}) = Share(S, i, from, size)
  BY <1>1 DEF PagesOf
<1>10. Share(S, i, from, size) = 0
  <2>1. {j \in P : events[j].at = events[i].at} = {}
    BY DEF PagesOf
  <2> QED BY <1>9, <2>1, FS_EmptySet
<1>11. Greatest(0, Least(Cardinality(L) + 1, from + size) - Greatest(Cardinality(L), from)) = 0
  BY <1>7, <1>8, <1>10 DEF Share
<1>12. PICK n : n = Cardinality(L)
  OBVIOUS
<1>13. Greatest(0, Least(n + 1, from + size) - Greatest(n, from)) = 0 /\ n \in Nat /\ from <= n
  BY <1>1, <1>5, <1>8, <1>11, <1>12
<1>14. from + size <= n
  BY <1>2, <1>13 DEF Greatest, Least
<1> QED BY <1>2, <1>8, <1>12, <1>14

LEMMA LaterAreFewer ==
  ASSUME LogTyped, NEW S, S \subseteq index, NEW i \in S
  PROVE  LaterThan(S, i) < Cardinality(S)
<1>1. PICK L : L = {j \in S : events[j].at > events[i].at}
  OBVIOUS
<1>2. i \notin L
  <2>1. events[i].at \in Int
    BY DEF LogTyped, Placed, Stamped
  <2> QED BY <1>1, <2>1
<1>3. IsFiniteSet(S)
  BY IndexIsFinite DEF FiniteIndex
<1>4. L \subseteq S /\ L # S
  BY <1>1, <1>2
<1>5. Cardinality(L) < Cardinality(S)
  BY <1>3, <1>4, FS_Subset, FS_CardinalityType
<1> QED BY <1>1, <1>5 DEF LaterThan

LEMMA PageMoves ==
  ASSUME LogTyped, ExportInv, NEW x \in Exports, FetchPage(x)
  PROVE  ExportInv'
<1>1. UNCHANGED logVars /\ UNCHANGED matched
  BY DEF FetchPage
<1>2. LogTyped' /\ LogMoves /\ LogKeeps
  BY <1>1, LogRests
<1>3. PICK d, m : d = export[x] /\ m = matched[x]
  OBVIOUS
<1>4. PICK S : S = Matching(d.org, d.range)
  OBVIOUS
<1>5. PICK P \in PagesOf(S, d.page, PageSize) :
        Become(x, [export[x] EXCEPT
           !.got = @ \cup P, !.page = @ + 1,
           !.pc = IF LastPage(x) THEN AfterFetch(x) ELSE "fetch"])
  BY <1>3, <1>4 DEF FetchPage, Hits
<1>6. PICK pc : pc = IF LastPage(x) THEN AfterFetch(x) ELSE "fetch"
  OBVIOUS
<1>7. PICK e : e = [d EXCEPT !.got = d.got \cup P, !.page = d.page + 1, !.pc = pc]
  OBVIOUS
<1>8. export' = [export EXCEPT ![x] = e]
  BY <1>3, <1>5, <1>6, <1>7 DEF Become
<1>9. d.pc = "fetch"
  BY <1>3 DEF FetchPage, Doing
<1>10. /\ d \in [pc : {d.pc}, org : {d.org}, range : {d.range}, page : {d.page},
                 got : {d.got}, attempt : {d.attempt}]
       /\ d.page \in Nat \ {0} /\ FetchKnows(d, m) /\ FetchGets(d, m)
  BY <1>3, <1>9 DEF ExportInv, FetchWork, FetchPcs
<1>11. /\ e.pc = pc /\ e.org = d.org /\ e.range = d.range /\ e.page = d.page + 1
       /\ e.got = d.got \cup P
       /\ e \in [pc : {e.pc}, org : {e.org}, range : {e.range}, page : {e.page},
                 got : {e.got}, attempt : {e.attempt}]
  BY <1>7, <1>10
<1>12. ASSUME NEW i \in m \cap index, AloneAtItsTime(i), i \notin e.got
       PROVE  Ahead(e, i)
  <2>1. i \notin d.got /\ i \notin P
    BY <1>11, <1>12
  <2>2. (d.page - 1) * PageSize <= LaterThan(S, i)
    BY <1>4, <1>10, <1>12, <2>1 DEF FetchGets, Ahead
  <2>3. i \in S /\ S \subseteq index
    BY <1>4, <1>10, <1>12 DEF FetchKnows, Matching
  <2>4. \A j \in S : j # i => events[j].at # events[i].at
    <3>1. \A j \in S : j \in Ids /\ events[j].org = d.org
      BY <1>4, <2>3 DEF Matching, LogTyped, Placed
    <3> QED BY <1>12, <2>3, <3>1 DEF AloneAtItsTime
  <2>5. PageSize \in Nat \ {0}
    BY ExportAssumption
  <2>6. d.page * PageSize <= LaterThan(S, i)
    BY <1>5, <1>10, <2>1, <2>2, <2>3, <2>4, <2>5, PageHolds
  <2>7. Cardinality(S) \in Nat /\ LaterThan(S, i) \in Nat /\ LaterThan(S, i) < Cardinality(S)
    <3>1. FiniteIndex
      BY IndexIsFinite
    <3>2. Cardinality(S) \in Nat /\ LaterThan(S, i) \in Nat
      BY <2>3, <3>1 DEF FiniteIndex, LaterThan
    <3> QED BY <2>3, <3>2, LaterAreFewer
  <2>8. ~LastPage(x)
    <3>1. CASE LastPage(x)
      <4>1. d.page >= PageCount(Cardinality(S), PageSize)
        BY <1>3, <1>4, <3>1 DEF LastPage, Hits
      <4>2. Cardinality(S) <= d.page * PageSize
        BY <1>10, <2>5, <2>7, <4>1, PagesSuffice
      <4>3. PICK p : p = d.page * PageSize
        OBVIOUS
      <4>4. p \in Int
        BY <1>10, <2>5, <4>3
      <4> QED BY <2>6, <2>7, <4>2, <4>3, <4>4
    <3> QED BY <3>1
  <2>9. (e.page - 1) * PageSize <= LaterThan(S, i)
    <3>1. e.page - 1 = d.page
      BY <1>10, <1>11
    <3> QED BY <2>6, <3>1
  <2>10. e.pc = "fetch"
    BY <1>6, <1>11, <2>8
  <2> QED BY <1>4, <1>11, <2>9, <2>10 DEF Ahead
<1>13. FetchWork(e, m)
  <2>1. FetchKnows(e, m)
    BY <1>10, <1>11 DEF FetchKnows
  <2>2. FetchGets(e, m)
    BY <1>12 DEF FetchGets
  <2>3. e.page \in Nat \ {0}
    BY <1>10, <1>11
  <2> QED BY <1>11, <2>1, <2>2, <2>3 DEF FetchWork
<1>14. IndexAges
  BY <1>2, KeptAges DEF LogKeeps
<1>15. FetchWork(e, m)'
  BY <1>2, <1>13, <1>14, FetchStays
<1>16. matched' = [matched EXCEPT ![x] = m]
  BY <1>1, <1>3 DEF ExportInv
<1> QED BY <1>2, <1>8, <1>14, <1>15, <1>16, ExportChanges

LEMMA RequestMoves ==
  ASSUME LogTyped, ExportInv, NEW x \in Exports, NEW o, NEW range, NEW to,
         Request(x, o, range, to)
  PROVE  LogTyped' /\ LogMoves /\ LogKeeps /\ ExportInv'
<1>1. UNCHANGED logVars /\ export[x].pc = "new"
  BY DEF Request, Doing
<1>2. LogTyped' /\ LogMoves /\ LogKeeps
  BY <1>1, LogRests
<1>3. IndexAges
  BY <1>2, KeptAges DEF LogKeeps
<1>4. ASSUME Phase(x, "refused"), UNCHANGED matched
      PROVE  ExportInv'
  <2>1. PICK d : d = export[x]
    OBVIOUS
  <2>2. PICK e : e = [d EXCEPT !.pc = "refused"]
    OBVIOUS
  <2>3. export' = [export EXCEPT ![x] = e]
    BY <1>4, <2>1, <2>2 DEF Phase
  <2>4. e.pc \notin FetchPcs
    BY <1>1, <2>1, <2>2 DEF FetchPcs
  <2> QED BY <1>2, <1>3, <1>4, <2>3, <2>4, ExportEnds
<1>5. CASE Become(x, Fetching(o, range, 0)) /\ matched' = [matched EXCEPT ![x] = Matching(o, range)]
  <2>1. PICK e, m : e = Fetching(o, range, 0) /\ m = Matching(o, range)
    OBVIOUS
  <2>2. export' = [export EXCEPT ![x] = e] /\ matched' = [matched EXCEPT ![x] = m]
    BY <1>5, <2>1 DEF Become
  <2>3. FetchWork(e, m)'
    BY <1>2, <2>1, FetchBegins
  <2> QED BY <1>2, <1>3, <2>2, <2>3, ExportChanges
<1>6. CASE Enqueue(x, o, range, to) /\ UNCHANGED matched
  <2>1. CASE Become(x, [pc |-> "queued", org |-> o, range |-> range, attempt |-> 1])
    <3>1. PICK e : e = [pc |-> "queued", org |-> o, range |-> range, attempt |-> 1]
      OBVIOUS
    <3>2. export' = [export EXCEPT ![x] = e] /\ e.pc \notin FetchPcs
      BY <2>1, <3>1 DEF Become, FetchPcs
    <3> QED BY <1>2, <1>3, <1>6, <3>2, ExportEnds
  <2>2. CASE Phase(x, "refused")
    BY <1>2, <1>4, <1>6, <2>2
  <2> QED BY <1>6, <2>1, <2>2 DEF Enqueue
<1> QED BY <1>2, <1>4, <1>5, <1>6 DEF Request

LEMMA WorkMoves ==
  ASSUME LogTyped, ExportInv, NEW x \in Exports, WorkOn(x)
  PROVE  LogTyped' /\ LogMoves /\ LogKeeps /\ ExportInv'
<1>1. ASSUME NEW o, NEW says, SaveEvent(o, says) \/ EventIsLost
      PROVE  LogTyped' /\ LogMoves /\ LogKeeps
  <2>1. CASE SaveEvent(o, says)
    BY <2>1, SaveMoves
  <2>2. CASE EventIsLost
    BY <2>2, LogRests DEF EventIsLost
  <2> QED BY <1>1, <2>1, <2>2
<1>2. CASE LogQueued(x)
  <2>1. PICK o, range : o = export[x].org /\ range = export[x].range
    OBVIOUS
  <2>2. PICK e, m : e = Fetching(o, range, 1) /\ m = Matching(o, range)
    OBVIOUS
  <2>3. /\ SaveEvent(o, Nothing) \/ EventIsLost
        /\ export' = [export EXCEPT ![x] = e] /\ matched' = [matched EXCEPT ![x] = m]
    BY <1>2, <2>1, <2>2 DEF LogQueued, Become
  <2>4. LogTyped' /\ LogMoves /\ LogKeeps
    BY <1>1, <2>3
  <2>5. FetchWork(e, m)'
    BY <2>2, <2>4, FetchBegins
  <2>6. IndexAges
    BY <2>4, KeptAges DEF LogKeeps
  <2> QED BY <2>3, <2>4, <2>5, <2>6, ExportChanges
<1>3. CASE FetchPage(x)
  <2>1. UNCHANGED logVars
    BY <1>3 DEF FetchPage
  <2> QED BY <1>3, <2>1, LogRests, PageMoves
<1>4. CASE FetchFails(x) \/ UploadFails(x)
  <2>1. UNCHANGED logVars /\ Throw(x) /\ export[x].pc \in FetchPcs
    BY <1>4 DEF FetchFails, UploadFails, Doing, FetchPcs
  <2>2. LogTyped' /\ LogMoves /\ LogKeeps
    BY <2>1, LogRests
  <2>3. IndexAges
    BY <2>2, KeptAges DEF LogKeeps
  <2> QED BY <2>1, <2>2, <2>3, ThrowKeeps
<1>5. CASE Upload(x) \/ Mail(x)
  <2>1. PICK pc : Phase(x, pc)
    BY <1>5 DEF Upload, Mail
  <2>2. PICK o : o = export[x].org
    OBVIOUS
  <2>3. /\ FileEvent(o) /\ UNCHANGED matched
        /\ export[x].pc \in FetchPcs /\ export[x].pc # "fetch"
    BY <1>5, <2>2 DEF Upload, Mail, SignLink, Doing, FetchPcs
  <2>4. LogTyped' /\ LogMoves /\ LogKeeps
    BY <2>3, FileMoves
  <2>5. IndexAges
    BY <2>4, KeptAges DEF LogKeeps
  <2> QED BY <2>1, <2>3, <2>4, <2>5, PhaseKeepsFetch
<1>6. CASE LogCompleted(x)
  <2>1. export[x].pc \in FetchPcs /\ export[x].pc # "fetch"
    BY <1>6 DEF LogCompleted, Doing, FetchPcs
  <2>2. PICK o : o = export[x].org
    OBVIOUS
  <2>3. CASE SaveEvent(o, Nothing) /\ Phase(x, "completed") /\ UNCHANGED matched
    <3>1. LogTyped' /\ LogMoves /\ LogKeeps
      BY <2>3, SaveMoves
    <3>2. IndexAges
      BY <3>1, KeptAges DEF LogKeeps
    <3> QED BY <2>1, <2>3, <3>1, <3>2, PhaseKeepsFetch
  <2>4. CASE EventIsLost /\ Throw(x)
    <3>1. LogTyped' /\ LogMoves /\ LogKeeps
      BY <2>4, LogRests DEF EventIsLost
    <3>2. IndexAges
      BY <3>1, KeptAges DEF LogKeeps
    <3> QED BY <2>1, <2>4, <3>1, <3>2, ThrowKeeps
  <2> QED BY <1>6, <2>2, <2>3, <2>4 DEF LogCompleted
<1> QED BY <1>2, <1>3, <1>4, <1>5, <1>6 DEF WorkOn

(* Of retention only the deletion from the index takes anything out of it, *)
(* and it takes what is older than a cutoff.                               *)
LEMMA SweepAges ==
  ASSUME LogTyped, RetentionInv, NEW w \in Workers, SweepStep(w)
  PROVE  IndexAges
<1>1. CASE UNCHANGED index
  BY <1>1, KeptAges
<1>2. CASE ArchiveBatch(w)
  <2>1. PICK o : FileEvent(o)
    BY <1>2 DEF ArchiveBatch, UploadArchive
  <2> QED BY <2>1, FileMoves, KeptAges DEF LogKeeps
<1>3. CASE DeleteFromSearch(w)
  <2>1. PICK o, c : o = Run(w).org /\ c = Run(w).cutoff
    OBVIOUS
  <2>a. c \in Int
    <3>1. PICK x : x = sweep[w]
      OBVIOUS
    <3>2. x.run \in 1 .. Len(runs)
      BY <1>3, <3>1, AtWork DEF DeleteFromSearch, At, Working
    <3>3. Past(runs[x.run].cutoff)
      BY <3>2 DEF RetentionInv, RunsTrue
    <3> QED BY <2>1, <3>1, <3>3 DEF Past, Run
  <2>2. CASE index' = {i \in index : ~(events[i].org = o /\ events[i].at < c)}
    <3>1. ASSUME NEW i \in index \cap index', NEW j \in index \ index',
                 events[j].org = events[i].org
          PROVE  events[j].at < events[i].at
      <4>1. events[j].org = o /\ events[j].at < c /\ ~(events[i].at < c)
        BY <2>2, <3>1
      <4>2. events[i].at \in Int /\ events[j].at \in Int
        BY DEF LogTyped, Placed, Stamped
      <4> QED BY <2>a, <4>1, <4>2
    <3> QED BY <3>1 DEF IndexAges
  <2> QED BY <1>1, <1>3, <2>1, <2>2 DEF DeleteFromSearch
<1> QED BY <1>1, <1>2, <1>3 DEF SweepStep, GoOn, StartSweep, EndSweep, PassOver, StartRun,
     EndArchive, DeleteBatch, EndDelete, FailRun, Crash, logVars

-----------------------------------------------------------------------------
AuditInv == LogTyped /\ RetentionInv /\ ExportInv

LEMMA AuditStarts ==
  ASSUME AuditInit
  PROVE  AuditInv
<1>1. PICK R : R = [org : Orgs, at : 0 .. MaxNow, logged : BOOLEAN, says : {Nothing}]
  OBVIOUS
<1>2. LogInit(Seq(R)) /\ events \in Seq(R)
  BY <1>1 DEF AuditInit, LogInit
<1>3. \A i \in Ids : events[i].at \in 0 .. MaxNow
  <2>1. \A i \in Ids : events[i] \in R
    BY <1>2, ElementOfSeq DEF Ids
  <2> QED BY <1>1, <2>1
<1>4. LogTyped
  <2>1. EventsListed
    BY <1>2 DEF EventsListed
  <2>2. Stamped
    BY <1>2, <1>3 DEF LogInit, Stamped
  <2>3. Placed
    BY <1>2 DEF LogInit, Placed
  <2> QED BY <2>1, <2>2, <2>3 DEF LogTyped
<1>5. RetentionInv
  <2>1. RetentionInit
    BY DEF AuditInit
  <2>2. RunsTrue
    <3>1. runs = <<>>
      BY <2>1 DEF RetentionInit
    <3>2. runs \in Seq({})
      BY <3>1
    <3>3. Len(runs) = 0
      BY <3>1
    <3> QED BY <3>2, <3>3 DEF RunsTrue
  <2>3. ReportsTrue
    BY <2>1 DEF RetentionInit, ReportsTrue
  <2>4. SweepsTrue
    <3>1. sweep = [w \in Workers |-> Resting]
      BY <2>1 DEF RetentionInit
    <3>2. PICK y : y = Resting
      OBVIOUS
    <3>3. SweepWork(y)
      BY <3>2, RestingWork DEF Resting
    <3> QED BY <3>1, <3>2, <3>3 DEF SweepsTrue
  <2>5. AdminsTrue
    <3>1. admin = [r \in Admins |-> Resting] /\ policy \in [Orgs -> SavedBefore]
      BY <2>1 DEF RetentionInit
    <3>2. policy \in [Orgs -> Policies \cup {Nothing}]
      BY <3>1, RetentionAssumption
    <3>3. PICK y : y = Resting
      OBVIOUS
    <3>4. AdminWork(y)
      BY <3>3 DEF AdminWork, Resting
    <3> QED BY <3>1, <3>2, <3>3, <3>4 DEF AdminsTrue
  <2>6. PoliciesShown
    BY <2>1 DEF RetentionInit, PoliciesShown
  <2>7. NothingVanishes
    BY <1>2 DEF LogInit, NothingVanishes
  <2> QED BY <2>2, <2>3, <2>4, <2>5, <2>6, <2>7 DEF RetentionInv
<1>6. ExportInv
  <2>1. export = [x \in Exports |-> [pc |-> "new"]] /\ matched = [x \in Exports |-> {}]
    BY DEF AuditInit, ExportInit
  <2>2. PICK e : e = [pc |-> "new"]
    OBVIOUS
  <2>3. FetchWork(e, {})
    BY <2>2 DEF FetchWork, FetchPcs
  <2> QED BY <2>1, <2>2, <2>3 DEF ExportInv
<1> QED BY <1>4, <1>5, <1>6 DEF AuditInv

LEMMA AuditStep ==
  ASSUME AuditInv, AuditNext
  PROVE  AuditInv'
<1>1. LogTyped /\ RetentionInv /\ ExportInv
  BY DEF AuditInv
<1>2. ASSUME LogTyped', LogMoves, LogKeeps, UNCHANGED retentionVars
      PROVE  RetentionInv'
  BY <1>1, <1>2, RetentionStays
<1>3. ASSUME LogTyped', LogMoves, IndexAges, UNCHANGED exportVars
      PROVE  ExportInv'
  BY <1>1, <1>3, ExportsStay
<1>4. LogKeeps => IndexAges
  BY KeptAges DEF LogKeeps
<1>5. CASE /\ Tick \/ (\E o \in Orgs : Happen(o)) \/ (\E i \in saving : Index(i))
           /\ UNCHANGED <<retentionVars, exportVars>>
  <2>1. LogTyped' /\ LogMoves /\ LogKeeps
    <3>1. CASE Tick
      <4>1. now \in Int
        BY <1>1 DEF LogTyped, Stamped
      <4>2. UNCHANGED <<events, store, saving, index>> /\ now' \in Int /\ now <= now'
        BY <3>1, <4>1 DEF Tick
      <4> QED BY <1>1, <4>2, LogStands
    <3>2. CASE \E o \in Orgs : Happen(o)
      <4>1. PICK o \in Orgs : SaveEvent(o, Nothing)
        BY <3>2 DEF Happen
      <4> QED BY <1>1, <4>1, SaveMoves
    <3>3. CASE \E i \in saving : Index(i)
      BY <1>1, <3>3, IndexMoves
    <3> QED BY <1>5, <3>1, <3>2, <3>3
  <2> QED BY <1>2, <1>3, <1>4, <1>5, <2>1 DEF AuditInv
<1>6. CASE (\E r \in Admins : AdminStep(r)) /\ UNCHANGED exportVars
  <2>1. LogTyped' /\ LogMoves /\ LogKeeps /\ RetentionInv'
    BY <1>1, <1>6, AdminMoves
  <2> QED BY <1>3, <1>4, <1>6, <2>1 DEF AuditInv
<1>7. CASE (\E w \in Workers : SweepStep(w)) /\ UNCHANGED exportVars
  <2>1. LogTyped' /\ LogMoves /\ RetentionInv' /\ IndexAges
    BY <1>1, <1>7, SweepMoves, SweepAges
  <2> QED BY <1>3, <1>7, <2>1 DEF AuditInv
<1>8. CASE ExportNext /\ UNCHANGED retentionVars
  <2>1. LogTyped' /\ LogMoves /\ LogKeeps /\ ExportInv'
    BY <1>1, <1>8, RequestMoves, WorkMoves DEF ExportNext
  <2> QED BY <1>2, <1>8, <2>1 DEF AuditInv
<1> QED BY <1>5, <1>6, <1>7, <1>8 DEF AuditNext

LEMMA AuditHolds == AuditSpec => []AuditInv
<1>1. AuditInit => AuditInv
  BY AuditStarts
<1>2. AuditInv /\ [AuditNext]_auditVars => AuditInv'
  <2> SUFFICES ASSUME AuditInv, [AuditNext]_auditVars PROVE AuditInv'
    OBVIOUS
  <2>1. CASE AuditNext
    BY <2>1, AuditStep
  <2>2. CASE UNCHANGED auditVars
    <3>1. UNCHANGED logVars /\ UNCHANGED retentionVars /\ UNCHANGED exportVars
      BY <2>2 DEF auditVars
    <3>2. LogTyped /\ RetentionInv /\ ExportInv
      BY DEF AuditInv
    <3>3. LogTyped' /\ LogMoves /\ LogKeeps
      BY <3>1, <3>2, LogRests
    <3>4. IndexAges
      BY <3>3, KeptAges DEF LogKeeps
    <3> QED BY <3>1, <3>2, <3>3, <3>4, RetentionStays, ExportsStay DEF AuditInv
  <2> QED BY <2>1, <2>2
<1> QED BY <1>1, <1>2, PTL DEF AuditSpec

(* What a completed sweep or a compliant report claims stays true, and an  *)
(* event that was logged is in the collection, in the archive, or deleted  *)
(* by a sweep that was not asked to archive: for all spans and batch sizes *)
(* and however sweeps, reports, changes of policy and exports overlap.     *)
THEOREM RetentionKeepsItsWord == AuditSpec => []RetentionHolds
<1>1. AuditInv => RetentionHolds
  <2> SUFFICES ASSUME AuditInv PROVE RetentionHolds
    OBVIOUS
  <2>1. RunsTrue /\ ReportsTrue /\ NothingVanishes
    BY DEF AuditInv, RetentionInv
  <2>2. DOMAIN runs = 1 .. Len(runs)
    BY <2>1 DEF RunsTrue
  <2>3. ClaimsHold
    BY <2>1, <2>2 DEF RunsTrue, ReportsTrue, Gone, ClaimsHold
  <2> QED BY <2>1, <2>3 DEF RetentionHolds
<1> QED BY <1>1, AuditHolds, PTL

(* The policy in force has its entry in the audit log whenever no change   *)
(* of it is between its write and its log, unless that log failed.         *)
THEOREM PolicyChangesAreLogged == AuditSpec => []PolicyIsLogged
<1>1. AuditInv => PolicyIsLogged
  <2> SUFFICES ASSUME AuditInv, NEW o \in Orgs, policy[o] # Nothing, o \notin unlogged,
                      \A r \in Admins : admin[r].pc \in {"reread", "log"} => admin[r].org # o
               PROVE  \E i \in Ids : events[i].org = o /\ events[i].says = policy[o]
    BY DEF PolicyIsLogged
  <2>1. ~\E r \in Admins : WillShow(admin[r], o, policy[o])
    BY DEF WillShow
  <2>2. PoliciesShown
    BY DEF AuditInv, RetentionInv
  <2>3. IsLogged(o, policy[o])
    BY <2>1, <2>2 DEF PoliciesShown
  <2> QED BY <2>3 DEF IsLogged
<1> QED BY <1>1, AuditHolds, PTL

(* An export has every event that matched when its fetch began, is still   *)
(* indexed and shares its instant with no other event of its organization, *)
(* for all page sizes, whatever was logged and deleted between its pages.  *)
THEOREM ExportsMissNothing == AuditSpec => []ExportMissesNothing
<1>1. AuditInv => ExportMissesNothing
  <2> SUFFICES ASSUME AuditInv, NEW x \in Exports, Fetched(x),
                      NEW i \in matched[x] \cap index, AloneAtItsTime(i)
               PROVE  i \in export[x].got
    BY DEF ExportMissesNothing
  <2>1. PICK e, m : e = export[x] /\ m = matched[x]
    OBVIOUS
  <2>2. e.pc \in FetchPcs /\ e.pc # "fetch"
    BY <2>1 DEF Fetched, FetchPcs
  <2>3. FetchGets(e, m)
    BY <2>1, <2>2 DEF AuditInv, ExportInv, FetchWork
  <2> QED BY <2>1, <2>2, <2>3 DEF FetchGets, Ahead
<1> QED BY <1>1, AuditHolds, PTL
-----------------------------------------------------------------------------
(* The settings pages.  What a form may lose and what it may overwrite     *)
(* depends on where its load and its save are: a page that loads shows no  *)
(* form, so that nothing is entered but beside its own save.               *)

BothPages == <<pageVars, formVars>>

FormsSpec ==
  /\ PagesInit /\ FormInit
  /\ [][\/ PagesNext /\ UNCHANGED formVars
        \/ FormNext /\ UNCHANGED pageVars]_BothPages

(* A page that saved and was not written to since shows what is stored.    *)
Agrees(form, doc, of) ==
  /\ form.flag = doc.flag
  /\ of \in {"groups", "retention", "mfa"} => form.detail = doc.detail
  /\ of = "mapping" /\ form.detail # Empty => form.detail = doc.detail

PageShape(p) ==
  p \in [form : {p.form}, loading : {p.loading}, saving : {p.saving}, touched : {p.touched},
         late : {p.late}, lost : {p.lost}, loaded : {p.loaded}, failed : {p.failed},
         saved : {p.saved}]

PageIsHonest(p, doc, of) ==
  /\ p.lost = {}
  /\ p.loading \/ p.saving = "stored" => p.touched \subseteq p.late
  /\ ~p.loading => p.loaded \/ p.failed
  /\ p.loading => p.saving = "no"
  /\ p.saved => Agrees(p.form, doc, of)

PagesInv ==
  /\ page = [a \in Editors |-> page[a]] /\ kind \in Kinds
  /\ \A a \in Editors : PageShape(page[a]) /\ PageIsHonest(page[a], stored, kind)
  /\ ~wiped

(* A step on one page that leaves the document alone.                      *)
LEMMA EditorMoves ==
  ASSUME PagesInv, NEW a \in Editors, NEW q, page' = [page EXCEPT ![a] = q],
         PageShape(q), PageIsHonest(q, stored, kind), UNCHANGED <<kind, stored, wiped>>
  PROVE  PagesInv'
<1>1. page' = [b \in Editors |-> page'[b]] /\ kind' \in Kinds /\ ~wiped'
  BY DEF PagesInv
<1>2. \A b \in Editors : PageShape(page'[b]) /\ PageIsHonest(page'[b], stored', kind')
  BY DEF PagesInv
<1> QED BY <1>1, <1>2 DEF PagesInv

LEMMA EditKeeps ==
  ASSUME PagesInv, NEW a \in Editors, NEW f, NEW v, Edit(a, f, v)
  PROVE  PagesInv'
<1>1. PICK p : p = page[a]
  OBVIOUS
<1>2. PageShape(p) /\ PageIsHonest(p, stored, kind) /\ ~p.loading
  BY <1>1 DEF PagesInv, Edit, Shown
<1>3. PICK q : q = [p EXCEPT !.form[f] = v, !.touched = @ \cup {f},
                             !.late = IF p.saving # "no" THEN @ \cup {f} ELSE @, !.saved = FALSE]
  OBVIOUS
<1>4. page' = [page EXCEPT ![a] = q]
  BY <1>1, <1>3 DEF Edit
<1>5. /\ q.loading = p.loading /\ q.saving = p.saving /\ q.touched = p.touched \cup {f}
      /\ q.late = (IF p.saving # "no" THEN p.late \cup {f} ELSE p.late)
      /\ q.lost = p.lost /\ q.loaded = p.loaded /\ q.failed = p.failed /\ q.saved = FALSE
      /\ PageShape(q)
  BY <1>2, <1>3 DEF PageShape
<1>6. PageIsHonest(q, stored, kind)
  BY <1>2, <1>5 DEF PageIsHonest
<1>7. UNCHANGED <<kind, stored, wiped>>
  BY DEF Edit
<1> QED BY <1>4, <1>5, <1>6, <1>7, EditorMoves

LEMMA LoadsKeep ==
  ASSUME PagesInv, NEW a \in Editors,
         LoadAnswers(a) \/ LoadFails(a) \/ SaveRefused(a) \/ SaveAnswers(a) \/ AnswerLost(a)
  PROVE  PagesInv'
<1>1. PICK p : p = page[a]
  OBVIOUS
<1>2. PageShape(p) /\ PageIsHonest(p, stored, kind)
  BY <1>1 DEF PagesInv
<1>3. UNCHANGED <<kind, stored, wiped>>
  BY DEF LoadAnswers, LoadFails, SaveRefused, SaveAnswers, AnswerLost
<1>4. CASE LoadAnswers(a)
  <2>1. PICK q : q = [p EXCEPT !.form = stored, !.loading = FALSE, !.loaded = TRUE,
                               !.lost = p.touched \ p.late, !.touched = {}, !.late = {}]
    OBVIOUS
  <2>2. page' = [page EXCEPT ![a] = q] /\ p.loading
    BY <1>1, <1>4, <2>1 DEF LoadAnswers
  <2>3. /\ q.form = stored /\ q.loading = FALSE /\ q.loaded = TRUE /\ q.touched = {}
        /\ q.late = {} /\ q.lost = p.touched \ p.late
        /\ PageShape(q)
    BY <1>2, <2>1 DEF PageShape
  <2>4. q.lost = {}
    BY <1>2, <2>2, <2>3 DEF PageIsHonest
  <2>5. PageIsHonest(q, stored, kind)
    BY <2>3, <2>4 DEF PageIsHonest, Agrees
  <2> QED BY <1>3, <2>2, <2>3, <2>5, EditorMoves
<1>5. CASE LoadFails(a)
  <2>1. PICK q : q = [p EXCEPT !.loading = FALSE, !.failed = TRUE]
    OBVIOUS
  <2>2. page' = [page EXCEPT ![a] = q] /\ p.loading
    BY <1>1, <1>5, <2>1 DEF LoadFails
  <2>3. /\ q.form = p.form /\ q.loading = FALSE /\ q.failed = TRUE /\ q.touched = p.touched
        /\ q.late = p.late /\ q.lost = p.lost /\ q.saved = p.saved /\ q.saving = p.saving /\ PageShape(q)
    BY <1>2, <2>1 DEF PageShape
  <2>4. PageIsHonest(q, stored, kind)
    BY <1>2, <2>2, <2>3 DEF PageIsHonest
  <2> QED BY <1>3, <2>2, <2>3, <2>4, EditorMoves
<1>6. CASE SaveRefused(a)
  <2>1. PICK q : q = [p EXCEPT !.saving = "refused", !.saved = FALSE]
    OBVIOUS
  <2>2. page' = [page EXCEPT ![a] = q] /\ ~p.loading
    BY <1>1, <1>6, <2>1 DEF SaveRefused, Shown
  <2>3. /\ q.loading = p.loading /\ q.saving = "refused" /\ q.lost = p.lost /\ q.saved = FALSE
        /\ q.loaded = p.loaded /\ q.failed = p.failed /\ PageShape(q)
    BY <1>2, <2>1 DEF PageShape
  <2>4. PageIsHonest(q, stored, kind)
    BY <1>2, <2>2, <2>3 DEF PageIsHonest
  <2> QED BY <1>3, <2>2, <2>3, <2>4, EditorMoves
<1>7. CASE SaveAnswers(a)
  <2>1. PICK q : q = [p EXCEPT !.saving = "no", !.loading = (p.saving = "stored" /\ Reloads)]
    OBVIOUS
  <2>2. page' = [page EXCEPT ![a] = q] /\ p.saving # "no"
    BY <1>1, <1>7, <2>1 DEF SaveAnswers
  <2>3. /\ q.form = p.form /\ q.saving = "no" /\ q.loading = (p.saving = "stored" /\ Reloads)
        /\ q.touched = p.touched /\ q.late = p.late /\ q.lost = p.lost /\ q.saved = p.saved
        /\ q.loaded = p.loaded /\ q.failed = p.failed /\ PageShape(q)
    BY <1>2, <2>1 DEF PageShape
  <2>4. PageIsHonest(q, stored, kind)
    BY <1>2, <2>2, <2>3 DEF PageIsHonest
  <2> QED BY <1>3, <2>2, <2>3, <2>4, EditorMoves
<1>8. CASE AnswerLost(a)
  <2>1. PICK q : q = [p EXCEPT !.saving = "no", !.saved = FALSE]
    OBVIOUS
  <2>2. page' = [page EXCEPT ![a] = q]
    BY <1>1, <1>8, <2>1 DEF AnswerLost
  <2>3. /\ q.loading = p.loading /\ q.saving = "no" /\ q.touched = p.touched /\ q.late = p.late
        /\ q.lost = p.lost /\ q.saved = FALSE /\ q.loaded = p.loaded /\ q.failed = p.failed
        /\ PageShape(q)
    BY <1>2, <2>1 DEF PageShape
  <2>4. PageIsHonest(q, stored, kind)
    BY <1>2, <2>3 DEF PageIsHonest
  <2> QED BY <1>3, <2>2, <2>3, <2>4, EditorMoves
<1> QED BY <1>4, <1>5, <1>6, <1>7, <1>8

(* A save that reaches the server: its own page agrees with what it sent,  *)
(* all others have to be saved again.                                      *)
LEMMA SaveKeeps ==
  ASSUME PagesInv, NEW a \in Editors, Save(a)
  PROVE  PagesInv'
<1>1. PICK p : p = page[a]
  OBVIOUS
<1>2. /\ PageShape(p) /\ PageIsHonest(p, stored, kind) /\ ~p.loading /\ kind \in Kinds
  BY <1>1 DEF PagesInv, Save, Shown
<1>3. PICK q : q = [p EXCEPT !.saving = "stored", !.saved = TRUE, !.touched = {}, !.late = {}]
  OBVIOUS
<1>4. /\ page' = [b \in Editors |-> IF b = a THEN q ELSE [page[b] EXCEPT !.saved = FALSE]]
      /\ UNCHANGED kind
  BY <1>1, <1>3 DEF Save
<1>5. /\ q.form = p.form /\ q.loading = p.loading /\ q.saving = "stored" /\ q.saved = TRUE
      /\ q.touched = {} /\ q.late = {} /\ q.lost = p.lost /\ q.loaded = p.loaded
      /\ q.failed = p.failed /\ PageShape(q)
  BY <1>2, <1>3 DEF PageShape
<1>6. stored' = [f \in Fields |-> IF f \in Sends(p.form) THEN p.form[f] ELSE stored[f]]
  BY <1>1 DEF Save
<1>7. Agrees(p.form, stored', kind)
  <2>1. "flag" \in Sends(p.form)
    BY <1>2 DEF Sends, GroupMappingSends, SsoMappingSends, RetentionSends, MfaPolicySends,
               SsoEnforcementSends, Fields, Kinds
  <2>2. kind \in {"groups", "retention", "mfa"} => "detail" \in Sends(p.form)
    BY DEF Sends, GroupMappingSends, RetentionSends, MfaPolicySends, Fields
  <2>3. kind = "mapping" /\ p.form.detail # Empty => "detail" \in Sends(p.form)
    BY DEF Sends, SsoMappingSends, Fields
  <2>4. /\ "flag" \in Sends(p.form) => stored'.flag = p.form.flag
        /\ "detail" \in Sends(p.form) => stored'.detail = p.form.detail
    BY <1>6 DEF Fields
  <2> QED BY <2>1, <2>2, <2>3, <2>4 DEF Agrees
<1>8. PageIsHonest(q, stored', kind)
  BY <1>2, <1>5, <1>7 DEF PageIsHonest
<1>9. ~wiped'
  BY <1>1, <1>2 DEF Save, PagesInv, PageIsHonest
<1>10. ASSUME NEW b \in Editors
       PROVE  PageShape(page'[b]) /\ PageIsHonest(page'[b], stored', kind)
  <2>1. CASE b = a
    BY <1>4, <1>5, <1>8, <2>1
  <2>2. CASE b # a
    <3>1. PICK x, y : x = page[b] /\ y = [x EXCEPT !.saved = FALSE]
      OBVIOUS
    <3>2. page'[b] = y /\ PageShape(x) /\ PageIsHonest(x, stored, kind)
      BY <1>4, <2>2, <3>1 DEF PagesInv
    <3>3. /\ y.form = x.form /\ y.loading = x.loading /\ y.saving = x.saving /\ y.saved = FALSE
          /\ y.touched = x.touched /\ y.late = x.late /\ y.lost = x.lost
          /\ y.loaded = x.loaded /\ y.failed = x.failed /\ PageShape(y)
      BY <3>1, <3>2 DEF PageShape
    <3>4. PageIsHonest(y, stored', kind)
      BY <3>2, <3>3 DEF PageIsHonest
    <3> QED BY <3>2, <3>3, <3>4
  <2> QED BY <2>1, <2>2
<1>11. page' = [b \in Editors |-> page'[b]]
  BY <1>4
<1> QED BY <1>2, <1>4, <1>9, <1>10, <1>11 DEF PagesInv

-----------------------------------------------------------------------------
(* The login form.  A question that was asked by itself is about the       *)
(* address in the field until that changes, and the button is disabled     *)
(* until it is answered, so that no login can answer in between.           *)

Alone == ~timer /\ ~crossed

FormInv ==
  Alone =>
    /\ \A request \in asked : request[2] = email
    /\ \A request, other \in asked : request = other
    /\ asked # {} => loading /\ login = Fragment
    /\ login # Fragment => login = email
    /\ asked = {} /\ sso # NoNotice => sso.about = email /\ (sso.enforce => email \in Enforced)

LEMMA FormKeeps ==
  ASSUME FormInv, FormNext
  PROVE  FormInv'
<1>1. ASSUME NEW text, Type(text) PROVE FormInv'
  BY <1>1 DEF Type, FormInv, Alone
<1>2. CASE AskOptions
  <2> SUFFICES ASSUME ~crossed' PROVE FormInv'
    BY DEF FormInv, Alone
  <2>1. asked = {} /\ login = Fragment /\ UNCHANGED <<email, login>>
    BY <1>2 DEF AskOptions
  <2>2. CASE email = Fragment
    BY <1>2, <2>1, <2>2 DEF AskOptions, FormInv
  <2>3. CASE email # Fragment
    <3>1. asked' = {<<typed, email>>} /\ loading' = TRUE
      BY <1>2, <2>1, <2>3 DEF AskOptions
    <3>2. \A request \in asked' : request = <<typed, email>> /\ request[2] = email
      BY <3>1
    <3>3. /\ asked' # {} /\ login' = Fragment /\ email' = email /\ loading' = TRUE
          /\ \A request, other \in asked' : request = other
      BY <2>1, <3>1
    <3> QED BY <3>2, <3>3 DEF FormInv
  <2> QED BY <2>2, <2>3
<1>3. CASE OptionsAnswered
  <2>1. PICK request \in asked :
          /\ asked' = asked \ {request}
          /\ sso' = Options(request[2]) \/ sso' = NoNotice
          /\ UNCHANGED <<email, timer, login, crossed>>
    BY <1>3 DEF OptionsAnswered
  <2>2. Options(request[2]).about = request[2]
        /\ (Options(request[2]).enforce => request[2] \in Enforced)
    BY DEF Options
  <2> QED BY <2>1, <2>2 DEF FormInv, Alone
<1>4. CASE SubmitPassword
  BY <1>4 DEF SubmitPassword, FormInv, Alone
<1>5. CASE PasswordAnswered
  <2>1. UNCHANGED <<email, timer, asked, loading, crossed>> /\ login' = Fragment /\ login # Fragment
    BY <1>5 DEF PasswordAnswered
  <2>2. CASE UNCHANGED sso
    BY <2>1, <2>2 DEF FormInv, Alone
  <2>3. CASE SsoRequired(login) /\ sso' = [about |-> login, enforce |-> TRUE]
    <3>1. sso'.about = login /\ login \in Enforced
      BY <2>3 DEF SsoRequired
    <3> QED BY <2>1, <3>1 DEF FormInv, Alone
  <2> QED BY <1>5, <2>2, <2>3 DEF PasswordAnswered
<1> QED BY <1>1, <1>2, <1>3, <1>4, <1>5 DEF FormNext

LEMMA PagesBegin ==
  ASSUME PagesInit, FormInit
  PROVE  PagesInv /\ FormInv
<1>1. PICK p : p = Opening
  OBVIOUS
<1>2. /\ p.loading = TRUE /\ p.saving = "no" /\ p.touched = {} /\ p.late = {} /\ p.lost = {}
      /\ p.saved = FALSE /\ PageShape(p)
  BY <1>1 DEF Opening, PageShape
<1>3. PageIsHonest(p, stored, kind)
  BY <1>2 DEF PageIsHonest
<1>4. page = [a \in Editors |-> p] /\ kind \in Kinds /\ ~wiped
  BY <1>1 DEF PagesInit
<1>5. PagesInv
  BY <1>2, <1>3, <1>4 DEF PagesInv
<1>6. FormInv
  BY DEF FormInit, FormInv, Alone
<1> QED BY <1>5, <1>6

(* Whatever several administrators enter, load and save on a page, and     *)
(* whichever requests fail: nothing entered is replaced by a late load,    *)
(* defaults are saved only after a failed load, and a page that saved      *)
(* shows what is stored.  The notice of the login page is about the        *)
(* address in the field once nothing is under way.                         *)
THEOREM FormsTellTheTruth == FormsSpec => []PagesAreHonest
<1>1. PagesInit /\ FormInit => PagesInv /\ FormInv
  BY PagesBegin
<1>2. PagesInv /\ FormInv /\ [\/ PagesNext /\ UNCHANGED formVars
                              \/ FormNext /\ UNCHANGED pageVars]_BothPages
      => PagesInv' /\ FormInv'
  <2> SUFFICES ASSUME PagesInv, FormInv,
                      [\/ PagesNext /\ UNCHANGED formVars
                       \/ FormNext /\ UNCHANGED pageVars]_BothPages
               PROVE  PagesInv' /\ FormInv'
    OBVIOUS
  <2>1. UNCHANGED pageVars => PagesInv'
    BY DEF pageVars, PagesInv
  <2>2. UNCHANGED formVars => FormInv'
    BY DEF formVars, FormInv, Alone
  <2>3. PagesNext => PagesInv'
    BY EditKeeps, LoadsKeep, SaveKeeps DEF PagesNext
  <2>4. FormNext => FormInv'
    BY FormKeeps
  <2> QED BY <2>1, <2>2, <2>3, <2>4 DEF BothPages
<1>3. PagesInv /\ FormInv => PagesAreHonest
  <2> SUFFICES ASSUME PagesInv, FormInv PROVE PagesAreHonest
    OBVIOUS
  <2>1. EditsSurvive /\ DefaultsNeedAFailure
    BY DEF PagesInv, PageIsHonest, EditsSurvive, DefaultsNeedAFailure
  <2>2. SavedFormIsStored
    BY DEF PagesInv, PageIsHonest, Agrees, SavedFormIsStored
  <2>3. LoginFormIsTrue
    BY DEF FormInv, Alone, LoginFormIsTrue, NoticeIsCurrent, PasswordIsOffered, Settled,
           PasswordBlocked
  <2> QED BY <2>1, <2>2, <2>3 DEF PagesAreHonest, FormsAreHonest
<1> QED BY <1>1, <1>2, <1>3, PTL DEF FormsSpec

-----------------------------------------------------------------------------
(* Lists read page by page.  A row that is still to be seen has at least   *)
(* as many newer ones as rows lie before the page that is read: rows       *)
(* recorded meanwhile only push it further back.                           *)

LEMMA DisjointSum ==
  ASSUME NEW A, NEW B, IsFiniteSet(A), IsFiniteSet(B), A \cap B = {}
  PROVE  /\ IsFiniteSet(A \cup B)
         /\ Cardinality(A \cup B) = Cardinality(A) + Cardinality(B)
<1>1. /\ IsFiniteSet(A \cup B)
      /\ Cardinality(A \cup B) = Cardinality(A) + Cardinality(B) - Cardinality({})
  BY FS_Union
<1> QED BY <1>1, FS_EmptySet, FS_CardinalityType

LEMMA LimitIsPositive == Limit = RowsPerPage /\ Limit \in Nat /\ Limit >= 1
BY PageAssumption DEF Limit

(* A row that the page does not show lies behind it, if it does not lie    *)
(* before it, and then the page is full.                                   *)
LEMMA PageIsNext ==
  ASSUME NEW rows \in SUBSET Rows, NEW shown \in SUBSET rows, NEW offset \in Nat,
         IsPage(rows, shown, offset), NEW r \in rows, r \notin shown,
         \A s \in Rows \ {r} : CreatedAt[s] # CreatedAt[r],
         Cardinality(Newer(rows, r)) >= offset
  PROVE  /\ Cardinality(Newer(rows, r)) >= offset + Cardinality(shown)
         /\ Cardinality(shown) = Limit
<1>1. PICK skipped \in SUBSET (rows \ shown) :
        /\ Cardinality(skipped) =
             (IF Cardinality(rows) - offset < 0 THEN Cardinality(rows) ELSE offset)
        /\ Before(rows, skipped) = {}
        /\ Before(rows \ skipped, shown) = {}
  BY DEF IsPage
<1>2. \A s \in Rows : CreatedAt[s] \in Int
  BY PageAssumption
<1>3. IsFiniteSet(rows) /\ IsFiniteSet(shown) /\ IsFiniteSet(skipped) /\ Newer(rows, r) \in SUBSET rows
      /\ IsFiniteSet(Newer(rows, r))
  <2>1. IsFiniteSet(rows)
    BY PageAssumption, FS_Subset
  <2>2. Newer(rows, r) \in SUBSET rows
    BY DEF Newer
  <2> QED BY <2>1, <2>2, FS_Subset
<1>4. /\ Cardinality(rows) \in Nat /\ Cardinality(shown) \in Nat /\ Cardinality(skipped) \in Nat
      /\ Cardinality(Newer(rows, r)) \in Nat
  BY <1>3, FS_CardinalityType
<1>5. Cardinality(Newer(rows, r)) <= Cardinality(rows) - 1
  <2>1. Newer(rows, r) \in SUBSET (rows \ {r})
    BY <1>2 DEF Newer
  <2>2. IsFiniteSet(rows \ {r}) /\ Cardinality(rows \ {r}) = Cardinality(rows) - 1
    BY <1>3, FS_RemoveElement
  <2> QED BY <2>1, <2>2, FS_Subset
<1>6. r \notin skipped
  <2> SUFFICES ASSUME r \in skipped PROVE FALSE
    OBVIOUS
  <2>1. Newer(rows, r) \in SUBSET (skipped \ {r})
    <3> SUFFICES ASSUME NEW s \in rows, CreatedAt[s] > CreatedAt[r] PROVE s \in skipped \ {r}
      BY DEF Newer
    <3>1. s \notin rows \ skipped
      BY <1>1 DEF Before
    <3> QED BY <1>2, <3>1
  <2>2. IsFiniteSet(skipped \ {r}) /\ Cardinality(skipped \ {r}) = Cardinality(skipped) - 1
    BY <1>3, FS_RemoveElement
  <2>3. Cardinality(Newer(rows, r)) <= Cardinality(skipped) - 1
    BY <2>1, <2>2, FS_Subset
  <2>4. Cardinality(skipped) <= offset
    BY <1>1, <1>4
  <2> QED BY <1>4, <2>3, <2>4
<1>7. skipped \cup shown \in SUBSET Newer(rows, r)
  <2>1. ASSUME NEW q \in skipped PROVE q \in Newer(rows, r)
    <3>1. ~(CreatedAt[r] > CreatedAt[q])
      BY <1>1, <1>6 DEF Before
    <3>2. q \in Rows \ {r} /\ q \in rows
      BY <1>6
    <3> QED BY <1>2, <3>1, <3>2 DEF Newer
  <2>2. ASSUME NEW q \in shown PROVE q \in Newer(rows, r)
    <3>1. ~(CreatedAt[r] > CreatedAt[q])
      BY <1>1, <1>6 DEF Before
    <3>2. q \in Rows \ {r} /\ q \in rows
      OBVIOUS
    <3> QED BY <1>2, <3>1, <3>2 DEF Newer
  <2> QED BY <2>1, <2>2
<1>8. Cardinality(skipped) + Cardinality(shown) <= Cardinality(Newer(rows, r))
  <2>1. skipped \cap shown = {}
    OBVIOUS
  <2>2. Cardinality(skipped \cup shown) = Cardinality(skipped) + Cardinality(shown)
    BY <1>3, <2>1, DisjointSum
  <2>3. Cardinality(skipped \cup shown) <= Cardinality(Newer(rows, r))
    BY <1>3, <1>7, FS_Subset
  <2> QED BY <2>2, <2>3
<1>9. ~(Cardinality(rows) - offset < 0)
  BY <1>4, <1>5
<1>10. Cardinality(skipped) = offset
  BY <1>1, <1>9
<1>11. Cardinality(shown) = Limit
  <2>1. Cardinality(shown) = IF Cardinality(rows) - offset < Limit THEN Cardinality(rows) - offset
                             ELSE Limit
    BY <1>9 DEF IsPage
  <2> QED BY <1>4, <1>5, <1>8, <1>10, <2>1, LimitIsPositive
<1> QED BY <1>8, <1>10, <1>11

(* A row that the walk has not shown, and that nothing excuses it to miss. *)
Pending(r) ==
  /\ r \in walk.from \ walk.seen
  /\ \A s \in Rows \ {r} : CreatedAt[s] # CreatedAt[r]
  /\ \A s \in removed \ walk.gone : CreatedAt[s] < CreatedAt[r]

Rank(r) == Cardinality(Newer(recorded, r))

ReadingTyped ==
  /\ reading \in {"no", "sent", "counted", "found", "read"} /\ listing \in {"transactions", "users"}
  /\ filters \in Nat /\ counted \in Nat /\ found \in SUBSET Rows
  /\ data = [rows |-> data.rows, more |-> data.more, offset |-> data.offset]
  /\ data.rows \in SUBSET Rows /\ data.more \in BOOLEAN /\ data.offset \in Nat

WalkTyped ==
  /\ recorded \in SUBSET Rows /\ removed \in SUBSET Rows /\ recorded \cap removed = {}
  /\ walk = [from |-> walk.from, seen |-> walk.seen, gone |-> walk.gone, raced |-> walk.raced]
  /\ walk.gone \subseteq removed /\ walk.raced \in BOOLEAN
  /\ walk.from \subseteq recorded \cup (removed \ walk.gone)

(* A count that nothing raced is that of the rows.                         *)
CountIsTrue == reading = "counted" /\ ~walk.raced => counted = Cardinality(recorded)

(* Such a row lies behind what is read, and then there is a next page.     *)
LiesAhead(r) ==
  /\ Rank(r) >= filters
  /\ reading \in {"found", "read"} =>
       Rank(r) >= filters + Cardinality(found) /\ Cardinality(found) = Limit
  /\ reading = "read" /\ ~walk.raced => filters + Cardinality(found) < counted
  /\ reading = "no" =>
       /\ Rank(r) >= filters + Cardinality(data.rows)
       /\ data.more => Cardinality(data.rows) = Limit
       /\ data # NoData /\ ~walk.raced => data.more

WalkInv ==
  /\ ReadingTyped /\ WalkTyped /\ CountIsTrue
  /\ \A r \in Rows : Pending(r) => LiesAhead(r)

LEMMA PendingIsThere ==
  ASSUME WalkTyped, NEW r, Pending(r)
  PROVE  r \in recorded /\ r \in Rows
BY PageAssumption DEF WalkTyped, Pending

LEMMA Counting ==
  ASSUME NEW S \in SUBSET Rows
  PROVE  IsFiniteSet(S) /\ Cardinality(S) \in Nat
BY PageAssumption, FS_Subset, FS_CardinalityType

LEMMA RanksAreNumbers ==
  ASSUME WalkTyped, NEW r \in recorded
  PROVE  Rank(r) \in Nat /\ Rank(r) < Cardinality(recorded) /\ Cardinality(recorded) \in Nat
<1>1. Newer(recorded, r) \in SUBSET Rows /\ recorded \in SUBSET Rows
  BY DEF Newer, WalkTyped
<1>2. CreatedAt[r] \in Int
  BY PageAssumption DEF WalkTyped
<1>3. Newer(recorded, r) \in SUBSET (recorded \ {r})
  BY <1>2 DEF Newer
<1>4. /\ IsFiniteSet(recorded) /\ Cardinality(recorded) \in Nat
      /\ Cardinality(Newer(recorded, r)) \in Nat
  BY <1>1, Counting
<1>5. IsFiniteSet(recorded \ {r}) /\ Cardinality(recorded \ {r}) = Cardinality(recorded) - 1
  BY <1>4, FS_RemoveElement
<1>6. Cardinality(Newer(recorded, r)) <= Cardinality(recorded) - 1
  BY <1>3, <1>5, FS_Subset
<1> QED BY <1>4, <1>6 DEF Rank

(* Rows come, or older ones go.                                            *)
LEMMA RowsMove ==
  ASSUME WalkInv, NEW q \in Rows, Record(q) \/ RemoveRow(q)
  PROVE  WalkInv'
<1>1. /\ UNCHANGED <<listing, filters, reading, counted, found, data>>
      /\ walk' = [walk EXCEPT !.raced = @ \/ reading = "counted"]
  BY DEF Record, RemoveRow
<1>2. /\ walk'.from = walk.from /\ walk'.seen = walk.seen /\ walk'.gone = walk.gone
      /\ walk'.raced = (walk.raced \/ reading = "counted")
      /\ walk' = [from |-> walk'.from, seen |-> walk'.seen, gone |-> walk'.gone,
                  raced |-> walk'.raced]
  BY <1>1 DEF WalkInv, WalkTyped
<1>3. \/ recorded' = recorded \cup {q} /\ removed' = removed /\ q \notin removed
      \/ recorded' = recorded \ {q} /\ removed' = removed \cup {q} /\ q \in recorded
  BY DEF Record, RemoveRow
<1>4. WalkTyped'
  BY <1>2, <1>3 DEF WalkInv, WalkTyped
<1>5. ReadingTyped'
  BY <1>1 DEF WalkInv, ReadingTyped
<1>6. CountIsTrue'
  BY <1>1, <1>2 DEF WalkInv, CountIsTrue
<1>7. ASSUME NEW r \in Rows, Pending(r)' PROVE LiesAhead(r)'
  <2>1. Pending(r)
    BY <1>2, <1>3, <1>7 DEF Pending
  <2>2. r \in recorded /\ r \in recorded'
    <3>1. CreatedAt[r] \in Int
      BY PageAssumption
    <3>2. r \in walk'.from /\ r \notin removed' \ walk'.gone
      BY <1>7, <3>1 DEF Pending
    <3> QED BY <1>4, <2>1, <3>2, PendingIsThere DEF WalkInv, WalkTyped
  <2>3. Newer(recorded, r) \in SUBSET Newer(recorded', r)
    <3>1. CASE recorded' = recorded \cup {q}
      BY <3>1 DEF Newer
    <3>2. CASE recorded' = recorded \ {q} /\ removed' = removed \cup {q} /\ q \in recorded
      <4>1. q \notin walk'.gone
        BY <1>2, <3>2 DEF WalkInv, WalkTyped
      <4>2. CreatedAt[q] < CreatedAt[r]
        BY <1>7, <3>2, <4>1 DEF Pending
      <4>3. CreatedAt[q] \in Int /\ CreatedAt[r] \in Int
        BY PageAssumption
      <4> QED BY <3>2, <4>2, <4>3 DEF Newer
    <3> QED BY <1>3, <3>1, <3>2
  <2>4. Rank(r) <= Rank(r)' /\ Rank(r) \in Nat /\ Rank(r)' \in Nat
    <3>1. Newer(recorded', r) \in SUBSET Rows /\ Newer(recorded, r) \in SUBSET Rows
      BY <1>4 DEF Newer, WalkInv, WalkTyped
    <3>2. IsFiniteSet(Newer(recorded', r)) /\ Cardinality(Newer(recorded', r)) \in Nat
          /\ Cardinality(Newer(recorded, r)) \in Nat
      BY <3>1, Counting
    <3> QED BY <2>3, <3>2, FS_Subset DEF Rank
  <2>5. LiesAhead(r)
    BY <2>1 DEF WalkInv
  <2>6. /\ filters \in Nat /\ Cardinality(found) \in Nat /\ Cardinality(data.rows) \in Nat
    BY Counting DEF WalkInv, ReadingTyped
  <2>7. PICK m \in Nat, n \in Nat : m = Rank(r) /\ n = Rank(r)' /\ m <= n
    BY <2>4
  <2>8. /\ n >= filters
        /\ reading \in {"found", "read"} =>
             n >= filters + Cardinality(found) /\ Cardinality(found) = Limit
        /\ reading = "read" /\ ~walk.raced => filters + Cardinality(found) < counted
        /\ reading = "no" =>
             /\ n >= filters + Cardinality(data.rows)
             /\ data.more => Cardinality(data.rows) = Limit
             /\ data # NoData /\ ~walk.raced => data.more
    BY <2>5, <2>6, <2>7 DEF LiesAhead
  <2> QED BY <1>1, <1>2, <2>7, <2>8 DEF LiesAhead
<1> QED BY <1>4, <1>5, <1>6, <1>7 DEF WalkInv

LEMMA CountKeeps ==
  ASSUME WalkInv, Count
  PROVE  WalkInv'
<1>1. /\ UNCHANGED <<listing, recorded, removed, filters, found, data, walk>>
      /\ counted' = Cardinality(recorded)
      /\ reading' = IF reading = "sent" THEN "counted" ELSE "read"
      /\ reading \in {"sent", "found"}
  BY DEF Count
<1>2. Cardinality(recorded) \in Nat
  BY Counting DEF WalkInv, WalkTyped
<1>3. ReadingTyped' /\ WalkTyped' /\ CountIsTrue'
  BY <1>1, <1>2 DEF WalkInv, ReadingTyped, WalkTyped, CountIsTrue
<1>4. ASSUME NEW r \in Rows, Pending(r)' PROVE LiesAhead(r)'
  <2>1. Pending(r) /\ LiesAhead(r)
    BY <1>1, <1>4 DEF Pending, WalkInv
  <2>2. r \in recorded
    BY <2>1, PendingIsThere DEF WalkInv
  <2>3. PICK n \in Nat : n = Rank(r) /\ n < Cardinality(recorded)
    BY <2>2, RanksAreNumbers DEF WalkInv
  <2>4. Rank(r)' = n
    BY <1>1, <2>3 DEF Rank
  <2>5. filters \in Nat /\ Cardinality(found) \in Nat
    BY Counting DEF WalkInv, ReadingTyped
  <2>6. /\ n >= filters
        /\ reading = "found" =>
             /\ n >= filters + Cardinality(found) /\ Cardinality(found) = Limit
             /\ filters + Cardinality(found) < Cardinality(recorded)
    BY <1>2, <2>1, <2>3, <2>5 DEF LiesAhead
  <2> QED BY <1>1, <2>4, <2>6 DEF LiesAhead
<1> QED BY <1>3, <1>4 DEF WalkInv

LEMMA FindKeeps ==
  ASSUME WalkInv, NEW shown \in SUBSET recorded, Find(shown)
  PROVE  WalkInv'
<1>1. /\ UNCHANGED <<listing, recorded, removed, filters, counted, data>>
      /\ found' = shown /\ IsPage(recorded, shown, filters)
      /\ reading' = IF reading = "sent" THEN "found" ELSE "read"
      /\ reading \in {"sent", "counted"}
      /\ walk' = [walk EXCEPT !.seen = @ \cup shown]
  BY DEF Find
<1>2. /\ walk'.from = walk.from /\ walk'.seen = walk.seen \cup shown /\ walk'.gone = walk.gone
      /\ walk'.raced = walk.raced
      /\ walk' = [from |-> walk'.from, seen |-> walk'.seen, gone |-> walk'.gone,
                  raced |-> walk'.raced]
  BY <1>1 DEF WalkInv, WalkTyped
<1>3. WalkTyped'
  BY <1>1, <1>2 DEF WalkInv, WalkTyped
<1>4. ReadingTyped' /\ CountIsTrue'
  BY <1>1 DEF WalkInv, ReadingTyped, WalkTyped, CountIsTrue
<1>5. ASSUME NEW r \in Rows, Pending(r)' PROVE LiesAhead(r)'
  <2>1. Pending(r) /\ LiesAhead(r) /\ r \notin shown
    BY <1>1, <1>2, <1>5 DEF Pending, WalkInv
  <2>2. r \in recorded
    BY <2>1, PendingIsThere DEF WalkInv
  <2>3. PICK n \in Nat : n = Rank(r) /\ n < Cardinality(recorded)
    BY <2>2, RanksAreNumbers DEF WalkInv
  <2>4. Rank(r)' = n
    BY <1>1, <2>3 DEF Rank
  <2>5. recorded \in SUBSET Rows /\ filters \in Nat /\ Cardinality(recorded) \in Nat
        /\ Cardinality(shown) \in Nat
    BY Counting DEF WalkInv, ReadingTyped, WalkTyped
  <2>6. \A s \in Rows \ {r} : CreatedAt[s] # CreatedAt[r]
    BY <2>1 DEF Pending
  <2>7. Cardinality(Newer(recorded, r)) >= filters
    BY <2>1 DEF LiesAhead, Rank
  <2>8. n >= filters + Cardinality(shown) /\ Cardinality(shown) = Limit
    BY <1>1, <2>1, <2>2, <2>3, <2>5, <2>6, <2>7, PageIsNext DEF Rank
  <2>9. n >= filters
    BY <2>3, <2>7 DEF Rank
  <2>10. reading = "counted" /\ ~walk.raced => filters + Cardinality(shown) < counted
    BY <2>3, <2>5, <2>8 DEF WalkInv, CountIsTrue
  <2> QED BY <1>1, <1>2, <2>4, <2>8, <2>9, <2>10 DEF LiesAhead
<1> QED BY <1>3, <1>4, <1>5 DEF WalkInv

(* The answer arrives, or there is none.                                   *)
LEMMA AnswersKeep ==
  ASSUME WalkInv, Answer \/ PageFails
  PROVE  WalkInv'
<1>1. /\ UNCHANGED <<listing, recorded, removed, filters, walk>>
      /\ counted' = 0 /\ found' = {} /\ reading' = "no"
  BY DEF Answer, PageFails
<1>2. PICK d : /\ d \in [rows : SUBSET Rows, more : BOOLEAN, offset : Nat] /\ data' = d
               /\ \/ d = NoData
                  \/ /\ d.rows = found /\ d.more = (filters + Cardinality(found) < counted)
                     /\ reading = "read"
  <2>1. CASE Answer
    <3>1. data' = [rows |-> found, more |-> filters + Cardinality(found) < counted,
                   offset |-> filters]
      BY <2>1 DEF Answer, UsersMore, HasMore
    <3>2. found \in SUBSET Rows /\ filters \in Nat
      BY DEF WalkInv, ReadingTyped
    <3>3. PICK d : d = data'
      OBVIOUS
    <3>4. d.rows = found /\ d.more = (filters + Cardinality(found) < counted)
      BY <3>1, <3>3
    <3>5. d \in [rows : SUBSET Rows, more : BOOLEAN, offset : Nat]
      BY <3>1, <3>2, <3>3
    <3>6. reading = "read"
      BY <2>1 DEF Answer
    <3> QED BY <3>3, <3>4, <3>5, <3>6
  <2>2. CASE PageFails
    BY <2>2 DEF PageFails, NoData
  <2> QED BY <2>1, <2>2
<1>3. ReadingTyped' /\ WalkTyped' /\ CountIsTrue'
  <2>1. d = [rows |-> d.rows, more |-> d.more, offset |-> d.offset]
    BY <1>2
  <2> QED BY <1>1, <1>2, <2>1 DEF WalkInv, ReadingTyped, WalkTyped, CountIsTrue
<1>4. ASSUME NEW r \in Rows, Pending(r)' PROVE LiesAhead(r)'
  <2>1. Pending(r) /\ LiesAhead(r)
    BY <1>1, <1>4 DEF Pending, WalkInv
  <2>2. r \in recorded
    BY <2>1, PendingIsThere DEF WalkInv
  <2>3. PICK n \in Nat : n = Rank(r)
    BY <2>2, RanksAreNumbers DEF WalkInv
  <2>4. Rank(r)' = n
    BY <1>1, <2>3 DEF Rank
  <2>5. n >= filters /\ filters \in Nat
    BY <2>1, <2>3 DEF LiesAhead, WalkInv, ReadingTyped
  <2>6. /\ n >= filters + Cardinality(d.rows)
        /\ d.more => Cardinality(d.rows) = Limit
        /\ d # NoData /\ ~walk.raced => d.more
    <3>1. CASE d = NoData
      <4>1. d.rows = {} /\ d.more = FALSE /\ Cardinality({}) = 0
        BY <3>1, FS_EmptySet DEF NoData
      <4> QED BY <2>5, <3>1, <4>1
    <3>2. CASE d # NoData
      BY <1>2, <2>1, <2>3, <3>2 DEF LiesAhead
    <3> QED BY <3>1, <3>2
  <2> QED BY <1>1, <1>2, <2>4, <2>5, <2>6 DEF LiesAhead
<1> QED BY <1>3, <1>4 DEF WalkInv

(* A page is asked for, which is not behind what the walk has reached.     *)
LEMMA LoadsGoOn ==
  ASSUME WalkInv, NEW offset \in Nat, LoadPage(offset), reading = "no",
         offset # 0 => \A r \in Rows : Pending(r) => Rank(r) >= offset
  PROVE  WalkInv'
<1>1. /\ UNCHANGED <<listing, recorded, removed, counted, found, data>>
      /\ filters' = offset /\ reading' = "sent"
      /\ walk' = IF offset = 0 THEN Walk(recorded) ELSE walk
  BY DEF LoadPage
<1>2. ReadingTyped' /\ CountIsTrue'
  BY <1>1 DEF WalkInv, ReadingTyped, CountIsTrue
<1>3. CASE offset = 0
  <2>1. walk' = [from |-> recorded, seen |-> {}, gone |-> removed, raced |-> FALSE]
    BY <1>1, <1>3 DEF Walk
  <2>2. WalkTyped'
    <3>1. /\ walk'.from = recorded /\ walk'.seen = {} /\ walk'.gone = removed
          /\ walk'.raced = FALSE
          /\ walk' = [from |-> walk'.from, seen |-> walk'.seen, gone |-> walk'.gone,
                      raced |-> walk'.raced]
      BY <2>1
    <3>2. recorded \in SUBSET Rows /\ removed \in SUBSET Rows
      BY DEF WalkInv, WalkTyped
    <3> QED BY <1>1, <3>1, <3>2 DEF WalkInv, WalkTyped
  <2>3. ASSUME NEW r \in Rows, Pending(r)' PROVE LiesAhead(r)'
    <3>1. r \in recorded
      BY <2>1, <2>3 DEF Pending
    <3>2. Rank(r)' = Rank(r) /\ Rank(r) \in Nat
      BY <1>1, <3>1, RanksAreNumbers DEF Rank, WalkInv
    <3> QED BY <1>1, <1>3, <3>2 DEF LiesAhead
  <2> QED BY <1>2, <2>2, <2>3 DEF WalkInv
<1>4. CASE offset # 0
  <2>1. UNCHANGED walk
    BY <1>1, <1>4
  <2>2. WalkTyped'
    BY <1>1, <2>1 DEF WalkInv, WalkTyped
  <2>3. ASSUME NEW r \in Rows, Pending(r)' PROVE LiesAhead(r)'
    <3>1. Pending(r)
      BY <1>1, <2>1, <2>3 DEF Pending
    <3>2. Rank(r)' = Rank(r) /\ Rank(r) >= offset
      BY <1>1, <1>4, <3>1 DEF Rank
    <3> QED BY <1>1, <3>2 DEF LiesAhead
  <2> QED BY <1>2, <2>2, <2>3 DEF WalkInv
<1> QED BY <1>3, <1>4

LEMMA ButtonsKeep ==
  ASSUME WalkInv, NextPage \/ PreviousPage \/ Refresh
  PROVE  WalkInv'
<1>1. filters \in Nat /\ RowsPerPage \in Nat /\ Cardinality(data.rows) \in Nat /\ reading = "no"
  BY PageAssumption, Counting DEF WalkInv, ReadingTyped, NextPage, PreviousPage, Refresh
<1>2. \A r \in Rows : Pending(r) =>
        /\ Rank(r) \in Nat /\ Rank(r) >= filters
        /\ Rank(r) >= filters + Cardinality(data.rows)
        /\ data.more => Cardinality(data.rows) = RowsPerPage
  BY <1>1, PendingIsThere, RanksAreNumbers, LimitIsPositive DEF WalkInv, LiesAhead
<1>3. CASE NextPage
  <2>1. PICK offset \in Nat :
          /\ offset = filters + IF listing = "users" THEN Cardinality(data.rows) ELSE RowsPerPage
          /\ LoadPage(offset)
    BY <1>1, <1>3 DEF NextPage
  <2>2. \A r \in Rows : Pending(r) => Rank(r) >= offset
    BY <1>1, <1>2, <1>3, <2>1 DEF NextPage
  <2> QED BY <1>1, <2>1, <2>2, LoadsGoOn
<1>4. CASE PreviousPage
  <2>1. PICK offset \in Nat : offset <= filters /\ LoadPage(offset)
    <3>1. (IF filters < RowsPerPage THEN 0 ELSE filters - RowsPerPage) \in 0..filters
      BY <1>1
    <3> QED BY <1>1, <1>4, <3>1 DEF PreviousPage
  <2>2. \A r \in Rows : Pending(r) => Rank(r) >= offset
    BY <1>1, <1>2, <2>1
  <2> QED BY <1>1, <2>1, <2>2, LoadsGoOn
<1>5. CASE Refresh
  <2>1. LoadPage(filters)
    BY <1>5 DEF Refresh
  <2> QED BY <1>1, <1>2, <2>1, LoadsGoOn
<1> QED BY <1>3, <1>4, <1>5

LEMMA WalkBegins ==
  ASSUME StatementsInit
  PROVE  WalkInv
<1>1. /\ walk = [from |-> recorded, seen |-> {}, gone |-> {}, raced |-> FALSE]
      /\ data = [rows |-> {}, more |-> FALSE, offset |-> 0]
      /\ reading = "sent" /\ filters = 0 /\ counted = 0 /\ found = {} /\ removed = {}
      /\ recorded \in SUBSET Rows /\ listing \in {"transactions", "users"}
  BY DEF StatementsInit, Walk, NoData
<1>2. ReadingTyped /\ WalkTyped /\ CountIsTrue
  BY <1>1 DEF ReadingTyped, WalkTyped, CountIsTrue
<1>3. ASSUME NEW r \in Rows, Pending(r) PROVE LiesAhead(r)
  <2>1. r \in recorded
    BY <1>2, <1>3, PendingIsThere
  <2>2. Rank(r) \in Nat
    BY <1>2, <2>1, RanksAreNumbers
  <2> QED BY <1>1, <2>2 DEF LiesAhead
<1> QED BY <1>2, <1>3 DEF WalkInv

LEMMA WalkSteps ==
  ASSUME WalkInv, [StatementsNext]_statementVars
  PROVE  WalkInv'
<1>1. CASE UNCHANGED statementVars
  <2>1. UNCHANGED <<listing, recorded, removed, filters, reading, counted, found, data, walk>>
    BY <1>1 DEF statementVars
  <2>2. ReadingTyped' /\ WalkTyped' /\ CountIsTrue'
    BY <2>1 DEF WalkInv, ReadingTyped, WalkTyped, CountIsTrue
  <2>3. ASSUME NEW r \in Rows, Pending(r)' PROVE LiesAhead(r)'
    <3>1. LiesAhead(r)
      BY <2>1, <2>3 DEF Pending, WalkInv
    <3> QED BY <2>1, <3>1 DEF LiesAhead, Rank
  <2> QED BY <2>2, <2>3 DEF WalkInv
<1> QED BY <1>1, RowsMove, CountKeeps, FindKeeps, AnswersKeep, ButtonsKeep DEF StatementsNext

(* For any rows, times, page sizes and removals: a walk that has come to   *)
(* its last page has shown every row that was there at its start, but for  *)
(* equal times, removals of newer rows, and a count that was raced.        *)
THEOREM WalksMissNothing == StatementsSpec => []WalkSeesAll
<1>1. StatementsInit => WalkInv
  BY WalkBegins
<1>2. WalkInv /\ [StatementsNext]_statementVars => WalkInv'
  BY WalkSteps
<1>3. WalkInv => WalkSeesAll
  <2> SUFFICES ASSUME WalkInv, reading = "no", data # NoData, ~data.more, ~walk.raced,
                      NEW r \in walk.from \ walk.seen,
                      \A s \in Rows \ {r} : CreatedAt[s] # CreatedAt[r],
                      \A s \in removed \ walk.gone : ~(CreatedAt[s] >= CreatedAt[r])
               PROVE  FALSE
    BY DEF WalkSeesAll
  <2>1. r \in Rows /\ removed \in SUBSET Rows
    BY DEF WalkInv, WalkTyped
  <2>2. \A s \in Rows : CreatedAt[s] \in Int
    BY PageAssumption
  <2>3. Pending(r)
    BY <2>1, <2>2 DEF Pending
  <2> QED BY <2>1, <2>3 DEF WalkInv, LiesAhead
<1> QED BY <1>1, <1>2, <1>3, PTL DEF StatementsSpec

=============================================================================
