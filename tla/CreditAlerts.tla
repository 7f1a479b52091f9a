---------------------------- MODULE CreditAlerts ----------------------------
(***************************************************************************)
(* Low-balance alerts.  Every consumption starts a check that nobody       *)
(* awaits: it reads the balance, the settings and the levels alerted so    *)
(* far, sends at most one alert, and then stores the levels it had read    *)
(* with the new one.  Checks of one organization overlap, settings change  *)
(* under them, and the mail of an alert is a queue job with a fixed id.    *)
(***************************************************************************)
EXTENDS Integers, FiniteSets, FiniteSetsExt

CONSTANTS
  Checks,            \* checks that may run at the same time
  Percents,          \* what may remain of the allocation, in percent
  ThresholdSets,     \* threshold settings an administrator may store
  MaxChanges         \* bound on consumptions, purchases and settings

VARIABLES
  percent,           \* what remains
  settings,          \* [thresholds, enabled]
  sent,              \* sent_levels of the stored alert state
  check,             \* [Checks -> what the check has read]
  mail,              \* [Levels -> the queue job with the id of the level]
  alerts,            \* [Levels -> alerts sent since sent was last cleared]
  queued,            \* levels with an alert whose job the queue took, since then
  overlapped,        \* two checks have run at the same time since then
  changes

alertVars == <<percent, settings, sent, check, mail, alerts, queued, overlapped, changes>>

Levels == {"warning", "critical", "urgent"}
ResetBuffer == 5

DefaultThresholds ==
  {[percent |-> 25, level |-> "warning"], [percent |-> 10, level |-> "critical"],
   [percent |-> 5, level |-> "urgent"]}

Idle == [at |-> "idle", percent |-> 0, thresholds |-> {}, sent |-> {}, matched |-> "none"]

AlertsInit ==
  /\ percent = 100
  /\ settings = [thresholds |-> DefaultThresholds, enabled |-> TRUE]
  /\ sent = {} /\ check = [c \in Checks |-> Idle]
  /\ mail = [l \in Levels |-> "none"] /\ alerts = [l \in Levels |-> 0]
  /\ queued = {} /\ overlapped = FALSE /\ changes = 0

-----------------------------------------------------------------------------
(* What happens around the checks.                                         *)
Change == changes < MaxChanges /\ changes' = changes + 1

Running == {c \in Checks : check[c].at # "idle"}

(* consumeCredits fires the check without awaiting it.                     *)
Consume(c, p) ==
  /\ Change /\ p <= percent /\ check[c] = Idle
  /\ percent' = p
  /\ check' = [check EXCEPT ![c].at = "balance"]
  /\ overlapped' = (overlapped \/ Running # {})
  /\ UNCHANGED <<settings, sent, mail, alerts, queued>>

(* Credits are bought or granted; no check follows.                        *)
Grant(p) ==
  /\ Change /\ p > percent
  /\ percent' = p
  /\ UNCHANGED <<settings, sent, check, mail, alerts, queued, overlapped>>

(* The thresholds that are read back: none stored means the defaults.      *)
Stored(thresholds) == IF thresholds = {} THEN DefaultThresholds ELSE thresholds

UpdateThresholds(thresholds) ==
  /\ Change /\ settings' = [settings EXCEPT !.thresholds = Stored(thresholds)]
  /\ UNCHANGED <<percent, sent, check, mail, alerts, queued, overlapped>>

UpdatePreferences(enabled) ==
  /\ Change /\ settings' = [settings EXCEPT !.enabled = enabled]
  /\ UNCHANGED <<percent, sent, check, mail, alerts, queued, overlapped>>

-----------------------------------------------------------------------------
(* checkAndAlert, one step for each read or write it awaits.               *)
GetBalanceSnapshot(c) ==
  /\ check[c].at = "balance"
  /\ check' = [check EXCEPT ![c].at = "settings", ![c].percent = percent]
  /\ UNCHANGED <<percent, settings, sent, mail, alerts, queued, overlapped, changes>>

Ends(c) == check' = [check EXCEPT ![c] = Idle]

GetThresholds(c) ==
  /\ check[c].at = "settings"
  /\ check' = [check EXCEPT ![c].at = "preferences", ![c].thresholds = settings.thresholds]
  /\ UNCHANGED <<percent, settings, sent, mail, alerts, queued, overlapped, changes>>

GetPreferences(c) ==
  /\ check[c].at = "preferences"
  /\ IF settings.enabled THEN check' = [check EXCEPT ![c].at = "state"] ELSE Ends(c)
  /\ UNCHANGED <<percent, settings, sent, mail, alerts, queued, overlapped, changes>>

Recovered(k) == k.percent > Max({t.percent : t \in k.thresholds}) + ResetBuffer

(* resolveMostSevereThreshold: the lowest threshold crossed.               *)
Crossed(k) == {t \in k.thresholds : k.percent <= t.percent}
MostSevere(k) == {t \in Crossed(k) : \A u \in Crossed(k) : t.percent <= u.percent}

GetAlertState(c) ==
  /\ check[c].at = "state"
  /\ LET k == check[c] IN
     \/ /\ Recovered(k)
        /\ IF sent # {} THEN check' = [check EXCEPT ![c] = [Idle EXCEPT !.at = "clear"]] ELSE Ends(c)
     \/ /\ ~Recovered(k) /\ Crossed(k) = {} /\ Ends(c)
     \/ \E t \in MostSevere(k) :
          /\ ~Recovered(k)
          /\ IF t.level \in sent THEN Ends(c)
             ELSE check' = [check EXCEPT ![c] =
                    [Idle EXCEPT !.at = "send", !.sent = sent, !.matched = t.level]]
  /\ UNCHANGED <<percent, settings, sent, mail, alerts, queued, overlapped, changes>>

(* saveAlertState with no levels.                                          *)
ClearState(c) ==
  /\ check[c].at = "clear" /\ Ends(c)
  /\ sent' = {} /\ alerts' = [l \in Levels |-> 0] /\ queued' = {}
  /\ overlapped' = (Running # {c})
  /\ UNCHANGED <<percent, settings, mail, changes>>

(* The levels whose mail has failed for good: the job stays under its id.  *)
Silenced == {l \in Levels : mail[l] = "failed"}

(* sendAlert: the event is published and the job added.  The queue ignores
   a job whose id it knows: one that is waiting will be mailed, one that
   has failed will not.                                                    *)
SendAlert(c) ==
  LET l == check[c].matched IN
  /\ check[c].at = "send"
  /\ alerts' = [alerts EXCEPT ![l] = @ + 1]
  /\ mail' = [mail EXCEPT ![l] = IF @ = "none" THEN "waiting" ELSE @]
  /\ queued' = IF l \in Silenced THEN queued ELSE queued \cup {l}
  /\ check' = [check EXCEPT ![c].at = "save"]
  /\ UNCHANGED <<percent, settings, sent, overlapped, changes>>

(* Mutant: the error is caught where it is thrown.                         *)
SendFails_Caught(c) ==
  /\ check[c].at = "send" /\ check' = [check EXCEPT ![c].at = "save"]
  /\ UNCHANGED <<percent, settings, sent, mail, alerts, queued, overlapped, changes>>

(* Publishing throws, or adding does after the event has been published:
   the check is logged as failed and a later one alerts again.             *)
SendFails(c) ==
  /\ check[c].at = "send" /\ Ends(c)
  /\ UNCHANGED <<percent, settings, sent, mail, alerts, queued, overlapped, changes>>

(* Mutant: the levels are stored as they were read.                        *)
Levels_AsRead(k) == k.sent

(* The levels the check stores: those it had read, and its own.            *)
SentLevels(k) == k.sent \cup {k.matched}

SaveState(c) ==
  /\ check[c].at = "save" /\ Ends(c)
  /\ sent' = SentLevels(check[c])
  /\ UNCHANGED <<percent, settings, mail, alerts, queued, overlapped, changes>>

(* Storing throws.                                                         *)
SaveFails(c) ==
  /\ check[c].at = "save" /\ Ends(c) /\ overlapped' = TRUE
  /\ UNCHANGED <<percent, settings, sent, mail, alerts, queued, changes>>

CheckStep(c) ==
  \/ GetBalanceSnapshot(c) \/ GetThresholds(c) \/ GetPreferences(c) \/ GetAlertState(c) \/ ClearState(c)
  \/ SendAlert(c) \/ SendFails(c) \/ SaveState(c) \/ SaveFails(c)

-----------------------------------------------------------------------------
(* The job completes, and is removed, also when SendGrid refused the mail;
   a job that has thrown three times stays as failed.                      *)
ProcessNotificationJob(l) ==
  /\ mail[l] = "waiting"
  /\ mail' = [mail EXCEPT ![l] = "none"]
  /\ UNCHANGED <<percent, settings, sent, check, alerts, queued, overlapped, changes>>

JobFails(l) ==
  /\ mail[l] = "waiting"
  /\ mail' = [mail EXCEPT ![l] = "failed"]
  /\ UNCHANGED <<percent, settings, sent, check, alerts, queued, overlapped, changes>>

AlertsNext ==
  \/ \E c \in Checks : CheckStep(c) \/ \E p \in Percents : Consume(c, p)
  \/ \E p \in Percents : Grant(p)
  \/ \E thresholds \in ThresholdSets : UpdateThresholds(thresholds)
  \/ \E enabled \in BOOLEAN : UpdatePreferences(enabled)
  \/ \E l \in Levels : ProcessNotificationJob(l) \/ JobFails(l)

AlertsSpec == AlertsInit /\ [][AlertsNext]_alertVars

-----------------------------------------------------------------------------
(* Between two recoveries of the balance an organization is mailed once    *)
(* for a level, however often it is crossed and whatever the settings      *)
(* become, unless two checks overlapped: each then stores only the levels  *)
(* it had read (credit-alert.service.ts:68, 92), or storing failed.        *)
RepeatsNeedOverlap == ~overlapped => \A l \in Levels : alerts[l] <= 1

(* A level is stored as alerted only if the queue took its alert, or a job *)
(* that has failed for good holds its id: then the alert is ignored, and   *)
(* the level is stored as if it had been mailed.                           *)
SentWasQueued == ~overlapped => sent \subseteq queued \cup Silenced

(* One alert for a level and recovery: not two, and none only for a level  *)
(* whose mail has failed for good.                                         *)
LevelsAreAlertedOnce == RepeatsNeedOverlap /\ SentWasQueued

=============================================================================
