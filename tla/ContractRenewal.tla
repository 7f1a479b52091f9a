-------------------------- MODULE ContractRenewal --------------------------
(***************************************************************************)
(* ContractRenewalService: the daily scan that reminds of, renews and, when *)
(* renewing keeps failing, terminates contracts.  A scan works from the    *)
(* documents its queries returned, writes contract and organization in     *)
(* separate awaits, and may throw or die at each of them.  Scans overlap:  *)
(* the job is registered to run at once whenever a replica starts, BullMQ  *)
(* retries it, and a worker runs several jobs at a time.                   *)
(*                                                                         *)
(* Time is counted in the calendar days of daysUntilDate.  Each contract   *)
(* has an organization of its own, known by the contract.                  *)
(***************************************************************************)
EXTENDS Integers, FiniteSets, Functions

CONSTANTS
  Contracts, Scans,
  FirstEnd,       \* end_date of every contract at first
  Period,         \* days added by a renewal
  Window,         \* RENEWAL_WINDOW_DAYS
  ReminderDays,   \* RENEWAL_REMINDER_DAYS
  MaxAttempts,    \* RENEWAL_MAX_ATTEMPTS
  Grace,          \* RENEWAL_GRACE_PERIOD_DAYS
  MaxDay,         \* bound: the last day
  MaxFaults       \* bound: calls that throw and processes that die

ASSUME DaysAssumption ==
  /\ {FirstEnd, Period, Window, Grace} \subseteq Nat \ {0}
  /\ ReminderDays \subseteq 0..Window
  /\ MaxAttempts \in Nat \ {0}

None == -1
Nobody == "nobody"

VARIABLES
  today,
  contract,   \* the `contracts` documents
  suspended,  \* organizations whose status is "suspended"
  granted,    \* renewal allocations in billing.allocated_credits
  scan,       \* what each scan does, and the documents it still has to handle
  reminded,   \* reminders of the current term handed to the queue
  faults,
  seen        \* history: "overlap" of scans, a renewal left "unannounced", a
              \* contract "cancelled" by Stripe

orgs == <<suspended, granted>>
history == <<reminded, faults, seen>>
renewalVars == <<today, contract, orgs, scan, history>>

NoScan == [pc |-> "idle"]
Running == {s \in Scans : scan[s] # NoScan}

RenewalTypeOK ==
  /\ today \in 0..MaxDay
  /\ contract \in [Contracts -> [status : {"active", "terminated"}, end : Nat,
                                 attempts : Nat, grace : Nat \cup {None},
                                 sent : SUBSET ReminderDays]]
  /\ suspended \subseteq Contracts
  /\ granted \in [Contracts -> Nat]
  /\ \A s \in Scans : scan[s] = NoScan \/ DOMAIN scan[s].todo \subseteq Contracts
  /\ reminded \in [Contracts -> [ReminderDays -> Nat]]
  /\ faults \in 0..MaxFaults
  /\ seen \subseteq {"overlap", "unannounced", "cancelled"}

RenewalInit ==
  /\ today = 0
  /\ contract = [k \in Contracts |-> [status |-> "active", end |-> FirstEnd,
                                      attempts |-> 0, grace |-> None, sent |-> {}]]
  /\ suspended = {}
  /\ granted = [k \in Contracts |-> 0]
  /\ scan = [s \in Scans |-> NoScan]
  /\ reminded = [k \in Contracts |-> [d \in ReminderDays |-> 0]]
  /\ faults = 0
  /\ seen = {}

Active(k) == contract[k].status = "active"

(* findGracePeriodExpired.                                                 *)
GraceExpired(day) ==
  {k \in Contracts : Active(k) /\ contract[k].grace # None /\ contract[k].grace <= day}

(* findAutoRenewExpiringWithinDays and findAutoRenewPastEndPending.        *)
Expiring(day) == {k \in Contracts : Active(k) /\ contract[k].end <= day + Window}

(* Mutant: contracts in their grace period are renewed too.                *)
MayRenew_InGrace(doc, day) == doc.end <= day

(* Mutant: after MaxAttempts there is no other attempt.                    *)
MayRenew_UntilMax(doc, day) ==
  doc.end <= day /\ doc.attempts < MaxAttempts /\ ~(doc.grace > day)

(* The conditions of processRenewals and processRenewal.                   *)
MayRenew(doc, day) ==
  /\ doc.end <= day
  /\ ~(doc.grace # None /\ doc.grace > day)
  /\ ~(doc.attempts >= MaxAttempts /\ doc.grace # None)

MustRemind(doc, day) == doc.end - day \in ReminderDays \ doc.sent

-----------------------------------------------------------------------------
(* One scan.  `at` is the contract it is at, `todo` the documents that its *)
(* query returned and that it has not finished with.                       *)

At(s, pc) == scan[s].pc = pc
Doc(s) == scan[s].todo[scan[s].at]
Goto(s, pc) == scan' = [scan EXCEPT ![s].pc = pc]

(* The documents that are left for the loop at pc; the last loop ends the  *)
(* scan.                                                                   *)
Left(s, pc, todo) ==
  scan' = [scan EXCEPT ![s] =
             IF pc = "next" /\ DOMAIN todo = {} THEN NoScan
             ELSE [pc |-> pc, day |-> scan[s].day, at |-> Nobody, todo |-> todo]]

Drop(s, k, pc) == Left(s, pc, Restrict(scan[s].todo, DOMAIN scan[s].todo \ {k}))

(* processRenewals begins with processGracePeriodExpirations.              *)
Begin(s) ==
  /\ scan[s] = NoScan
  /\ scan' = [scan EXCEPT ![s] =
       [pc |-> "expired", day |-> today, at |-> Nobody,
        todo |-> Restrict(contract, GraceExpired(today))]]
  /\ seen' = seen \cup {e \in {"overlap"} : Running # {}}
  /\ UNCHANGED <<today, contract, orgs, reminded, faults>>

(* The organization is suspended first,                                    *)
SuspendOrg(s) ==
  /\ At(s, "expired")
  /\ \E k \in DOMAIN scan[s].todo :
       /\ suspended' = suspended \cup {k}
       /\ scan' = [scan EXCEPT ![s].pc = "terminate", ![s].at = k]
  /\ UNCHANGED <<today, contract, granted, history>>

(* then the contract terminated, and the administrator told.               *)
TerminateContract(s) ==
  /\ At(s, "terminate")
  /\ contract' = [contract EXCEPT ![scan[s].at].status = "terminated"]
  /\ Drop(s, scan[s].at, "expired")
  /\ UNCHANGED <<today, orgs, history>>

(* The queries of processRenewals.                                         *)
FindExpiring(s) ==
  /\ At(s, "expired") /\ DOMAIN scan[s].todo = {}
  /\ Left(s, "next", Restrict(contract, Expiring(scan[s].day)))
  /\ UNCHANGED <<today, contract, orgs, history>>

(* Where the loop takes a document after its reminder is dealt with.       *)
GoOn(s, doc, k) ==
  IF MayRenew(doc, scan[s].day)
  THEN scan' = [scan EXCEPT ![s].pc = "attempt", ![s].at = k]
  ELSE Drop(s, k, "next")

Take(s) ==
  /\ At(s, "next")
  /\ \E k \in DOMAIN scan[s].todo :
       LET doc == scan[s].todo[k] IN
       IF MustRemind(doc, scan[s].day)
       THEN scan' = [scan EXCEPT ![s].pc = "remind", ![s].at = k]
       ELSE GoOn(s, doc, k)
  /\ UNCHANGED <<today, contract, orgs, history>>

(* A reminder is queued, then recorded on the contract.                    *)
Remind(s) ==
  /\ At(s, "remind")
  /\ reminded' = [reminded EXCEPT ![scan[s].at][Doc(s).end - scan[s].day] = @ + 1]
  /\ Goto(s, "record")
  /\ UNCHANGED <<today, contract, orgs, faults, seen>>

RecordReminder(s) ==
  /\ At(s, "record")
  /\ contract' = [contract EXCEPT ![scan[s].at].sent = @ \cup {Doc(s).end - scan[s].day}]
  /\ GoOn(s, Doc(s), scan[s].at)
  /\ UNCHANGED <<today, orgs, history>>

-----------------------------------------------------------------------------
(* processRenewal                                                          *)

(* The attempt is counted before it is made, from the document read.       *)
CountAttempt(s) ==
  /\ At(s, "attempt")
  /\ contract' = [contract EXCEPT ![scan[s].at].attempts = Doc(s).attempts + 1]
  /\ Goto(s, "grant")
  /\ UNCHANGED <<today, orgs, history>>

(* $inc of billing.allocated_credits.                                      *)
Grant(s) ==
  /\ At(s, "grant")
  /\ granted' = [granted EXCEPT ![scan[s].at] = @ + 1]
  /\ Goto(s, "extend")
  /\ UNCHANGED <<today, contract, suspended, history>>

Extended(doc, end) == [doc EXCEPT !.end = end, !.attempts = 0, !.sent = {}]

(* The new term follows the one that was read.  grace_period_end is set to *)
(* undefined, which Mongoose drops: a grace period that is there stays.    *)
Extend(s) ==
  /\ At(s, "extend")
  /\ contract' = [contract EXCEPT ![scan[s].at] = Extended(@, Doc(s).end + Period)]
  /\ reminded' = [reminded EXCEPT ![scan[s].at] = [d \in ReminderDays |-> 0]]
  /\ Goto(s, "announce")
  /\ UNCHANGED <<today, orgs, faults, seen>>

(* enqueueRenewalSuccess, still inside the try.                            *)
Announce(s) ==
  /\ At(s, "announce")
  /\ Drop(s, scan[s].at, "next")
  /\ UNCHANGED <<today, contract, orgs, history>>

LastAttempt(s) == Doc(s).attempts + 1 >= MaxAttempts

(* The catch block: after the last attempt the grace period begins, and    *)
(* the administrator is told.                                              *)
GiveUp(s) ==
  /\ At(s, "failed")
  /\ contract' = [contract EXCEPT ![scan[s].at].grace =
                     IF LastAttempt(s) THEN scan[s].day + Grace ELSE @]
  /\ Drop(s, scan[s].at, "next")
  /\ UNCHANGED <<today, orgs, history>>

(* A call of the scan throws: inside the try it counts as a failed         *)
(* attempt, elsewhere it ends the scan.  The call may have taken effect:   *)
(* then it is the one before that is said to throw.  Or the process dies.  *)
InTry == {"grant", "extend", "announce"}

Fault(s) ==
  /\ scan[s] # NoScan
  /\ faults < MaxFaults
  /\ faults' = faults + 1
  /\ \/ At(s, "announce") /\ Goto(s, "failed") /\ seen' = seen \cup {"unannounced"}
     \/ scan[s].pc \in InTry \ {"announce"} /\ Goto(s, "failed") /\ seen' = seen
     \/ scan' = [scan EXCEPT ![s] = NoScan] /\ seen' = seen
  /\ UNCHANGED <<today, contract, orgs, reminded>>

-----------------------------------------------------------------------------
(* customer.subscription.deleted, handled by StripeWebhooks.               *)
Cancel(k) ==
  /\ Active(k)
  /\ contract' = [contract EXCEPT ![k].status = "terminated"]
  /\ suspended' = suspended \cup {k}
  /\ seen' = seen \cup {"cancelled"}
  /\ UNCHANGED <<today, granted, scan, reminded, faults>>

(* Bound: a scan does not last into the second day after the one it began. *)
NextDay ==
  /\ today < MaxDay
  /\ \A s \in Running : scan[s].day = today
  /\ today' = today + 1
  /\ UNCHANGED <<contract, orgs, scan, history>>

ScanStep(s) ==
  \/ Begin(s) \/ SuspendOrg(s) \/ TerminateContract(s)
  \/ FindExpiring(s) \/ Take(s)
  \/ Remind(s) \/ RecordReminder(s)
  \/ CountAttempt(s) \/ Grant(s) \/ Extend(s) \/ Announce(s)
  \/ GiveUp(s)

RenewalNext ==
  \/ \E s \in Scans : ScanStep(s) \/ Fault(s)
  \/ \E k \in Contracts : Cancel(k)
  \/ NextDay

(* The scheduler starts a scan every day and its worker finishes it; days  *)
(* pass.                                                                   *)
RenewalFairness == (\A s \in Scans : WF_renewalVars(ScanStep(s))) /\ WF_renewalVars(NextDay)

RenewalSpec == RenewalInit /\ [][RenewalNext]_renewalVars /\ RenewalFairness

-----------------------------------------------------------------------------
(* Properties                                                              *)

Renewals(k) == (contract[k].end - FirstEnd) \div Period

(* No term without its credits: whatever overlaps and dies, an end date    *)
(* that was moved has been paid for by an allocation (l.145 before l.149). *)
TermsArePaid == \A k \in Contracts : Renewals(k) <= granted[k]

Granting(k) == {s \in Running : scan[s].pc = "extend" /\ scan[s].at = k}

(* When scans do not overlap, allocations and terms drift apart by at most *)
(* one allocation for each failure between the two writes.                 *)
GrantsAreBounded ==
  "overlap" \notin seen =>
    \A k \in Contracts : granted[k] <= Renewals(k) + faults + Cardinality(Granting(k))

(* contract-renewal.constants.ts, RENEWAL_MAX_ATTEMPTS: an organization is *)
(* suspended for its renewal only after that many failures; a scan that    *)
(* overlaps another counts the attempts of the other that have not failed, *)
(* and then one failure may do.                                            *)
SuspensionNeedsFailures ==
  (suspended # {} /\ "cancelled" \notin seen) =>
    faults >= IF "overlap" \in seen THEN 1 ELSE MaxAttempts

(* A contract that was renewed is not terminated for its old term, if the  *)
(* scans do not overlap and no renewal failed after it was written         *)
(* (l.163): in both cases a grace period outlives the renewal.             *)
NotTerminatedInTerm ==
  seen = {} => \A k \in Contracts : ~Active(k) => contract[k].end <= today

(* A reminder is queued once for a term, and once more for each failure    *)
(* before it is recorded (l.85 before l.86).                               *)
RemindersOnce ==
  "overlap" \notin seen =>
    \A k \in Contracts, d \in ReminderDays : reminded[k][d] <= 1 + faults

(* However scans overlap, throw and die, what a renewal does to money,     *)
(* access and mail is accounted for by terms that began and by failures.   *)
RenewalsAreAccounted ==
  /\ TermsArePaid /\ GrantsAreBounded
  /\ SuspensionNeedsFailures /\ NotTerminatedInTerm
  /\ RemindersOnce

Due(k) == Active(k) /\ contract[k].end <= today

(* Whatever fails, a contract that is due is renewed or terminated in the  *)
(* end, unless its grace period ends after the last day.                   *)
DueIsSettled == \A k \in Contracts : Due(k) ~> ~Due(k) \/ contract[k].grace > MaxDay

=============================================================================
