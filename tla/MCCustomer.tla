----------------------------- MODULE MCCustomer -----------------------------
(* What an organization sees of the system: its credit alerts, its own      *)
(* webhooks, the web client with its login page, its live events, its       *)
(* settings pages and its statement, its users as a directory reads them,   *)
(* and its audit log.  `focus` says which of them moves; the others stay in *)
(* one initial state.                                                       *)
EXTENDS CreditAlerts, Deliveries, WebClient, Pages, Statements, Retention, AuditExport, TLC

CONSTANTS o1, r1

VARIABLE focus

MCThresholdSets ==
  {{}, {[percent |-> 50, level |-> "warning"], [percent |-> 20, level |-> "warning"]}}

(* Whoever does the same may change places: checks, hooks with their        *)
(* replicas, administrators of a page, workers.  As only one of the         *)
(* components moves, one permutation serves them all.                       *)
SwapIn(S) == LET u == CHOOSE u \in S : TRUE
                 v == CHOOSE v \in S : v # u
             IN  u :> v @@ v :> u
Swap == SwapIn(Checks) @@ SwapIn(Hooks) @@ SwapIn(Replicas) @@ SwapIn(Editors) @@ SwapIn(Workers)
CustomerSymmetry ==
  {IF \E w \in Workers : p[w] # w THEN Swap ELSE p : p \in Permutations(Workers)}

(* Rows 2 and 3 were created at the same time.                              *)
MCCreatedAt == [r \in {1, 2, 3, 4} |-> IF r = 3 THEN 2 ELSE r]

customerVars == <<alertVars, deliveryVars, clientVars, pageVars, statementVars, formVars>>
complianceVars == <<logVars, retentionVars, exportVars>>
MCVars == <<customerVars, complianceVars, focus>>

CustomerInit ==
  /\ AlertsInit /\ DeliveriesInit /\ ClientInit /\ PagesInit /\ StatementsInit /\ FormInit
  /\ focus = "pages" \/ (kind = "groups" /\ stored = Defaults)
  /\ focus = "statements" \/ (listing = "users" /\ recorded = {})

CustomerNext ==
  \/ focus = "alerts" /\ AlertsNext
     /\ UNCHANGED <<deliveryVars, clientVars, pageVars, statementVars, formVars>>
  \/ focus = "deliveries" /\ DeliveriesNext
     /\ UNCHANGED <<alertVars, clientVars, pageVars, statementVars, formVars>>
  \/ focus = "client" /\ ClientNext
     /\ UNCHANGED <<alertVars, deliveryVars, pageVars, statementVars, formVars>>
  \/ focus = "pages" /\ PagesNext
     /\ UNCHANGED <<alertVars, deliveryVars, clientVars, statementVars, formVars>>
  \/ focus = "statements" /\ StatementsNext
     /\ UNCHANGED <<alertVars, deliveryVars, clientVars, pageVars, formVars>>
  \/ focus = "form" /\ FormNext
     /\ UNCHANGED <<alertVars, deliveryVars, clientVars, pageVars, statementVars>>

-----------------------------------------------------------------------------
(* The audit log with its two users side by side: retention deletes what    *)
(* exports are fetching.  What overlaps with events being logged: changes   *)
(* of policy; one administrator and two sweeps; or exports and sweeps under *)
(* a policy saved before.  Three events happen by themselves at most, so    *)
(* that a job can log its own.                                              *)
MCOrder == <<o1>>
MCRanges == {[from |-> 0, to |-> MaxNow]}
MCSavedBefore == {Nothing, [span |-> 1, archive |-> FALSE]}

Old == [org |-> o1, at |-> 0, logged |-> TRUE, says |-> Nothing]

ComplianceInit ==
  /\ LogInit({<<>>, <<Old, Old>>}) /\ RetentionInit /\ ExportInit
  /\ \/ focus \in {"policies", "sweeps"} /\ Len(events) = 2 /\ now = 1 /\ \A o \in Orgs : policy[o] = Nothing
     \/ focus = "exports" /\ Len(events) = 0 /\ now = 0 /\ \A o \in Orgs : policy[o] # Nothing
  /\ s3 \/ suspended = {}

NoCompliance ==
  /\ LogInit({<<>>}) /\ RetentionInit /\ ExportInit
  /\ s3 /\ now = 0 /\ suspended = {} /\ \A o \in Orgs : policy[o] = Nothing

LogStep ==
  \/ Tick
  \/ focus = "exports" /\ ((\E o \in Orgs : Len(events) < 3 /\ Happen(o)) \/ (\E i \in saving : Index(i)))

ComplianceNext ==
  \/ focus \in {"policies", "sweeps", "exports"} /\ LogStep /\ UNCHANGED <<retentionVars, exportVars>>
  \/ focus = "policies" /\ (\E r \in Admins : AdminStep(r)) /\ UNCHANGED exportVars
  \/ focus = "sweeps" /\ (AdminStep(r1) \/ \E w \in Workers : SweepStep(w)) /\ UNCHANGED exportVars
  \/ focus = "exports" /\ (\E w \in Workers : SweepStep(w)) /\ Len(runs') < MaxRuns /\ UNCHANGED exportVars
  \/ focus = "exports" /\ ExportNext /\ UNCHANGED retentionVars

MCInit ==
  /\ \/ focus \in {"alerts", "deliveries", "client", "pages", "statements", "form"} /\ NoCompliance
     \/ ComplianceInit
  /\ CustomerInit

MCNext ==
  \/ CustomerNext /\ UNCHANGED <<complianceVars, focus>>
  \/ ComplianceNext /\ UNCHANGED <<customerVars, focus>>

MCSpec == MCInit /\ [][MCNext]_MCVars

(* The audit log alone.  A sweep goes on as long as its server runs.        *)
SweepSpec ==
  /\ MCInit /\ focus \in {"policies", "sweeps", "exports"} /\ [][MCNext]_MCVars
  /\ \A w \in Workers :
        WF_MCVars(GoOn(w) /\ UNCHANGED <<policy, suspended, admin, report, unlogged, exportVars,
                                         customerVars, focus>>)
=============================================================================
