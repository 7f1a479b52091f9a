------------------------------ MODULE Retention ------------------------------
(* How long audit events are kept: the policy of each organization, the     *)
(* daily sweep that archives and deletes what the policy lets go, the       *)
(* record each sweep leaves, and the compliance report.                     *)
EXTENDS AuditLog, FiniteSetsExt

CONSTANTS
    OrgOrder,       \* the order in which the organizations are listed
    Admins,         \* requests that may be changing a policy or asking for a report
    Workers,        \* notification workers, on as many servers
    Spans,          \* retention spans administrators ask for
    MinSpan,        \* one year
    MaxSpan,        \* the configured maximum
    DefaultSpan,    \* three years
    SavedBefore,    \* policies saved before the log began
    BatchSize,      \* events archived or deleted at a time
    MaxRuns         \* bound on the runs recorded

Policies == [span : MinSpan .. MaxSpan, archive : BOOLEAN]

ASSUME RetentionAssumption ==
    /\ OrgOrder \in Seq(Orgs)
    /\ MinSpan \in Nat \ {0} /\ MaxSpan \in Nat /\ DefaultSpan \in MinSpan .. MaxSpan
    /\ Spans \subseteq Int /\ SavedBefore \subseteq Policies \cup {Nothing}
    /\ BatchSize \in Nat \ {0} /\ MaxRuns \in Nat

VARIABLES
    policy,     \* retention_policies
    runs,       \* retention_runs, oldest first
    archived,   \* events in the archive
    suspended,  \* organizations the sweep skips
    sweep,      \* what each worker is doing
    admin,      \* what each administrator's request is doing
    report,     \* the last compliance report of each organization
    unlogged,   \* history: organizations whose policy's last change is older than the
                \* log, could not be logged, or was saved by a request that ended
                \* before it logged it
    plain       \* history: events deleted by a sweep that was not asked to archive

sweepVars == <<runs, archived, sweep, plain>>
adminVars == <<policy, admin, report, unlogged>>
retentionVars == <<policy, runs, archived, suspended, sweep, admin, report, unlogged, plain>>

Statuses == {"completed", "partial", "failed"}
RunRecords == [org : Orgs, cutoff : Int, done : BOOLEAN, status : Statuses]

DefaultPolicy == [span |-> DefaultSpan, archive |-> TRUE]

EffectivePolicy(o) == IF policy[o] = Nothing THEN DefaultPolicy ELSE policy[o]

Cutoff(p) == now - p.span

\* What the sweep of o up to the cutoff has before it.
Expired(o, cutoff) == {i \in store : events[i].org = o /\ events[i].at < cutoff}

\* find().sort(timestamp).limit(batch): the oldest ones, in any order among equals.
OldestBatches(S) ==
    {B \in SUBSET S :
        /\ Cardinality(B) = Least(BatchSize, Cardinality(S))
        /\ \A i \in B, j \in S \ B : events[i].at <= events[j].at}

AnyBatches(S) == {B \in SUBSET S : Cardinality(B) = Least(BatchSize, Cardinality(S))}

Resting == [pc |-> "idle"]

RetentionTypeOK ==
    /\ LogTypeOK(Policies \cup {Nothing})
    /\ policy \in [Orgs -> Policies \cup {Nothing}]
    /\ runs \in Seq(RunRecords)
    /\ archived \subseteq Ids /\ plain \subseteq Ids
    /\ suspended \subseteq Orgs /\ unlogged \subseteq Orgs
    /\ \A o \in Orgs : report[o] # Nothing => report[o] \in [cutoff : Int, compliant : BOOLEAN]

RetentionInit ==
    /\ policy \in [Orgs -> SavedBefore]
    /\ runs = <<>>
    /\ archived = {}
    /\ suspended \in SUBSET Orgs
    /\ sweep = [w \in Workers |-> Resting]
    /\ admin = [r \in Admins |-> Resting]
    /\ report = [o \in Orgs |-> Nothing]
    /\ unlogged = {o \in Orgs : policy[o] # Nothing} /\ plain = {}

-----------------------------------------------------------------------------
(* The policy of an organization. *)

\* validateRetentionDays and normalizeArchiveLocation let it pass, and S3 is there to archive to.
Acceptable(p) == p.span >= MinSpan /\ p.span <= MaxSpan /\ (p.archive => s3)

\* upsert: the policy before the change is read first, for the log ...
ReadBefore(r, o) ==
    /\ admin[r].pc = "idle"
    /\ \E span \in Spans, archive \in BOOLEAN :
         LET p == [span |-> span, archive |-> archive]
         IN admin' = [admin EXCEPT ![r] =
               IF Acceptable(p) THEN [pc |-> "write", org |-> o, p |-> p] ELSE Resting]
    /\ UNCHANGED <<policy, report, unlogged>>

\* ... then the change is written ...
WritePolicy_ReadFirst(r) ==
    /\ admin[r].pc = "write"
    /\ policy' = [policy EXCEPT ![admin[r].org] = admin[r].p]
    /\ unlogged' = unlogged \ {admin[r].org}
    /\ admin' = [admin EXCEPT ![r] =
          [pc |-> "log", org |-> admin[r].org, after |-> EffectivePolicy(admin[r].org)]]
    /\ UNCHANGED report

WritePolicy(r) ==
    /\ admin[r].pc = "write"
    /\ policy' = [policy EXCEPT ![admin[r].org] = admin[r].p]
    /\ unlogged' = unlogged \ {admin[r].org}
    /\ admin' = [admin EXCEPT ![r] = [pc |-> "reread", org |-> admin[r].org]]
    /\ UNCHANGED report

\* ... and read back, which is what the log and the answer show.
RereadPolicy(r) ==
    /\ admin[r].pc = "reread"
    /\ admin' = [admin EXCEPT ![r] =
          [pc |-> "log", org |-> admin[r].org, after |-> EffectivePolicy(admin[r].org)]]
    /\ UNCHANGED <<policy, report, unlogged>>

\* logAdminAction: the change is logged, or the failure is swallowed.
LogPolicy(r) ==
    /\ admin[r].pc = "log"
    /\ admin' = [admin EXCEPT ![r] = Resting]
    /\ \/ SaveEvent(admin[r].org, admin[r].after) /\ UNCHANGED unlogged
       \/ EventIsLost /\ unlogged' = unlogged \cup {admin[r].org}
    /\ UNCHANGED <<policy, report>>

\* A read or the write throws, which the controller answers with 400 whether the
\* policy was saved or not, or the server dies: nothing is logged any more.
RequestEnds(r) ==
    /\ admin[r].pc # "idle"
    /\ admin' = [admin EXCEPT ![r] = Resting]
    /\ unlogged' = unlogged \cup {o \in Orgs : /\ admin[r].pc \in {"reread", "log"}
                                             /\ admin[r].org = o}
    /\ UNCHANGED <<policy, report>>

\* The compliance report takes its cutoff from the policy and then counts.
StartReport(r, o) ==
    /\ admin[r].pc = "idle"
    /\ admin' = [admin EXCEPT ![r] =
          [pc |-> "count", org |-> o, cutoff |-> Cutoff(EffectivePolicy(o))]]
    /\ UNCHANGED <<policy, report, unlogged>>

PastCutoff(o, cutoff) == Expired(o, cutoff)

FinishReport(r) ==
    /\ admin[r].pc = "count"
    /\ report' = [report EXCEPT ![admin[r].org] =
          [cutoff |-> admin[r].cutoff,
           compliant |-> PastCutoff(admin[r].org, admin[r].cutoff) = {}]]
    /\ admin' = [admin EXCEPT ![r] = Resting]
    /\ UNCHANGED <<policy, unlogged>>

AdminStep(r) ==
    /\ \/ LogPolicy(r)
       \/ /\ UNCHANGED logVars
          /\ \/ WritePolicy(r) \/ RereadPolicy(r) \/ FinishReport(r) \/ RequestEnds(r)
             \/ \E o \in Orgs : ReadBefore(r, o) \/ StartReport(r, o)
    /\ UNCHANGED <<runs, archived, suspended, sweep, plain>>

-----------------------------------------------------------------------------
(* The daily sweep. *)

Go(w, record) == sweep' = [sweep EXCEPT ![w] = record]
At(w, pc) == sweep[w].pc = pc

\* Runs begun and runs that sweeps under way will begin.
Planned ==
    Len(runs) + MapThenSumSet(LAMBDA w : IF At(w, "idle") THEN 0 ELSE Len(sweep[w].todo), Workers)

\* processRetention: the organizations are listed ...
StartSweep(w) ==
    /\ At(w, "idle") /\ Planned + Len(OrgOrder) <= MaxRuns
    /\ Go(w, [pc |-> "next", todo |-> OrgOrder])
    /\ UNCHANGED <<logVars, runs, archived, plain>>

EndSweep(w) ==
    /\ At(w, "next") /\ sweep[w].todo = <<>>
    /\ Go(w, Resting)
    /\ UNCHANGED <<logVars, runs, archived, plain>>

\* ... and those that are suspended are passed over.
PassOver(w) ==
    /\ At(w, "next") /\ sweep[w].todo # <<>> /\ Head(sweep[w].todo) \in suspended
    /\ Go(w, [pc |-> "next", todo |-> Tail(sweep[w].todo)])
    /\ UNCHANGED <<logVars, runs, archived, plain>>

\* processOrgRetention: the run is recorded, as completed, before any work is done.
StartRun(w) ==
    /\ At(w, "next") /\ sweep[w].todo # <<>> /\ Head(sweep[w].todo) \notin suspended
    /\ LET o == Head(sweep[w].todo)
           p == EffectivePolicy(o)
       IN /\ runs' = Append(runs, [org |-> o, cutoff |-> Cutoff(p), done |-> FALSE,
                                   status |-> "completed"])
          /\ Go(w, [pc |-> IF p.archive THEN "archive" ELSE "delete",
                    todo |-> Tail(sweep[w].todo), run |-> Len(runs) + 1,
                    archive |-> p.archive, uploads |-> 0, deletedAny |-> FALSE])
    /\ UNCHANGED <<logVars, archived, plain>>

Run(w) == runs[sweep[w].run]
Left(w) == Expired(Run(w).org, Run(w).cutoff)

\* The loop of archiveOldLogs: a batch is read and uploaded until there is none;
\* nothing is deleted in between.  Uploads are counted 0, 1, 2, 1, 2, ...
ArchiveDone_OneBatch(w) == Left(w) = {} \/ sweep[w].uploads > 0
ArchiveDone(w) == Left(w) = {}

UploadArchive(o, B) == archived' = archived \cup B /\ FileEvent(o)

ArchiveBatch(w) ==
    /\ At(w, "archive") /\ s3 /\ ~ArchiveDone(w)
    /\ \E B \in OldestBatches(Left(w)) : UploadArchive(Run(w).org, B)
    /\ Go(w, [sweep[w] EXCEPT !.uploads = IF @ = 1 THEN 2 ELSE 1])
    /\ UNCHANGED <<runs, plain>>

EndArchive(w) ==
    /\ At(w, "archive") /\ s3 /\ ArchiveDone(w)
    /\ Go(w, [sweep[w] EXCEPT !.pc = "delete"])
    /\ UNCHANGED <<logVars, runs, archived, plain>>

\* deleteOldMongoLogs, through the native collection.
DeleteDone_OneBatch(w) == Left(w) = {} \/ sweep[w].deletedAny
DeleteDone(w) == Left(w) = {}

DeleteBatch(w) ==
    /\ At(w, "delete") /\ ~DeleteDone(w)
    /\ \E B \in AnyBatches(Left(w)) :
         /\ store' = store \ B
         /\ plain' = IF sweep[w].archive THEN plain ELSE plain \cup B
    /\ Go(w, [sweep[w] EXCEPT !.deletedAny = TRUE])
    /\ UNCHANGED <<now, events, saving, index, s3, runs, archived>>

EndDelete(w) ==
    /\ At(w, "delete") /\ DeleteDone(w)
    /\ Go(w, [sweep[w] EXCEPT !.pc = "search"])
    /\ UNCHANGED <<logVars, runs, archived, plain>>

FinishRun(w, status) ==
    /\ runs' = [runs EXCEPT ![sweep[w].run] = [@ EXCEPT !.done = TRUE, !.status = status]]
    /\ Go(w, [pc |-> "next", todo |-> sweep[w].todo])

\* deleteOldOpenSearchLogs: its failure counts as nothing to delete.
DeleteFromSearch(w) ==
    /\ At(w, "search")
    /\ \/ index' = {i \in index : ~(events[i].org = Run(w).org /\ events[i].at < Run(w).cutoff)}
       \/ "search" \in Faults /\ index' = index
    /\ FinishRun(w, "completed")
    /\ UNCHANGED <<now, events, store, saving, s3, archived, plain>>

\* The catch clause.  The counts are those of the phases that came to their end:
\* the batches of the phase that failed are not counted.
FailedStatus(w) ==
    IF sweep[w].pc = "delete" /\ sweep[w].uploads > 0 THEN "partial" ELSE "failed"

FailRun(w) ==
    /\ \/ At(w, "archive") /\ (~s3 \/ (~ArchiveDone(w) /\ "s3" \in Faults))
       \/ At(w, "delete") /\ "save" \in Faults
    /\ FinishRun(w, FailedStatus(w))
    /\ UNCHANGED <<logVars, archived, plain>>

GoOn(w) ==
    \/ EndSweep(w) \/ PassOver(w) \/ StartRun(w) \/ ArchiveBatch(w) \/ EndArchive(w)
    \/ DeleteBatch(w) \/ EndDelete(w) \/ DeleteFromSearch(w) \/ FailRun(w)

\* The server dies: the run keeps the status it was created with.
Crash(w) ==
    /\ ~At(w, "idle")
    /\ Go(w, Resting)
    /\ UNCHANGED <<logVars, runs, archived, plain>>

SweepStep(w) ==
    /\ StartSweep(w) \/ GoOn(w) \/ Crash(w)
    /\ UNCHANGED <<policy, suspended, admin, report, unlogged>>

-----------------------------------------------------------------------------
(* Properties. *)

(* What a finished run or a report claims stays true: once a sweep has      *)
(* ended as completed, or a report has said compliant, no event of the      *)
(* organization older than its cutoff is in the collection, whatever was    *)
(* logged, changed or swept meanwhile.                                      *)
ClaimsHold ==
    /\ \A k \in DOMAIN runs :
          runs[k].done /\ runs[k].status = "completed" => Expired(runs[k].org, runs[k].cutoff) = {}
    /\ \A o \in Orgs :
          report[o] # Nothing => (report[o].compliant => Expired(o, report[o].cutoff) = {})

(* An event leaves the collection only after it was archived, or by a       *)
(* sweep that read a policy without archiving, also when two sweeps of an   *)
(* organization overlap or one dies half way.                               *)
NothingVanishes ==
    \A i \in Ids : events[i].logged => i \in store \cup plain \cup archived

(* Retention deletes what it claims to have deleted and nothing that the    *)
(* policy wants archived first.                                             *)
RetentionHolds == ClaimsHold /\ NothingVanishes

(* The policy in force is in the audit log: once no change of it is under   *)
(* way, some entry shows it as the outcome of a change, however two         *)
(* changes overlapped, unless logging it failed or the request that saved   *)
(* it ended before: with an error of the read after the write (a policy     *)
(* saved behind a 400), or with its server.                                 *)
PolicyIsLogged ==
    \A o \in Orgs :
        (/\ policy[o] # Nothing /\ o \notin unlogged
         /\ \A r \in Admins : admin[r].pc \in {"reread", "log"} => admin[r].org # o)
        => \E i \in Ids : events[i].org = o /\ events[i].says = policy[o]

(* A sweep that starts comes to an end: "Daily job - apply retention policy *)
(* for every organization."                                                 *)
SweepEnds == \A w \in Workers : sweep[w].pc # "idle" ~> sweep[w].pc = "idle"
=============================================================================
