----------------------------- MODULE AuditExport -----------------------------
(* Exports of the audit log: a small one is fetched page by page and sent   *)
(* in the answer, a large one becomes a job that fetches, uploads, mails a  *)
(* link and logs.  Events arrive and are deleted while pages are fetched.   *)
EXTENDS AuditLog

CONSTANTS
    Exports,            \* requests for an export
    Ranges,             \* time ranges asked for
    SyncMax,            \* rows that are exported in the answer
    PageSize,           \* rows fetched at a time
    Attempts            \* attempts of a job

ASSUME ExportAssumption ==
    /\ SyncMax \in Nat /\ PageSize \in Nat \ {0} /\ Attempts \in Nat \ {0}

VARIABLES
    export,     \* what each request, or its job, is doing
    objects,    \* exports uploaded to the bucket
    mails,      \* how many links were mailed for each export
    matched     \* history: what matched when the fetch of each export began

exportVars == <<export, objects, mails, matched>>

ExportInit ==
    /\ export = [x \in Exports |-> [pc |-> "new"]]
    /\ objects = {}
    /\ mails = [x \in Exports |-> 0]
    /\ matched = [x \in Exports |-> {}]

Doing(x, pc) == export[x].pc = pc
Become(x, record) == export' = [export EXCEPT ![x] = record]
Phase(x, pc) == export' = [export EXCEPT ![x].pc = pc]

\* The fetch of page 1: the answer's (attempt 0) or a job's.
Fetching(o, range, attempt) ==
    [pc |-> "fetch", org |-> o, range |-> range, page |-> 1, got |-> {}, attempt |-> attempt]

SearchFails == "search" \in Faults

-----------------------------------------------------------------------------
(* The request. *)

Estimate(o, range) == Cardinality(Matching(o, range))

\* enqueueLargeExport: refused without an e-mail address or a bucket.
Enqueue(x, o, range, email) ==
    IF email /\ s3 THEN Become(x, [pc |-> "queued", org |-> o, range |-> range, attempt |-> 1])
    ELSE Phase(x, "refused")

\* exportAuditLogs: the rows are counted first.
Request(x, o, range, email) ==
    /\ Doing(x, "new")
    /\ \/ /\ range.from > range.to \/ SearchFails
          /\ Phase(x, "refused")
          /\ UNCHANGED matched
       \/ /\ range.from <= range.to
          /\ IF Estimate(o, range) <= SyncMax
             THEN /\ Become(x, Fetching(o, range, 0))
                  /\ matched' = [matched EXCEPT ![x] = Matching(o, range)]
             ELSE Enqueue(x, o, range, email) /\ UNCHANGED matched
    /\ UNCHANGED <<logVars, objects, mails>>

\* The job is in the queue before that is logged: if the log fails the caller
\* hears 400 while the job goes on.
LogQueued(x) ==
    /\ Doing(x, "queued")
    /\ SaveEvent(export[x].org, Nothing) \/ EventIsLost
    /\ Become(x, Fetching(export[x].org, export[x].range, 1))
    /\ matched' = [matched EXCEPT ![x] = Matching(export[x].org, export[x].range)]
    /\ UNCHANGED <<objects, mails>>

-----------------------------------------------------------------------------
(* Fetching, in the answer or in the job. *)

Hits(x) == Matching(export[x].org, export[x].range)

LastPage_Asked(x) == export[x].page >= PageCount(Cardinality(matched[x]), PageSize)
LastPage(x) == export[x].page >= PageCount(Cardinality(Hits(x)), PageSize)

\* How a fetch ends: the answer is sent, or the job goes on to upload.
AfterFetch(x) == IF export[x].attempt = 0 THEN "answered" ELSE "upload"

\* A search, upload or log that throws: 400, or the next attempt of the job.
Throw(x) ==
    IF export[x].attempt = 0 THEN Phase(x, "refused") /\ UNCHANGED matched
    ELSE IF export[x].attempt < Attempts
    THEN /\ Become(x, Fetching(export[x].org, export[x].range, export[x].attempt + 1))
         /\ matched' = [matched EXCEPT ![x] = Matching(export[x].org, export[x].range)]
    ELSE Phase(x, "failed") /\ UNCHANGED matched

FetchPage(x) ==
    /\ Doing(x, "fetch") /\ Served(export[x].page, PageSize)
    /\ \E P \in PagesOf(Hits(x), export[x].page, PageSize) :
         Become(x, [export[x] EXCEPT
            !.got = @ \cup P, !.page = @ + 1,
            !.pc = IF LastPage(x) THEN AfterFetch(x) ELSE "fetch"])
    /\ UNCHANGED <<logVars, objects, mails, matched>>

\* A page past the result window is an error, like a search that fails.
FetchFails(x) ==
    /\ Doing(x, "fetch")
    /\ ~Served(export[x].page, PageSize) \/ SearchFails
    /\ Throw(x)
    /\ UNCHANGED <<logVars, objects, mails>>

-----------------------------------------------------------------------------
(* The rest of the job. *)

Upload(x) ==
    /\ Doing(x, "upload")
    /\ objects' = objects \cup {x}
    /\ FileEvent(export[x].org)
    /\ Phase(x, "mail")
    /\ UNCHANGED <<mails, matched>>

UploadFails(x) ==
    /\ Doing(x, "upload") /\ "s3" \in Faults
    /\ Throw(x)
    /\ UNCHANGED <<logVars, objects, mails>>

\* The link is signed, which is logged as a file access, and mailed; whether
\* the mail went out is not looked at.
SignLink(x) == FileEvent(export[x].org)

Mail(x) ==
    /\ Doing(x, "mail")
    /\ SignLink(x)
    /\ \/ mails' = [mails EXCEPT ![x] = @ + 1]
       \/ "mail" \in Faults /\ UNCHANGED mails
    /\ Phase(x, "log")
    /\ UNCHANGED <<objects, matched>>

LogCompleted(x) ==
    /\ Doing(x, "log")
    /\ \/ /\ SaveEvent(export[x].org, Nothing)
          /\ Phase(x, "completed")
          /\ UNCHANGED matched
       \/ EventIsLost /\ Throw(x)
    /\ UNCHANGED <<objects, mails>>

WorkOn(x) ==
    \/ LogQueued(x) \/ FetchPage(x) \/ FetchFails(x)
    \/ Upload(x) \/ UploadFails(x) \/ Mail(x) \/ LogCompleted(x)

ExportNext ==
    \E x \in Exports :
        \/ WorkOn(x)
        \/ \E o \in Orgs, range \in Ranges, email \in BOOLEAN : Request(x, o, range, email)

-----------------------------------------------------------------------------
(* Properties. *)

\* Events that share their organization and instant with another may change places.
AloneAtItsTime(i) ==
    \A j \in Ids \ {i} : events[j].org = events[i].org => events[j].at # events[i].at

Fetched(x) == export[x].pc \in {"answered", "upload", "mail", "log", "completed"}

(* An export misses nothing: what matched when its first page was fetched   *)
(* is in the file, although events are indexed and deleted between pages    *)
(* and each page is a search of its own, but for events deleted since and   *)
(* events of the same instant, which no order keeps in place.               *)
ExportMissesNothing ==
    \A x \in Exports : Fetched(x) =>
        \A i \in matched[x] \cap index : AloneAtItsTime(i) => i \in export[x].got
=============================================================================
