------------------------------ MODULE AuditLog ------------------------------
(* The audit log of AuditService: each event is saved in MongoDB and then   *)
(* copied, best effort, to a monthly OpenSearch index, which is what search *)
(* and export read.  File operations write to the index alone.              *)
EXTENDS Integers, Sequences, FiniteSets

CONSTANTS
    Orgs,           \* organizations
    MaxNow,         \* bound on time
    MaxEvents,      \* bound on the number of events
    ResultWindow,   \* from + size that OpenSearch serves at most
    Faults,         \* external calls that may fail: index, search, save, s3, mail
    Nothing

ASSUME AuditAssumption ==
    /\ MaxNow \in Nat /\ MaxEvents \in Nat /\ ResultWindow \in Nat
    /\ Faults \subseteq {"index", "search", "save", "s3", "mail"}

VARIABLES
    now,        \* the clock that stamps events
    events,     \* every event: its organization, its time, what it says
    store,      \* ids in the collection audit_logs
    saving,     \* ids saved and about to be indexed
    index,      \* ids in the audit-* indices
    s3          \* whether the files bucket is configured

logVars == <<now, events, store, saving, index, s3>>

Ids == 1 .. Len(events)

\* IAuditLog and the document indexed from it; actor, request and trace are left out.
AuditEvents(Says) == [org : Orgs, at : 0 .. MaxNow, logged : BOOLEAN, says : Says]

LogTypeOK(Says) ==
    /\ now \in 0 .. MaxNow
    /\ events \in Seq(AuditEvents(Says))
    /\ store \subseteq Ids /\ saving \subseteq store /\ index \subseteq Ids
    /\ s3 \in BOOLEAN

\* A log that has been written for a while: what was logged so far has been indexed.
LogInit(past) ==
    /\ now \in 0 .. MaxNow
    /\ events \in past
    /\ \A i \in Ids : events[i].at <= now
    /\ store = {i \in Ids : events[i].logged} /\ saving = {} /\ index = Ids
    /\ s3 \in BOOLEAN

Room == Len(events) < MaxEvents

-----------------------------------------------------------------------------
(* Writing. *)

\* log(): the event is stamped and saved; indexing follows in a later step.
SaveEvent(o, says) ==
    /\ Room
    /\ events' = Append(events, [org |-> o, at |-> now, logged |-> TRUE, says |-> says])
    /\ store' = store \cup {Len(events) + 1}
    /\ saving' = saving \cup {Len(events) + 1}
    /\ UNCHANGED <<now, index, s3>>

EventIsLost == "save" \in Faults /\ UNCHANGED logVars

\* A failure to index is written to stderr and forgotten.
Index(i) ==
    /\ i \in saving
    /\ saving' = saving \ {i}
    /\ \/ index' = index \cup {i}
       \/ "index" \in Faults /\ index' = index
    /\ UNCHANGED <<now, events, store, s3>>

\* logFileAccess(): to the index only, and its failure is swallowed too.
FileEvent(o) ==
    /\ \/ /\ Room
          /\ events' = Append(events, [org |-> o, at |-> now, logged |-> FALSE, says |-> Nothing])
          /\ index' = index \cup {Len(events) + 1}
       \/ /\ "index" \in Faults \/ ~Room
          /\ UNCHANGED <<events, index>>
    /\ UNCHANGED <<now, store, saving, s3>>

\* Something happens in the organization and is logged.
Happen(o) == SaveEvent(o, Nothing)

Tick == now < MaxNow /\ now' = now + 1 /\ UNCHANGED <<events, store, saving, index, s3>>

-----------------------------------------------------------------------------
(* Reading: the newest first, in pages; events of one instant come in any  *)
(* order, and not in the same order every time.                            *)

InRange(i, range) == events[i].at >= range.from /\ events[i].at <= range.to

Matching(o, range) == {i \in index : events[i].org = o /\ InRange(i, range)}

LaterThan(S, i)    == Cardinality({j \in S : events[j].at > events[i].at})
NotOlder(S, i) == Cardinality({j \in S : events[j].at >= events[i].at})

Least(a, b)    == IF a < b THEN a ELSE b
Greatest(a, b) == IF a < b THEN b ELSE a

\* How many hits of i's instant fall on places from + 1 .. from + size.
Share(S, i, from, size) ==
    Greatest(0, Least(NotOlder(S, i), from + size) - Greatest(LaterThan(S, i), from))

PagesOf(S, page, size) ==
    LET from == (page - 1) * size
    IN {P \in SUBSET S : \A i \in S :
          Cardinality({j \in P : events[j].at = events[i].at}) = Share(S, i, from, size)}

\* The limits that search() puts on its parameters, and how many pages it announces.
Served(page, size) == page * size <= ResultWindow
PageCount(total, size) == (total + size - 1) \div size
=============================================================================
