----------------------------- MODULE Statements ----------------------------
(***************************************************************************)
(* Lists read a page at a time, newest first, while rows are being         *)
(* recorded: credit transactions on their page, the users of an            *)
(* organization by a directory over SCIM.  A request counts the rows and   *)
(* reads its page in two concurrent queries, and rows recorded at the same *)
(* time have no order of their own.  The rows are those that match the     *)
(* filter; changing it starts over at the first page.                      *)
(***************************************************************************)
EXTENDS Integers, FiniteSets

CONSTANTS
  Rows,            \* the transactions that are ever recorded, numbers
  CreatedAt,       \* [Rows -> time of creation]
  RowsPerPage,        \* the limit the page asks for
  MaxLimit,        \* the largest limit the server grants
  MaxRemoved       \* bound: rows removed

(* A page does not ask for more than the server grants.                    *)
ASSUME PageAssumption ==
  /\ IsFiniteSet(Rows) /\ CreatedAt \in [Rows -> Int]
  /\ MaxLimit \in Nat /\ RowsPerPage \in 1..MaxLimit

VARIABLES
  listing,         \* "transactions" or "users"
  recorded,        \* rows committed so far
  removed,         \* and rows removed from the list
  filters,         \* [offset] the page shows or is loading
  reading,         \* the request: "no", "sent", "counted", "found"
  counted, found,  \* what its two queries have read
  data,            \* the answer on the page: [rows, more, offset]
  walk             \* rows there when the first page was asked for, rows seen
                   \* since, rows removed before, and whether one came or
                   \* went between a count and its find

statementVars == <<listing, recorded, removed, filters, reading, counted, found, data, walk>>

NoData == [rows |-> {}, more |-> FALSE, offset |-> 0]  \* or no rows at all

Walk(rows) == [from |-> rows, seen |-> {}, gone |-> removed, raced |-> FALSE]

StatementsInit ==
  /\ listing \in {"transactions", "users"}
  /\ recorded \in SUBSET Rows /\ removed = {}
  /\ filters = 0 /\ reading = "sent" /\ counted = 0 /\ found = {}
  /\ data = NoData /\ walk = Walk(recorded)

(* A transaction becomes visible, perhaps after a younger one has.         *)
Record(r) ==
  /\ r \notin recorded \cup removed
  /\ recorded' = recorded \cup {r}
  /\ walk' = [walk EXCEPT !.raced = @ \/ reading = "counted"]
  /\ UNCHANGED <<listing, removed, filters, reading, counted, found, data>>

(* A user is removed, or does not match the filter of the list any more,   *)
(* and does not come back.  Transactions stay.                             *)
RemoveRow(r) ==
  /\ listing = "users" /\ r \in recorded /\ Cardinality(removed) < MaxRemoved
  /\ recorded' = recorded \ {r} /\ removed' = removed \cup {r}
  /\ walk' = [walk EXCEPT !.raced = @ \/ reading = "counted"]
  /\ UNCHANGED <<listing, filters, reading, counted, found, data>>

-----------------------------------------------------------------------------
(* buildTransactionQuery                                                   *)
Limit == LET asked == IF RowsPerPage < 1 THEN 1 ELSE RowsPerPage IN
         IF asked > MaxLimit THEN MaxLimit ELSE asked

(* The pages MongoDB may answer: rows sorted by time alone, so that rows
   of the same time may change places from one query to the next.          *)
Newer(rows, r) == {s \in rows : CreatedAt[s] > CreatedAt[r]}
Before(rows, page) == {s \in rows \ page : \E r \in page : CreatedAt[s] > CreatedAt[r]}

IsPage(rows, page, offset) ==
  LET left == Cardinality(rows) - offset IN
  /\ Cardinality(page) = (IF left < 0 THEN 0 ELSE IF left < Limit THEN left ELSE Limit)
  /\ \E skipped \in SUBSET (rows \ page) :
       /\ Cardinality(skipped) = (IF left < 0 THEN Cardinality(rows) ELSE offset)
       /\ Before(rows, skipped) = {}
       /\ Before(rows \ skipped, page) = {}

(* countDocuments                                                          *)
Count ==
  /\ reading = "sent" \/ reading = "found"
  /\ counted' = Cardinality(recorded)
  /\ reading' = IF reading = "sent" THEN "counted" ELSE "read"
  /\ UNCHANGED <<listing, recorded, removed, filters, found, data, walk>>

(* find, sort, skip and limit                                              *)
Find(page) ==
  /\ reading = "sent" \/ reading = "counted"
  /\ IsPage(recorded, page, filters)
  /\ found' = page
  /\ reading' = IF reading = "sent" THEN "found" ELSE "read"
  /\ walk' = [walk EXCEPT !.seen = @ \cup page]
  /\ UNCHANGED <<listing, recorded, removed, filters, counted, data>>

(* Mutant: the last row is taken to be on this page.                       *)
HasMore_OffByOne == filters + Cardinality(found) + 1 < counted

HasMore == filters + Cardinality(found) < counted

(* listUsers answers with the first index asked for, the number of users   *)
(* on the page and of all: the directory sees from them if there are more. *)
UsersMore == filters + Cardinality(found) < counted

(* The answer arrives.                                                     *)
Answer ==
  /\ reading = "read" /\ reading' = "no"
  /\ data' = [rows |-> found, more |-> IF listing = "users" THEN UsersMore ELSE HasMore,
              offset |-> filters]
  /\ counted' = 0 /\ found' = {}
  /\ UNCHANGED <<listing, recorded, removed, filters, walk>>

(* Either query fails: the error takes the place of page and buttons.      *)
PageFails ==
  /\ reading # "no" /\ reading' = "no"
  /\ data' = NoData /\ counted' = 0 /\ found' = {}
  /\ UNCHANGED <<listing, recorded, removed, filters, walk>>

LoadPage(offset) ==
  /\ filters' = offset /\ reading' = "sent"
  /\ walk' = IF offset = 0 THEN Walk(recorded) ELSE walk
  /\ UNCHANGED <<listing, recorded, removed, counted, found, data>>

(* Both buttons are disabled while the page loads.  A directory goes on    *)
(* behind the users it got.                                                *)
NextPage ==
  /\ reading = "no" /\ data.more
  /\ LoadPage(filters + IF listing = "users" THEN Cardinality(data.rows) ELSE RowsPerPage)

PreviousPage ==
  /\ listing = "transactions"
  /\ reading = "no" /\ data.offset # 0
  /\ LoadPage(IF filters < RowsPerPage THEN 0 ELSE filters - RowsPerPage)

(* The button that loads the same page again.                              *)
Refresh == reading = "no" /\ LoadPage(filters)

StatementsNext ==
  \/ \E r \in Rows : Record(r) \/ RemoveRow(r)
  \/ Count \/ \E page \in SUBSET recorded : Find(page)
  \/ Answer \/ PageFails \/ NextPage \/ PreviousPage \/ Refresh

StatementsSpec == StatementsInit /\ [][StatementsNext]_statementVars

-----------------------------------------------------------------------------
(* Reading on page by page until there is no next one shows every row that *)
(* was there at the start, whatever is recorded meanwhile.  Three ways to  *)
(* miss one are left: it shares its time with another, as the list is      *)
(* sorted by time alone; it, or a newer one, was removed, so that it moved *)
(* to a page already read; or a row came or went between the count and the *)
(* read of a page, which then looks like the last.                         *)
WalkSeesAll ==
  reading = "no" /\ data # NoData /\ ~data.more /\ ~walk.raced =>
    \A r \in walk.from \ walk.seen :
      \/ \E s \in Rows \ {r} : CreatedAt[s] = CreatedAt[r]
      \/ \E s \in removed \ walk.gone : CreatedAt[s] >= CreatedAt[r]

=============================================================================
