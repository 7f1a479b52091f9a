--------------------------- MODULE AccountBudget ---------------------------
(***************************************************************************)
(* The requests that read and write the budget of one account, at the      *)
(* granularity of their awaits.  The budget lives in the `accounts`        *)
(* document and is copied to `account_budgets` by whoever touched it; the  *)
(* copy is made from the document the request holds, some time after it    *)
(* was read.  AccountService.update writes the whole budget back from a    *)
(* document it read before, outside any transaction.                       *)
(*                                                                         *)
(* The pool of the organization is CreditLedger's: here an allocation may  *)
(* or may not find it sufficient.                                          *)
(***************************************************************************)
EXTENDS Integers

CONSTANTS
  Calls,            \* requests and background syncs in flight
  Org, Account,     \* the id of the organization and of the account
  Requested, NewLimits,
  MaxAllocated,     \* bound: credits granted, and credits charged
  Bodies,           \* the budgets a POST /accounts may carry
  Patches,          \* the budgets a PATCH /accounts/:id may carry
  ValidatorAccepts  \* TRUE: HierarchyValidator accepts everything

VARIABLES
  doc,      \* the budget of the `accounts` document
  deleted,  \* its is_deleted
  rows,     \* ledger rows of the account: sums granted to it and charged to it
  view,     \* the `account_budgets` document, or NoView
  call,     \* what each call is doing and what it has read
  answer,   \* the last answer of each call
  opened,   \* history: the counters the account was created with
  overwritten  \* history: a PATCH has written back counters that were "stale",
               \* or "counters" that it carried itself

budgetVars == <<doc, deleted, rows, view, call, answer, opened, overwritten>>

Fields == {"limit", "allocated", "used"}
ASSUME BudgetAssumption == Requested \subseteq Nat \ {0} /\ NewLimits \subseteq Nat
ASSUME PatchesAssumption ==
  \A p \in Patches \cup Bodies : DOMAIN p \subseteq Fields /\ \A f \in DOMAIN p : p[f] \in Int

NoView == [available |-> -1]
NoCall == [pc |-> "idle"]

(* budgetFieldsFromAccount.                                                *)
BudgetFields(b) ==
  [allocated |-> b.allocated, used |-> b.used, limit |-> b.limit,
   available |-> IF b.allocated > b.used THEN b.allocated - b.used ELSE 0]

(* { ...existing.budget, ...input.budget }.                                *)
Merged(b, patch) == [f \in Fields |-> IF f \in DOMAIN patch THEN patch[f] ELSE b[f]]

(* AccountService.create takes the counters from its body, 0 for those it  *)
(* leaves out.                                                             *)
BudgetInit ==
  /\ \E body \in Bodies : doc = Merged([f \in Fields |-> 0], body)
  /\ opened = [allocated |-> doc["allocated"], used |-> doc["used"]]
  /\ deleted = FALSE
  /\ rows = [granted |-> 0, charged |-> 0]
  /\ view = NoView
  /\ call = [c \in Calls |-> NoCall]
  /\ answer = [c \in Calls |-> "none"]
  /\ overwritten = {}

(* HierarchyValidator.assertAccountBelongsToOrg(accountId, orgId).         *)
BelongsToOrg(accountId, orgId) ==
  accountId = Account /\ orgId = Org /\ ~deleted

(* A call that has the document b in its hands.                            *)
Holding(pc, b) == [pc |-> pc, doc |-> b]

Answer(c, a) == answer' = [answer EXCEPT ![c] = a]

-----------------------------------------------------------------------------

(* GET /accounts/:id/budget: validate, read, then copy what was read.      *)
GetBudget(c) ==
  /\ call[c] = NoCall
  /\ IF BelongsToOrg(Account, Org)
     THEN call' = [call EXCEPT ![c] = Holding("upsert", doc)] /\ Answer(c, "none")
     ELSE Answer(c, "not found") /\ UNCHANGED call
  /\ UNCHANGED <<doc, deleted, rows, view, opened, overwritten>>

WithinAccountLimit(n) == doc.limit > 0 => doc.allocated + n <= doc.limit

(* handleAllocationError: what an allocation is refused for inside its     *)
(* transaction.  What the pool has left is CreditLedger's.                 *)
AllocationRefusal(n) ==
  IF deleted THEN "failed"
  ELSE IF ~WithinAccountLimit(n) THEN "over the limit" ELSE "insufficient credits"

(* CreditAllocationService inside allocateBudget and the account           *)
(* controller: its arguments to the validator are swapped.                 *)
Allocate(c, n) ==
  /\ call[c] = NoCall
  /\ rows.granted + n <= MaxAllocated
  /\ IF ~(ValidatorAccepts \/ BelongsToOrg(Org, Account))
     THEN Answer(c, "not found") /\ UNCHANGED <<doc, rows, call>>
     ELSE \/ /\ ~deleted
             /\ WithinAccountLimit(n)
             /\ LET b == [doc EXCEPT !.allocated = @ + n]
                IN doc' = b /\ call' = [call EXCEPT ![c] = Holding("upsert", b)]
             /\ rows' = [rows EXCEPT !.granted = @ + n]
             /\ Answer(c, "none")
          \/ Answer(c, AllocationRefusal(n)) /\ UNCHANGED <<doc, rows, call>>
  /\ UNCHANGED <<deleted, view, opened, overwritten>>

(* CreditConsumptionService.consumeCredits, and the sync it starts without *)
(* awaiting it.                                                            *)
Consume(c, n) ==
  /\ call[c] = NoCall
  /\ rows.charged + n <= MaxAllocated
  /\ ~deleted
  /\ doc.allocated - doc.used >= n
  /\ LET b == [doc EXCEPT !.used = @ + n]
     IN doc' = b /\ call' = [call EXCEPT ![c] = [pc |-> "sync"]]
  /\ rows' = [rows EXCEPT !.charged = @ + n]
  /\ Answer(c, "none")
  /\ UNCHANGED <<deleted, view, opened, overwritten>>

(* syncByAccountId reads the account again.                                *)
SyncRead(c) ==
  /\ call[c].pc = "sync"
  /\ call' = [call EXCEPT ![c] = IF deleted THEN NoCall ELSE Holding("upsert", doc)]
  /\ UNCHANGED <<doc, deleted, rows, view, answer, opened, overwritten>>

(* Mutant: the $set replaces the whole budget.                             *)
SetLimit_ReplacesBudget(c, l) ==
  /\ call[c] = NoCall
  /\ BelongsToOrg(Account, Org)
  /\ LET b == [limit |-> l, allocated |-> 0, used |-> 0]
     IN doc' = b /\ call' = [call EXCEPT ![c] = Holding("upsert", b)]
  /\ Answer(c, "none")
  /\ UNCHANGED <<deleted, rows, view, opened, overwritten>>

(* PATCH /accounts/:id/budget/limit: one findOneAndUpdate, then the copy.  *)
SetAccountLimit(c, l) ==
  /\ call[c] = NoCall
  /\ IF BelongsToOrg(Account, Org)
     THEN /\ LET b == [doc EXCEPT !.limit = l]
             IN doc' = b /\ call' = [call EXCEPT ![c] = Holding("upsert", b)]
          /\ Answer(c, "none")
     ELSE Answer(c, "not found") /\ UNCHANGED <<doc, call>>
  /\ UNCHANGED <<deleted, rows, view, opened, overwritten>>

(* syncFromAccount: the copy, and the answer made from it.                 *)
Upsert(c) ==
  /\ call[c].pc = "upsert"
  /\ view' = BudgetFields(call[c].doc)
  /\ call' = [call EXCEPT ![c] = NoCall]
  /\ Answer(c, "ok")
  /\ UNCHANGED <<doc, deleted, rows, opened, overwritten>>

(* AccountService.update with a budget: findByIdForOrg first ...           *)
UpdateRead(c) ==
  /\ call[c] = NoCall
  /\ IF deleted
     THEN Answer(c, "not found") /\ UNCHANGED call
     ELSE call' = [call EXCEPT ![c] = Holding("merge", doc)] /\ Answer(c, "none")
  /\ UNCHANGED <<doc, deleted, rows, view, opened, overwritten>>

(* ... then the merge replaces the budget.                                 *)
UpdateWrite(c, patch) ==
  /\ call[c].pc = "merge"
  /\ call' = [call EXCEPT ![c] = NoCall]
  /\ IF deleted
     THEN Answer(c, "not found") /\ UNCHANGED <<doc, overwritten>>
     ELSE LET read == call[c].doc
          IN /\ Answer(c, "ok")
             /\ doc' = Merged(read, patch)
             /\ overwritten' = overwritten
                  \cup {o \in {"stale"} : <<read.allocated, read.used>> # <<doc.allocated, doc.used>>}
                  \cup {o \in {"counters"} : ~(DOMAIN patch \subseteq {"limit"})}
  /\ UNCHANGED <<deleted, rows, view, opened>>

(* DELETE /accounts/:id.                                                   *)
Remove ==
  /\ ~deleted
  /\ deleted' = TRUE
  /\ UNCHANGED <<doc, rows, view, call, answer, opened, overwritten>>

(* A call is lost with its process; what it has written stays.             *)
CrashCall(c) ==
  /\ call[c] # NoCall
  /\ call' = [call EXCEPT ![c] = NoCall]
  /\ UNCHANGED <<doc, deleted, rows, view, answer, opened, overwritten>>

BudgetNext ==
  \/ \E c \in Calls :
       \/ GetBudget(c)
       \/ \E n \in Requested : Allocate(c, n) \/ Consume(c, n)
       \/ \E l \in NewLimits : SetAccountLimit(c, l)
       \/ SyncRead(c)
       \/ Upsert(c)
       \/ Patches # {} /\ UpdateRead(c)
       \/ \E patch \in Patches : UpdateWrite(c, patch)
       \/ CrashCall(c)
  \/ Remove

BudgetSpec == BudgetInit /\ [][BudgetNext]_budgetVars

-----------------------------------------------------------------------------
(* Properties                                                              *)

(* Until a PATCH of the budget crosses another write, the counters of the  *)
(* budget are those the account was created with and the sums of its       *)
(* ledger rows, however allocations, consumption, limit changes and        *)
(* patches interleave.  (A PATCH that does cross one writes old counters   *)
(* back while the rows stay.)  And even then an account never shows more   *)
(* use than allocation, unless it was created so and has used nothing      *)
(* since: what the PATCH writes back are two counters it read together.    *)
(* Only a PATCH that sets the counters itself, as the schema allows        *)
(* (account.validation.ts:20), may leave anything there.                   *)
BudgetMatchesRows ==
  /\ overwritten = {} => /\ doc["used"] = opened.used + rows.charged
                         /\ doc["allocated"] = opened.allocated + rows.granted
  /\ "counters" \notin overwritten =>
       doc["used"] <= doc["allocated"] \/ doc["used"] = opened.used

(* hierarchy.validator.ts:16, the 404 of the allocation endpoints: "Account *)
(* does not exist under the given org (wrong account or wrong org)".       *)
NotFoundIsTrue ==
  [][\A c \in Calls :
        (answer'[c] = "not found" /\ answer[c] # "not found") => deleted]_budgetVars

=============================================================================
