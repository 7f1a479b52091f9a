---------------------------- MODULE CreditLedger ----------------------------
(***************************************************************************)
(* The credit store of the backend (src/backend/src/modules/credits): one  *)
(* `credits` document per organization (the pool), the budget part of each *)
(* `accounts` document, and the `credit_transactions` collection.          *)
(*                                                                         *)
(* Each operation of CreditService, CreditAllocationService and            *)
(* CreditConsumptionService that moves credits runs inside one MongoDB     *)
(* transaction, so it is one action here; CreditTxn.tla opens the          *)
(* transactions up and shows that they implement this module.  A request   *)
(* the code refuses (it throws) changes nothing, so it is a stuttering     *)
(* step.                                                                   *)
(*                                                                         *)
(* The collection of ledger rows is kept as the sums that can be read off  *)
(* it: per organization and type for the rows written by CreditService     *)
(* (positive rows in `credited`, negative ones in `debited`), per account  *)
(* for the "allocation" rows of CreditAllocationService (`granted`) and    *)
(* the "consumption" rows of CreditConsumptionService (`charged`);         *)
(* `moved` is the per-organization total of the `granted` rows.            *)
(*                                                                         *)
(* The counters of an account also change without a row: POST /accounts    *)
(* and PATCH /accounts/:id take them from the body, and the PATCH writes   *)
(* the whole budget back from a document it read before.  `opening` keeps  *)
(* what was last written by hand, and the rows there were at that time.    *)
(***************************************************************************)
EXTENDS Integers

CONSTANTS
  Orgs,             \* organization ids
  Accounts,         \* account ids
  OrgOf,            \* the org_id of each account
  Amounts,          \* amounts a request may name
  Limits,           \* values budget.credit_limit may be set to (0: no limit)
  BudgetBodies,     \* what a body of POST or PATCH may say of a budget
  Editors,          \* PATCH requests that may be in flight
  MaxIssued,        \* bound: credits ever added to one pool
  ValidatorStubbed  \* TRUE: HierarchyValidator accepts everything, as the
                    \* stub of credit-allocation.service.unit.test.ts does

ASSUME OrgOfAssumption == OrgOf \in [Accounts -> Orgs]
ASSUME AmountsAssumption == Amounts \subseteq Nat \ {0}
ASSUME LimitsAssumption == Limits \subseteq Nat
ASSUME BodiesAssumption ==
  \A body \in BudgetBodies :
    DOMAIN body \subseteq {"limit", "allocated", "used"} /\ \A f \in DOMAIN body : body[f] \in Int
ASSUME BoundAssumption == MaxIssued \in Nat
ASSUME StubAssumption == ValidatorStubbed \in BOOLEAN

VARIABLES
  \* the `credits` document of each organization
  balance, reserved, lifetime_purchased, lifetime_used,
  \* the `accounts` documents and their budget
  status, is_deleted, credit_limit, allocated_credits, used_credits,
  \* the `credit_transactions` rows
  credited,   \* sum of the positive pool rows, per organization and type
  debited,    \* minus the sum of the negative pool rows
  moved,      \* sum of the rows that moved credits to accounts, per organization
  granted,    \* sum of the allocation rows of an account
  charged,    \* minus the sum of the consumption rows of an account
  \* requests of AccountService, and history
  edit,       \* the account each PATCH has read, and its budget
  opening     \* history: the counters of an account as they were last written
              \* by hand, and the sums of its rows at that time

pool == <<balance, reserved, lifetime_purchased, lifetime_used>>
budget == <<credit_limit, allocated_credits, used_credits>>
lifecycle == <<status, is_deleted>>
poolLedger == <<credited, debited>>
accountLedger == <<moved, granted, charged>>
byHand == <<edit, opening>>
vars == <<pool, budget, lifecycle, poolLedger, accountLedger, byHand>>

NoEdit == [pc |-> "idle"]
Budgets == [limit : Int, allocated : Int, used : Int]
Openings == [allocated : Int, used : Int, granted : Nat, charged : Nat]

(* CreditTransactionType, by the sign applyTransaction accepts it with.    *)
CreditTypes == {"purchase", "allocation", "refund", "expiry"}
DebitTypes == {"consumption", "expiry"}

TypeOK ==
  /\ balance \in [Orgs -> Nat]
  /\ reserved \in [Orgs -> Nat]
  /\ lifetime_purchased \in [Orgs -> Nat]
  /\ lifetime_used \in [Orgs -> Nat]
  /\ status \in [Accounts -> {"active", "inactive"}]
  /\ is_deleted \in [Accounts -> BOOLEAN]
  /\ credit_limit \in [Accounts -> Int]
  /\ allocated_credits \in [Accounts -> Int]
  /\ used_credits \in [Accounts -> Int]
  /\ credited \in [Orgs -> [CreditTypes -> Nat]]
  /\ debited \in [Orgs -> [DebitTypes -> Nat]]
  /\ moved \in [Orgs -> Nat]
  /\ granted \in [Accounts -> Nat]
  /\ charged \in [Accounts -> Nat]
  /\ edit \in [Editors -> {NoEdit} \cup [acc : Accounts, read : Budgets]]
  /\ opening \in [Accounts -> Openings]

Credited(o) == credited[o]["purchase"] + credited[o]["allocation"]
               + credited[o]["refund"] + credited[o]["expiry"]
Debited(o) == debited[o]["consumption"] + debited[o]["expiry"]

(* Mutant: the availability check forgets the holds.                       *)
Available_NoHolds(o) == balance[o]

Available(o) == balance[o] - reserved[o]
Remaining(a) == allocated_credits[a] - used_credits[a]

-----------------------------------------------------------------------------

(* { ...existing.budget, ...input.budget }.                                *)
MergedBudget(b, body) ==
  LET Field(f, v) == IF f \in DOMAIN body THEN body[f] ELSE v
  IN [limit |-> Field("limit", b.limit), allocated |-> Field("allocated", b.allocated),
      used |-> Field("used", b.used)]

(* AccountService.create: what the body leaves out is 0.                   *)
CreatedBudgets ==
  {MergedBudget([limit |-> 0, allocated |-> 0, used |-> 0], body) : body \in BudgetBodies}

(* A pool without a `credits` document is the zero document that           *)
(* loadCreditForUpdate and getOrCreate write before they use it.  The      *)
(* accounts are as they were created.                                      *)
Init ==
  /\ balance = [o \in Orgs |-> 0]
  /\ reserved = [o \in Orgs |-> 0]
  /\ lifetime_purchased = [o \in Orgs |-> 0]
  /\ lifetime_used = [o \in Orgs |-> 0]
  /\ status = [a \in Accounts |-> "active"]
  /\ is_deleted = [a \in Accounts |-> FALSE]
  /\ \E created \in [Accounts -> CreatedBudgets] :
       /\ credit_limit = [a \in Accounts |-> created[a].limit]
       /\ allocated_credits = [a \in Accounts |-> created[a].allocated]
       /\ used_credits = [a \in Accounts |-> created[a].used]
  /\ opening = [a \in Accounts |-> [allocated |-> allocated_credits[a],
                                   used |-> used_credits[a], granted |-> 0, charged |-> 0]]
  /\ edit = [e \in Editors |-> NoEdit]
  /\ credited = [o \in Orgs |-> [t \in CreditTypes |-> 0]]
  /\ debited = [o \in Orgs |-> [t \in DebitTypes |-> 0]]
  /\ moved = [o \in Orgs |-> 0]
  /\ granted = [a \in Accounts |-> 0]
  /\ charged = [a \in Accounts |-> 0]

-----------------------------------------------------------------------------
(* CreditService                                                           *)

(* addCredits, and applyTransaction with a positive amount.                *)
AddCredits(o, t, n) ==
  /\ Credited(o) + n <= MaxIssued
  /\ balance' = [balance EXCEPT ![o] = @ + n]
  /\ lifetime_purchased' =
       IF t \in {"purchase", "allocation"}
       THEN [lifetime_purchased EXCEPT ![o] = @ + n]
       ELSE lifetime_purchased
  /\ credited' = [credited EXCEPT ![o][t] = @ + n]
  /\ UNCHANGED <<reserved, lifetime_used, budget, lifecycle, debited, accountLedger,
                 byHand>>

(* consumeCredits, and applyTransaction with a negative amount.            *)
Debit(o, t, n) ==
  /\ Available(o) >= n
  /\ balance' = [balance EXCEPT ![o] = @ - n]
  /\ lifetime_used' = [lifetime_used EXCEPT ![o] = @ + n]
  /\ debited' = [debited EXCEPT ![o][t] = @ + n]
  /\ UNCHANGED <<reserved, lifetime_purchased, budget, lifecycle, credited, accountLedger,
                 byHand>>

ReserveCredits(o, n) ==
  /\ Available(o) >= n
  /\ reserved' = [reserved EXCEPT ![o] = @ + n]
  /\ UNCHANGED <<balance, lifetime_purchased, lifetime_used, budget, lifecycle,
                 poolLedger, accountLedger, byHand>>

ReleaseReserved(o, n) ==
  /\ reserved[o] >= n
  /\ reserved' = [reserved EXCEPT ![o] = @ - n]
  /\ UNCHANGED <<balance, lifetime_purchased, lifetime_used, budget, lifecycle,
                 poolLedger, accountLedger, byHand>>

CommitReservedConsumption(o, n) ==
  /\ reserved[o] >= n
  /\ balance[o] >= n
  /\ reserved' = [reserved EXCEPT ![o] = @ - n]
  /\ balance' = [balance EXCEPT ![o] = @ - n]
  /\ lifetime_used' = [lifetime_used EXCEPT ![o] = @ + n]
  /\ debited' = [debited EXCEPT ![o]["consumption"] = @ + n]
  /\ UNCHANGED <<lifetime_purchased, budget, lifecycle, credited, accountLedger,
                 byHand>>

-----------------------------------------------------------------------------
(* HierarchyValidator.assertAccountBelongsToOrg(accountId, orgId).         *)
AccountBelongsToOrg(accountId, orgId) ==
  \E a \in Accounts : /\ a = accountId
                      /\ OrgOf[a] = orgId
                      /\ ~is_deleted[a]

(* The documents the queries with {_id, org_id, is_deleted: false} and     *)
(* status "active" match.                                                  *)
ActiveAccountOf(o, a) ==
  /\ AccountBelongsToOrg(a, o)
  /\ status[a] = "active"

(* Mutant: the limit is compared with the use.                             *)
WithinLimit_OfUse(a, n) ==
  credit_limit[a] > 0 => used_credits[a] + n <= credit_limit[a]

WithinLimit(a, n) ==
  credit_limit[a] > 0 => allocated_credits[a] + n <= credit_limit[a]

(* CreditAllocationService.allocateToAccount.  The call of the validator   *)
(* has the organization and the account the wrong way round.               *)
AllocateToAccount(o, a, n) ==
  /\ ValidatorStubbed \/ AccountBelongsToOrg(o, a)
  /\ ActiveAccountOf(o, a)
  /\ WithinLimit(a, n)
  /\ Available(o) >= n
  /\ balance' = [balance EXCEPT ![o] = @ - n]
  /\ allocated_credits' = [allocated_credits EXCEPT ![a] = @ + n]
  /\ moved' = [moved EXCEPT ![o] = @ + n]
  /\ granted' = [granted EXCEPT ![a] = @ + n]
  /\ UNCHANGED <<reserved, lifetime_purchased, lifetime_used, credit_limit,
                 used_credits, lifecycle, poolLedger, charged, byHand>>

(* CreditConsumptionService.consumeCredits: the conditional $inc of        *)
(* used_credits and its ledger row.                                        *)
ConsumeFromAccount(o, a, n) ==
  /\ ActiveAccountOf(o, a)
  /\ Remaining(a) >= n
  /\ used_credits' = [used_credits EXCEPT ![a] = @ + n]
  /\ charged' = [charged EXCEPT ![a] = @ + n]
  /\ UNCHANGED <<pool, credit_limit, allocated_credits, lifecycle, poolLedger,
                 moved, granted, byHand>>

-----------------------------------------------------------------------------
(* The single-document writes of other services to the account.            *)

(* AccountBudgetService.setLimit.                                          *)
SetLimit(o, a, l) ==
  /\ AccountBelongsToOrg(a, o)
  /\ credit_limit' = [credit_limit EXCEPT ![a] = l]
  /\ UNCHANGED <<pool, allocated_credits, used_credits, lifecycle, poolLedger,
                 accountLedger, byHand>>

(* AccountService.update with a status and no budget.                      *)
SetStatus(o, a, s) ==
  /\ AccountBelongsToOrg(a, o)
  /\ status' = [status EXCEPT ![a] = s]
  /\ UNCHANGED <<pool, budget, is_deleted, poolLedger, accountLedger, byHand>>

(* AccountService.update with a budget: findByIdForOrg first ...           *)
ReadBudget(o, a, e) ==
  /\ AccountBelongsToOrg(a, o)
  /\ edit[e] = NoEdit
  /\ edit' = [edit EXCEPT ![e] =
       [acc |-> a, read |-> [limit |-> credit_limit[a], allocated |-> allocated_credits[a],
                             used |-> used_credits[a]]]]
  /\ UNCHANGED <<pool, budget, lifecycle, poolLedger, accountLedger, opening>>

(* ... then the merge replaces the whole budget, with the status the body  *)
(* names or the one the account has.  Counters other than those the        *)
(* account has are written by hand.                                        *)
PatchBudget(o, a, e, body, s) ==
  /\ AccountBelongsToOrg(a, o)
  /\ edit[e] # NoEdit /\ edit[e].acc = a
  /\ LET b == MergedBudget(edit[e].read, body)
     IN /\ credit_limit' = [credit_limit EXCEPT ![a] = b.limit]
        /\ allocated_credits' = [allocated_credits EXCEPT ![a] = b.allocated]
        /\ used_credits' = [used_credits EXCEPT ![a] = b.used]
        /\ opening' =
             IF b.allocated = allocated_credits[a] /\ b.used = used_credits[a]
             THEN opening
             ELSE [opening EXCEPT ![a] =
                     [allocated |-> b.allocated, used |-> b.used,
                      granted |-> granted[a], charged |-> charged[a]]]
  /\ status' = [status EXCEPT ![a] = s]
  /\ edit' = [edit EXCEPT ![e] = NoEdit]
  /\ UNCHANGED <<pool, is_deleted, poolLedger, accountLedger>>

(* The account was removed in between (the service answers null), or the   *)
(* request dies.                                                           *)
DropEdit(e) ==
  /\ edit[e] # NoEdit
  /\ edit' = [edit EXCEPT ![e] = NoEdit]
  /\ UNCHANGED <<pool, budget, lifecycle, poolLedger, accountLedger, opening>>

(* AccountService.remove.                                                  *)
RemoveAccount(o, a) ==
  /\ AccountBelongsToOrg(a, o)
  /\ is_deleted' = [is_deleted EXCEPT ![a] = TRUE]
  /\ UNCHANGED <<pool, budget, status, poolLedger, accountLedger, byHand>>

PoolNext(o) ==
  \E n \in Amounts :
    \/ \E t \in CreditTypes : AddCredits(o, t, n)
    \/ \E t \in DebitTypes : Debit(o, t, n)
    \/ ReserveCredits(o, n)
    \/ ReleaseReserved(o, n)
    \/ CommitReservedConsumption(o, n)

AccountNext(o, a) ==
  \/ \E n \in Amounts : AllocateToAccount(o, a, n) \/ ConsumeFromAccount(o, a, n)
  \/ \E l \in Limits : SetLimit(o, a, l)
  \/ \E s \in {"active", "inactive"} : SetStatus(o, a, s)
  \/ RemoveAccount(o, a)
  \/ \E e \in Editors :
       \/ ReadBudget(o, a, e)
       \/ \E body \in BudgetBodies, s \in {"active", "inactive"} :
            PatchBudget(o, a, e, body, s)

Next ==
  \/ \E o \in Orgs : PoolNext(o) \/ \E a \in Accounts : AccountNext(o, a)
  \/ \E e \in Editors : DropEdit(e)

Spec == Init /\ [][Next]_vars

-----------------------------------------------------------------------------
(* Properties                                                              *)

(* A hold can always be honoured: the credits reserveCredits set aside are *)
(* still in the pool, so no debit or allocation spent them and             *)
(* commitReservedConsumption's second check never fails.                   *)
ReservedIsCovered == \A o \in Orgs : reserved[o] <= balance[o]

(* "for audit and reconciliation": the balance of a pool is what its       *)
(* ledger rows say it is, whatever mix of purchases, debits, committed     *)
(* reservations and allocations produced it.                               *)
PoolReconciles ==
  \A o \in Orgs : balance[o] = Credited(o) - Debited(o) - moved[o]

(* The lifetime counters of the pool agree with the ledger: only purchases *)
(* and allocations count as purchased, every negative row as used.         *)
LifetimeReconciles ==
  \A o \in Orgs :
    /\ lifetime_purchased[o] = credited[o]["purchase"] + credited[o]["allocation"]
    /\ lifetime_used[o] = Debited(o)

(* The budget of an account is what was last written by hand and the rows  *)
(* since say, whatever a PATCH that reads first and writes later crosses.  *)
(* And consumption never overspends: an account whose use exceeds its      *)
(* allocation has used nothing since somebody wrote it so.                 *)
BudgetReconciles ==
  \A a \in Accounts :
    /\ allocated_credits[a] = opening[a].allocated + (granted[a] - opening[a].granted)
    /\ used_credits[a] = opening[a].used + (charged[a] - opening[a].charged)
    /\ used_credits[a] > allocated_credits[a] => charged[a] = opening[a].charged

(* The documents the services read and the rows they insert tell the same  *)
(* story: an audit that adds up the rows finds every stored total, for an  *)
(* account on top of the counters that were last written by hand.          *)
LedgerReconciles == PoolReconciles /\ LifetimeReconciles /\ BudgetReconciles

(* The modules promise what CreditFlow says: every step moves credits from *)
(* one place to the next, so none is in two places or in none, unless an   *)
(* administrator states the counters of an account.  Read through the      *)
(* documents, a credit of the pool is held or free, and one of an account  *)
(* used or not.                                                            *)
Flow == INSTANCE CreditFlow
          WITH free <- [o \in Orgs |-> balance[o] - reserved[o]],
               held <- reserved,
               spent <- lifetime_used,
               unused <- [a \in Accounts |-> allocated_credits[a] - used_credits[a]],
               used <- used_credits,
               stated <- opening

ImplementsFlow == Flow!FlowSpec

(* No step raises an account's allocation past the limit in force, even    *)
(* though setLimit may leave an older allocation above a lowered limit;    *)
(* only a PATCH that writes the counters itself may.                       *)
AllocationRespectsLimit ==
  [][\A a \in Accounts :
        (allocated_credits'[a] > allocated_credits[a] /\ opening'[a] = opening[a]) =>
          \/ credit_limit[a] <= 0
          \/ allocated_credits'[a] <= credit_limit[a]]_vars

(* No credit moves in or out of an inactive or removed account, whose      *)
(* counters only a PATCH may then write, and those of a removed one        *)
(* nothing; and a removed account never comes back.                        *)
InactiveBudgetIsFrozen ==
  [][\A a \in Accounts :
        (is_deleted[a] \/ status[a] = "inactive") =>
          /\ granted'[a] = granted[a] /\ charged'[a] = charged[a]
          /\ \/ allocated_credits'[a] = allocated_credits[a] /\ used_credits'[a] = used_credits[a]
             \/ ~is_deleted[a] /\ opening'[a] # opening[a]
          /\ is_deleted[a] => is_deleted'[a]]_vars

=============================================================================
