------------------------------ MODULE MCCredit ------------------------------
(* The credit store, the budget of one account, the plan of one            *)
(* organization and its rate card, each on its own: `focus` says which of  *)
(* them moves.                                                             *)
EXTENDS CreditTxn, AccountBudget, PlanChanges, RateCard, TLC

CONSTANTS o1, a1

VARIABLE focus

MCOrgOf == a1 :> o1
MCMaxAccounts == [starter |-> 1, pro |-> 2]
(* Requests that ask for another credit_limit, and one that sets a counter. *)
MCPatches == {[limit |-> l] : l \in NewLimits} \cup {[used |-> 2]}
(* The store has an account created empty or with a credit, and PATCH      *)
(* requests for its limit or its counter; the budget one created empty or  *)
(* overdrawn.                                                              *)
MCBudgetBodies == {[limit |-> 0], [allocated |-> 1], [used |-> 2]}
MCBodies == {[limit |-> 0], [allocated |-> 1, used |-> 2]}
Symmetry ==
  Permutations(Sessions) \cup Permutations(Calls) \cup Permutations(Requests)

MCDefaultRates == [signal |-> 1, action |-> 2]
(* A rate of nothing for one kind of work, and another for the other.      *)
MCRateBodies == {[signal |-> 0], [action |-> 3]}

MCInit ==
  /\ TxnInit /\ BudgetInit /\ PlanInit /\ RatesInit
  /\ focus \in {"store", "accounts", "budget", "plan", "rates"}
  /\ focus # "accounts" =>
       opening[a1] = [allocated |-> 0, used |-> 0, granted |-> 0, charged |-> 0]
  /\ focus # "budget" => opened = [allocated |-> 0, used |-> 0]

(* Bound: two transactions at a time while nobody writes a budget by hand, *)
(* one at a time, a purchase or one of an account, beside PATCH requests.  *)
StoreNext == TxnNext /\ UNCHANGED edit
AccountsNext ==
  /\ TxnNext
  /\ \A s, t \in Sessions : session'[s] # Idle /\ session'[t] # Idle => s = t
  /\ UNCHANGED <<reserved, lifetime_used>> /\ credited'[o1]["refund"] = 0
  /\ charged'[a1] <= MaxIssued

MCNext ==
  \/ focus = "store" /\ StoreNext /\ UNCHANGED <<budgetVars, planVars, rateVars, focus>>
  \/ focus = "accounts" /\ AccountsNext /\ UNCHANGED <<budgetVars, planVars, rateVars, focus>>
  \/ focus = "budget" /\ BudgetNext /\ UNCHANGED <<txnVars, planVars, rateVars, focus>>
  \/ focus = "plan" /\ PlanNext /\ UNCHANGED <<txnVars, budgetVars, rateVars, focus>>
  \/ focus = "rates" /\ RatesNext /\ UNCHANGED <<txnVars, budgetVars, planVars, focus>>

MCSpec == MCInit /\ [][MCNext]_<<txnVars, budgetVars, planVars, rateVars, focus>>

(* The money of an account is where its records say: the counters of its   *)
(* budget agree with the ledger rows (credit-allocation.service.ts,        *)
(* credit-consumption.service.ts), and the charges with the logged rates   *)
(* (credit-rates.service.ts:89).                                           *)
RecordsExplainAccounts == BudgetMatchesRows /\ ChargesAreExplained
=============================================================================
