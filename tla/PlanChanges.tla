---------------------------- MODULE PlanChanges ----------------------------
(***************************************************************************)
(* The subscription of one organization: StripeService.ensureCustomerForOrg *)
(* and subscribeOrgToPlan, PlanService.changePlan, and the accounts whose  *)
(* number the plan limits (AccountService.create, PlanLimitsValidator).    *)
(* Every request reads the organization, talks to Stripe and writes the    *)
(* organization in separate awaits; nothing holds them together.           *)
(***************************************************************************)
EXTENDS Integers, Sequences, FiniteSets

CONSTANTS
  Requests,       \* requests in flight
  Kinds,          \* the requests made: "create", "change", "subscribe"
  Tiers,          \* plans
  MaxAccounts,    \* max_accounts of each plan
  FirstTier,      \* the plan an organization starts with
  MaxObjects,     \* bound: customers, subscriptions, accounts ever created
  MaxCrashes      \* bound: calls that die half way

ASSUME MaxAccountsAssumption == MaxAccounts \in [Tiers -> Nat]
ASSUME RequestsAssumption == IsFiniteSet(Requests) /\ Requests # {}
ASSUME FirstTierAssumption == FirstTier \in Tiers

None == 0

VARIABLES
  customer,      \* organization: stripe.customer_id, or None
  subscription,  \* organization: stripe.subscription_id, or None
  plan,          \* organization: stripe.plan_key and subscription.tier
  accounts,      \* number of accounts that are not deleted
  created,       \* accounts ever created
  customers,     \* Stripe: number of customers of the organization
  subs,          \* Stripe: its subscriptions, each with the plan it bills
  request,
  crashes,
  seen           \* history: what has happened of "overlap" (a request was made
                 \* while another was in flight), "forced" (a subscription was
                 \* set by a platform admin) and "changed" (the plan was)

orgDoc == <<customer, subscription, plan>>
atStripe == <<customers, subs>>
planVars == <<orgDoc, atStripe, accounts, created, request, crashes, seen>>

NoRequest == [pc |-> "idle"]

PlanInit ==
  /\ customer = None /\ subscription = None /\ plan = FirstTier
  /\ accounts = 0 /\ created = 0
  /\ customers = 0 /\ subs = << >>
  /\ request = [c \in Requests |-> NoRequest]
  /\ crashes = 0
  /\ seen = {}

Ask(c, kind, tier) ==
  /\ request[c] = NoRequest
  /\ request' = [request EXCEPT ![c] = [kind |-> kind, pc |-> "read", plan |-> tier]]
  /\ seen' = seen \cup {s \in {"overlap"} : \E d \in Requests : request[d] # NoRequest}
  /\ UNCHANGED <<orgDoc, atStripe, accounts, created, crashes>>

At(c, kind, pc) == request[c].pc = pc /\ request[c].kind = kind
Goto(c, pc) == request' = [request EXCEPT ![c].pc = pc]
Done(c) == request' = [request EXCEPT ![c] = NoRequest]

-----------------------------------------------------------------------------
(* AccountService.create                                                   *)

(* assertCanCreateAccount resolves the plan ...                            *)
ReadPlan(c) ==
  /\ At(c, "create", "read")
  /\ request' = [request EXCEPT ![c] = [kind |-> "create", pc |-> "count", plan |-> plan]]
  /\ UNCHANGED <<orgDoc, atStripe, accounts, created, crashes, seen>>

(* ... counts the accounts, and refuses at the limit;                      *)
CountAccounts(c) ==
  /\ At(c, "create", "count")
  /\ IF accounts >= MaxAccounts[request[c].plan] THEN Done(c) ELSE Goto(c, "insert")
  /\ UNCHANGED <<orgDoc, atStripe, accounts, created, crashes, seen>>

(* then the account is created.                                            *)
InsertAccount(c) ==
  /\ At(c, "create", "insert")
  /\ created < MaxObjects
  /\ accounts' = accounts + 1
  /\ created' = created + 1
  /\ Done(c)
  /\ UNCHANGED <<orgDoc, atStripe, crashes, seen>>

(* DELETE /accounts/:id.                                                   *)
DropAccount ==
  /\ accounts > 0
  /\ accounts' = accounts - 1
  /\ UNCHANGED <<orgDoc, atStripe, created, request, crashes, seen>>

-----------------------------------------------------------------------------
(* PlanService.changePlan                                                  *)

IsDowngrade(from, to) == MaxAccounts[to] < MaxAccounts[from]

(* The organization and its tier are read; only a downgrade is checked.    *)
ReadOrg(c) ==
  /\ At(c, "change", "read")
  /\ Goto(c, IF IsDowngrade(plan, request[c].plan) THEN "limits" ELSE "apply")
  /\ UNCHANGED <<orgDoc, atStripe, accounts, created, crashes, seen>>

(* Mutant: assertWithinLimitsForTier looks at the plan that is left.       *)
CheckLimits_OldPlan(c) ==
  /\ At(c, "change", "limits")
  /\ IF accounts > MaxAccounts[plan] THEN Done(c) ELSE Goto(c, "apply")
  /\ UNCHANGED <<orgDoc, atStripe, accounts, created, crashes, seen>>

(* assertWithinLimitsForTier.                                              *)
CheckLimits(c) ==
  /\ At(c, "change", "limits")
  /\ IF accounts > MaxAccounts[request[c].plan] THEN Done(c) ELSE Goto(c, "apply")
  /\ UNCHANGED <<orgDoc, atStripe, accounts, created, crashes, seen>>

(* applyPlanToOrg, when there is no Stripe customer.                       *)
ApplyPlan(c) ==
  /\ At(c, "change", "apply")
  /\ customer = None
  /\ plan' = request[c].plan
  /\ Done(c)
  /\ seen' = seen \cup {"changed"}
  /\ UNCHANGED <<customer, subscription, atStripe, accounts, created, crashes>>

(* changeOrgSubscriptionPlan at Stripe: the subscription stored on the     *)
(* organization bills the new plan, or a first one is created.             *)
ChangeSubscription(c) ==
  /\ At(c, "change", "apply")
  /\ customer # None
  /\ IF subscription # None
     THEN /\ subs' = [subs EXCEPT ![subscription] = request[c].plan]
          /\ request' = [request EXCEPT ![c] = [kind |-> "change", pc |-> "store",
                                          plan |-> request[c].plan, sub |-> subscription]]
     ELSE /\ Len(subs) < MaxObjects
          /\ subs' = Append(subs, request[c].plan)
          /\ request' = [request EXCEPT ![c] = [kind |-> "change", pc |-> "store",
                                          plan |-> request[c].plan, sub |-> Len(subs) + 1]]
  /\ UNCHANGED <<orgDoc, customers, accounts, created, crashes, seen>>

-----------------------------------------------------------------------------
(* StripeService.subscribeOrgToPlan                                        *)

(* ensureCustomerForOrg: is there a customer?                              *)
ReadCustomer(c) ==
  /\ At(c, "subscribe", "read")
  /\ Goto(c, IF customer # None THEN "subscribe" ELSE "customer")
  /\ UNCHANGED <<orgDoc, atStripe, accounts, created, crashes, seen>>

(* If not, one is created at Stripe, then stored.                          *)
CreateCustomer(c) ==
  /\ At(c, "subscribe", "customer")
  /\ customers < MaxObjects
  /\ customers' = customers + 1
  /\ request' = [request EXCEPT ![c] = [kind |-> "subscribe", pc |-> "save",
                                  plan |-> request[c].plan, customer |-> customers + 1]]
  /\ UNCHANGED <<orgDoc, subs, accounts, created, crashes, seen>>

SaveCustomer(c) ==
  /\ At(c, "subscribe", "save")
  /\ customer' = request[c].customer
  /\ Goto(c, "subscribe")
  /\ UNCHANGED <<subscription, plan, atStripe, accounts, created, crashes, seen>>

(* createSubscription.                                                     *)
Subscribe(c) ==
  /\ At(c, "subscribe", "subscribe")
  /\ Len(subs) < MaxObjects
  /\ subs' = Append(subs, request[c].plan)
  /\ request' = [request EXCEPT ![c] = [kind |-> "subscribe", pc |-> "store",
                                  plan |-> request[c].plan, sub |-> Len(subs) + 1]]
  /\ UNCHANGED <<orgDoc, customers, accounts, created, crashes, seen>>

(* Mutant: the plan is left out of the $set.                               *)
Store_KeepsPlan(c) ==
  /\ request[c].pc = "store"
  /\ subscription' = request[c].sub
  /\ Done(c)
  /\ UNCHANGED <<customer, plan, atStripe, accounts, created, crashes, seen>>

(* Last step of both: the organization shows what Stripe was told.         *)
Store(c) ==
  /\ request[c].pc = "store"
  /\ subscription' = request[c].sub
  /\ plan' = request[c].plan
  /\ Done(c)
  /\ seen' = seen \cup {"changed"} \cup {s \in {"forced"} : request[c].kind = "subscribe"}
  /\ UNCHANGED <<customer, atStripe, accounts, created, crashes>>

(* The process dies or a call of Stripe or of the database fails.          *)
CrashRequest(c) ==
  /\ request[c] # NoRequest
  /\ crashes < MaxCrashes
  /\ crashes' = crashes + 1
  /\ Done(c)
  /\ UNCHANGED <<orgDoc, atStripe, accounts, created, seen>>

PlanNext ==
  \/ \E c \in Requests :
       \/ \E kind \in Kinds, tier \in Tiers : Ask(c, kind, tier)
       \/ ReadPlan(c) \/ CountAccounts(c) \/ InsertAccount(c)
       \/ ReadOrg(c) \/ CheckLimits(c) \/ ApplyPlan(c) \/ ChangeSubscription(c)
       \/ ReadCustomer(c) \/ CreateCustomer(c) \/ SaveCustomer(c) \/ Subscribe(c)
       \/ Store(c) \/ CrashRequest(c)
  \/ DropAccount

PlanSpec == PlanInit /\ [][PlanNext]_planVars

-----------------------------------------------------------------------------
(* Properties                                                              *)

(* plan-limits.validator.ts:72, "Account limit reached for ... plan (...   *)
(* max)".  As long as requests come one at a time and no platform admin    *)
(* sets the subscription, the accounts fit the plan, through downgrades    *)
(* and requests that die half way.  Requests that create accounts at the   *)
(* same time exceed the limit, but by no more than the requests that were  *)
(* past the check together.                                                *)
AccountsFitThePlan ==
  /\ seen \cap {"overlap", "forced"} = {} => accounts <= MaxAccounts[plan]
  /\ "changed" \notin seen => accounts < MaxAccounts[plan] + Cardinality(Requests)

(* The plan the organization shows is the one its subscription bills.      *)
ShownPlanIsBilled == subscription # None => subs[subscription] = plan

(* When requests come one at a time, a change that is answered leaves      *)
(* shown and billed plan in agreement, also when an earlier one died       *)
(* between Stripe and the database: to repeat a change repairs it.         *)
AnsweredChangeAgrees ==
  [][\A c \in Requests :
       (/\ "overlap" \notin seen
        /\ request[c].pc = "store" /\ request'[c] = NoRequest /\ crashes' = crashes)
          => ShownPlanIsBilled']_planVars

=============================================================================
