--------------------------- MODULE StripeWebhooks ---------------------------
(***************************************************************************)
(* POST /api/billing/stripe/webhook: the events of one organization's      *)
(* Stripe customer, delivered at least once and in any order, and the      *)
(* handlers of StripeWebhookService and CreditPurchaseService, one action  *)
(* per await that reads or writes something.                               *)
(*                                                                         *)
(* The organization exists and its customer_id is set.  Adding purchased   *)
(* credits is the AddCredits of CreditLedger, a transaction.               *)
(***************************************************************************)
EXTENDS Integers, FiniteSets

CONSTANTS
  Requests,         \* webhook requests the backend can be handling
  PaymentIntents,   \* credit packs paid for
  Invoices,         \* invoices of the subscription
  MaxRequestFaults, \* bound: requests that fail or go unanswered
  MaxCatalogSyncs   \* bound: POST .../catalog/sync after the subscription

ASSUME BoundsAssumption == MaxRequestFaults \in Nat /\ MaxCatalogSyncs \in Nat

Event(t, o) == [type |-> t, object |-> o]
Paid(i) == Event("invoice.paid", i)
Failed(i) == Event("invoice.payment_failed", i)
Succeeded(pi) == Event("payment_intent.succeeded", pi)
Deleted == Event("customer.subscription.deleted", "subscription")

Events == {Succeeded(pi) : pi \in PaymentIntents} \cup {Deleted}
          \cup {Paid(i) : i \in Invoices} \cup {Failed(i) : i \in Invoices}

VARIABLES
  \* at Stripe
  happened,     \* events created
  acked,        \* events answered with a 2xx
  \* in the backend
  req,          \* what each request is doing
  purchases,    \* "purchase" rows of the ledger, per payment intent
  applied,      \* billing.allocated_credits: how often each invoice was added to it
  status,       \* of the organization
  contractStatus,     \* status of its contract
  catalog,      \* the price ids stored on the organization: how often replaced
  requestFaults,
  crossed       \* history: payments two requests have handled at the same time

stripe == <<happened, acked>>
books == <<purchases, applied>>
org == <<status, contractStatus>>
webhookVars == <<stripe, req, books, org, catalog, requestFaults, crossed>>

Idle == [pc |-> "idle"]

(* The organization has a subscription and an active contract.             *)
WebhooksInit ==
  /\ happened = {} /\ acked = {}
  /\ req = [r \in Requests |-> Idle]
  /\ purchases = [pi \in PaymentIntents |-> 0]
  /\ applied = [i \in Invoices |-> 0]
  /\ status = "active" /\ contractStatus = "active"
  /\ catalog = 0
  /\ requestFaults = 0
  /\ crossed = {}

-----------------------------------------------------------------------------
(* Stripe                                                                  *)

(* An invoice is paid once, perhaps after a failed attempt; a deleted      *)
(* subscription has no more invoices.                                      *)
Happens(e) ==
  /\ e \notin happened
  /\ e.object \in Invoices => Deleted \notin happened /\ Paid(e.object) \notin happened
  /\ happened' = happened \cup {e}
  /\ UNCHANGED <<acked, req, books, org, catalog, requestFaults, crossed>>

(* First await of the handler of each event type.                          *)
Entry(e) ==
  CASE e.type = "payment_intent.succeeded" -> "lookup"
    [] OTHER -> "resolve"

(* Stripe sends an event until it is answered, and does not wait for an    *)
(* answer to send it again.                                                *)
Deliver(r, e) ==
  /\ req[r] = Idle
  /\ e \in happened \ acked
  /\ req' = [req EXCEPT ![r] = [ev |-> e, pc |-> Entry(e)]]
  /\ crossed' = IF \E q \in Requests : req[q] # Idle /\ req[q].ev = e
                THEN crossed \cup ({e.object} \cap PaymentIntents) ELSE crossed
  /\ UNCHANGED <<stripe, books, org, catalog, requestFaults>>

RequestAt(r, pc) == req' = [req EXCEPT ![r].pc = pc]

-----------------------------------------------------------------------------
(* CreditPurchaseService.handlePaymentSuccess                              *)

(* Mutant: the description is not looked up.                               *)
Lookup_Skipped(r) ==
  /\ req[r].pc = "lookup"
  /\ RequestAt(r, "credit")
  /\ UNCHANGED <<stripe, books, org, catalog, requestFaults, crossed>>

(* Is there a purchase row with the description of this intent?            *)
Lookup(r) ==
  /\ req[r].pc = "lookup"
  /\ RequestAt(r, IF purchases[req[r].ev.object] > 0 THEN "ack" ELSE "credit")
  /\ UNCHANGED <<stripe, books, org, catalog, requestFaults, crossed>>

(* Mutant: the promise of addCredits is not awaited and fails unseen.      *)
Credit_Lost(r) ==
  /\ req[r].pc = "credit"
  /\ RequestAt(r, "ack")
  /\ purchases' \in {purchases, [purchases EXCEPT ![req[r].ev.object] = @ + 1]}
  /\ UNCHANGED <<stripe, applied, org, catalog, requestFaults, crossed>>

(* addCredits: the pool grows and the row is inserted, in one transaction. *)
Credit(r) ==
  /\ req[r].pc = "credit"
  /\ RequestAt(r, "ack")
  /\ purchases' = [purchases EXCEPT ![req[r].ev.object] = @ + 1]
  /\ UNCHANGED <<stripe, applied, org, catalog, requestFaults, crossed>>

-----------------------------------------------------------------------------
(* handleInvoicePaid                                                       *)

(* creditsForPriceId finds the price of the subscription among the price   *)
(* ids stored on the organization, which a catalog sync replaces.          *)
PriceIsMapped == catalog = 0

(* resolveOrgFromInvoice; an unmapped price ends the handler.              *)
ResolvePaid(r) ==
  /\ req[r].pc = "resolve"
  /\ req[r].ev.type = "invoice.paid"
  /\ RequestAt(r, IF PriceIsMapped THEN "increment" ELSE "ack")
  /\ UNCHANGED <<stripe, books, org, catalog, requestFaults, crossed>>

(* $inc and $set in one update; the audit event that follows may fail      *)
(* unnoticed.                                                              *)
Increment(r) ==
  /\ req[r].pc = "increment"
  /\ RequestAt(r, "ack")
  /\ applied' = [applied EXCEPT ![req[r].ev.object] = @ + 1]
  /\ status' = "active"
  /\ UNCHANGED <<stripe, purchases, contractStatus, catalog, requestFaults, crossed>>

-----------------------------------------------------------------------------
(* handleInvoicePaymentFailed, handleSubscriptionDeleted                   *)

(* Both suspend the organization; one goes on to the notification queue,   *)
(* the other to the contract.                                              *)
Suspend(r) ==
  /\ req[r].pc = "resolve"
  /\ req[r].ev.type # "invoice.paid"
  /\ RequestAt(r, IF req[r].ev = Deleted THEN "terminate" ELSE "notify")
  /\ status' = "suspended"
  /\ UNCHANGED <<stripe, books, contractStatus, catalog, requestFaults, crossed>>

(* queues.notifications.add.                                               *)
Notify(r) ==
  /\ req[r].pc = "notify"
  /\ RequestAt(r, "ack")
  /\ UNCHANGED <<stripe, books, org, catalog, requestFaults, crossed>>

(* findCurrentActiveForOrg, then updateForOrg.                             *)
Terminate(r) ==
  /\ req[r].pc = "terminate"
  /\ RequestAt(r, "ack")
  /\ contractStatus' = "terminated"
  /\ UNCHANGED <<stripe, books, status, catalog, requestFaults, crossed>>

-----------------------------------------------------------------------------

(* res.status(200) reaches Stripe.                                         *)
Ack(r) ==
  /\ req[r].pc = "ack"
  /\ acked' = acked \cup {req[r].ev}
  /\ req' = [req EXCEPT ![r] = Idle]
  /\ UNCHANGED <<happened, books, org, catalog, requestFaults, crossed>>

(* The next call of the handler throws, the process dies, or the answer is *)
(* lost: Stripe sees no 2xx.                                               *)
Fail(r) ==
  /\ req[r] # Idle
  /\ requestFaults < MaxRequestFaults
  /\ requestFaults' = requestFaults + 1
  /\ req' = [req EXCEPT ![r] = Idle]
  /\ UNCHANGED <<stripe, books, org, catalog, crossed>>

(* POST /api/billing/stripe/catalog/sync: new Products and Prices, stored  *)
(* over the old ids on every organization.                                 *)
SyncCatalog ==
  /\ catalog < MaxCatalogSyncs
  /\ catalog' = catalog + 1
  /\ UNCHANGED <<stripe, req, books, org, requestFaults, crossed>>

Handle(r) ==
  \/ Lookup(r) \/ Credit(r)
  \/ ResolvePaid(r) \/ Increment(r)
  \/ Suspend(r) \/ Notify(r) \/ Terminate(r)
  \/ Ack(r)

WebhooksNext ==
  \/ \E e \in Events : Happens(e) \/ \E r \in Requests : Deliver(r, e)
  \/ \E r \in Requests : Handle(r) \/ Fail(r)
  \/ SyncCatalog

(* A handler that nothing interrupts goes on, and Stripe goes on sending   *)
(* an event that was not answered while the backend takes requests.        *)
WebhooksFairness ==
  /\ \A r \in Requests : WF_webhookVars(Handle(r))
  /\ \A e \in Events : SF_webhookVars(\E r \in Requests : Deliver(r, e))

WebhooksSpec == WebhooksInit /\ [][WebhooksNext]_webhookVars /\ WebhooksFairness

-----------------------------------------------------------------------------
(* Properties                                                              *)

(* A payment is credited at most once, whatever fails and is retried,     *)
(* unless two requests handle its event at the same time.                  *)
PurchaseAtMostOnce ==
  \A pi \in PaymentIntents : pi \notin crossed => purchases[pi] <= 1

(* A 2xx tells Stripe to forget the event, so it is sent only for events   *)
(* that have had their effect.                                             *)
AckedMeansDone ==
  \A e \in acked :
    CASE e.type = "payment_intent.succeeded" -> purchases[e.object] >= 1
      [] e.type = "invoice.paid" -> applied[e.object] >= 1 \/ catalog > 0
      [] e = Deleted -> contractStatus = "terminated"
      [] OTHER -> TRUE

(* What Stripe was paid for and was told about payments is what the books  *)
(* of the backend say.                                                     *)
PaymentsAreApplied == PurchaseAtMostOnce /\ AckedMeansDone

(* No payment is lost: whatever fails, credits follow a payment.           *)
EveryPurchaseIsCredited ==
  \A pi \in PaymentIntents : Succeeded(pi) \in happened ~> purchases[pi] >= 1

=============================================================================
