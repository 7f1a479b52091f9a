------------------------------ MODULE MCBilling ------------------------------
(* The Stripe webhooks of one organization and the renewal of one contract, *)
(* each on its own: `focus` says which of them moves.  One reminder before  *)
(* the renewal and one on its day, a term of two days and two attempts.     *)
EXTENDS StripeWebhooks, ContractRenewal, TLC

CONSTANTS r1, r2, s1, s2

Number == (r1 :> 1) @@ (r2 :> 2) @@ (s1 :> 1) @@ (s2 :> 2)

VARIABLE focus

OnWebhooks == focus = "webhooks" /\ UNCHANGED <<renewalVars, focus>>
OnRenewal == focus = "renewal" /\ UNCHANGED <<webhookVars, focus>>

MCInit == WebhooksInit /\ RenewalInit /\ focus \in {"webhooks", "renewal"}
MCNext == (WebhooksNext /\ OnWebhooks) \/ (RenewalNext /\ OnRenewal)

MCVars == <<webhookVars, renewalVars, focus>>

(* One fairness condition may stand for both modules, since only one of    *)
(* them ever moves.  Of Stripe's deliveries only a payment's is needed.     *)
Worker(w) ==
  \/ \E r \in Requests : Number[r] = w /\ Handle(r) /\ OnWebhooks
  \/ \E s \in Scans : Number[s] = w /\ ScanStep(s) /\ OnRenewal

MCFairness ==
  /\ \A w \in {1, 2} : WF_MCVars(Worker(w))
  /\ \A pi \in PaymentIntents :
       SF_MCVars((\E r \in Requests : Deliver(r, Succeeded(pi))) /\ OnWebhooks)
  /\ WF_MCVars(NextDay /\ OnRenewal)

MCSpec == MCInit /\ [][MCNext]_MCVars /\ MCFairness
=============================================================================
