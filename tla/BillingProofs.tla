---------------------------- MODULE BillingProofs ----------------------------
(***************************************************************************)
(* What Stripe was paid for is in the books, and what a renewal does is    *)
(* accounted for.                                                          *)
(***************************************************************************)
EXTENDS StripeWebhooks, ContractRenewal, FiniteSetTheorems, TLAPS

-----------------------------------------------------------------------------
(* The webhooks.  A request that handles an event is at one of the stages  *)
(* of its handler.                                                         *)

Stages == {"lookup", "credit", "resolve", "increment", "notify", "terminate", "ack"}

Fits(e, pc) ==
  \/ pc = "ack"
  \/ e.type = "payment_intent.succeeded" /\ pc \in {"lookup", "credit"}
  \/ e.type = "invoice.paid" /\ pc \in {"resolve", "increment"}
  \/ e.type = "invoice.payment_failed" /\ pc \in {"resolve", "notify"}
  \/ e = Deleted /\ pc \in {"resolve", "terminate"}

WebhooksTyped ==
  /\ happened \subseteq Events /\ acked \subseteq Events
  /\ req \in [Requests -> {Idle} \cup [ev : Events, pc : Stages]]
  /\ \A r \in Requests : req[r] # Idle => Fits(req[r].ev, req[r].pc)
  /\ purchases \in [PaymentIntents -> Nat]
  /\ applied \in [Invoices -> Nat]
  /\ catalog \in Nat

Handles(r, pi) == req[r] # Idle /\ req[r].ev = Succeeded(pi)

OneHandler ==
  \A pi \in PaymentIntents : pi \notin crossed =>
    \A q, r \in Requests : Handles(q, pi) /\ Handles(r, pi) => q = r

(* Whoever is about to credit a payment nobody else handles has found it   *)
(* uncredited, and it still is.                                            *)
CreditsAreDue ==
  \A pi \in PaymentIntents : pi \notin crossed =>
    \A r \in Requests : Handles(r, pi) /\ req[r].pc = "credit" => purchases[pi] = 0

(* What an event was to bring about.                                       *)
Done(e) ==
  /\ e.type = "payment_intent.succeeded" => purchases[e.object] >= 1
  /\ e.type = "invoice.paid" => applied[e.object] >= 1 \/ catalog > 0
  /\ e = Deleted => contractStatus = "terminated"

AnswersAreDue == \A r \in Requests : req[r] # Idle /\ req[r].pc = "ack" => Done(req[r].ev)
AnsweredIsDone == \A e \in acked : Done(e)

WebhooksInv ==
  /\ WebhooksTyped /\ OneHandler /\ CreditsAreDue /\ PurchaseAtMostOnce
  /\ AnswersAreDue /\ AnsweredIsDone

-----------------------------------------------------------------------------

LEMMA EventKinds ==
  ASSUME NEW e \in Events
  PROVE  \/ e.type = "payment_intent.succeeded" /\ e # Deleted /\ e.object \in PaymentIntents /\ e = Succeeded(e.object)
         \/ e.type = "invoice.paid" /\ e # Deleted /\ e.object \in Invoices
         \/ e.type = "invoice.payment_failed" /\ e # Deleted
         \/ e.type = "customer.subscription.deleted" /\ e = Deleted
BY DEF Events, Event, Paid, Failed, Succeeded, Deleted

LEMMA Kinds ==
  /\ \A pi : Succeeded(pi).type = "payment_intent.succeeded" /\ Succeeded(pi).object = pi
  /\ \A pi \in PaymentIntents : Succeeded(pi) \in Events
  /\ Deleted.type = "customer.subscription.deleted"
BY DEF Event, Succeeded, Deleted, Events

(* A request goes on with its event to the stage pc.                       *)
LEMMA GoesOn ==
  ASSUME WebhooksTyped, NEW r \in Requests, NEW pc \in Stages, req[r] # Idle, RequestAt(r, pc),
         Fits(req[r].ev, pc)
  PROVE  /\ req' \in [Requests -> {Idle} \cup [ev : Events, pc : Stages]]
         /\ \A q \in Requests : req'[q] # Idle <=> req[q] # Idle
         /\ \A q \in Requests : req[q] # Idle => req'[q].ev = req[q].ev
         /\ req'[r].pc = pc
         /\ \A q \in Requests \ {r} : req'[q] = req[q]
         /\ \A q \in Requests : req'[q] # Idle => Fits(req'[q].ev, req'[q].pc)
<1>1. PICK y : y = req[r]
  OBVIOUS
<1>2. y \in [ev : Events, pc : Stages] /\ y.ev \in Events /\ y.pc \in Stages
  BY <1>1 DEF WebhooksTyped
<1>3. PICK z : z = [y EXCEPT !.pc = pc]
  OBVIOUS
<1>4. z \in [ev : Events, pc : Stages] /\ z.ev = y.ev /\ z.pc = pc
  BY <1>2, <1>3
<1>5. z # Idle
  BY <1>4 DEF Idle, Stages
<1>6. req' = [req EXCEPT ![r] = z]
  BY <1>1, <1>3 DEF RequestAt, WebhooksTyped
<1>7. req'[r] = z /\ \A q \in Requests \ {r} : req'[q] = req[q]
  BY <1>6 DEF WebhooksTyped
<1> QED
  BY <1>1, <1>2, <1>4, <1>5, <1>6, <1>7 DEF WebhooksTyped

(* Done is a promise: what others do does not undo it.                     *)
LEMMA DoneStays ==
  ASSUME WebhooksTyped, NEW e \in Events, Done(e),
         \A pi \in PaymentIntents : purchases'[pi] >= purchases[pi] /\ purchases'[pi] \in Nat,
         \A i \in Invoices : applied'[i] >= applied[i] /\ applied'[i] \in Nat,
         catalog' >= catalog, catalog' \in Nat,
         contractStatus = "terminated" => contractStatus' = "terminated"
  PROVE  Done(e)'
BY EventKinds DEF Done, WebhooksTyped

-----------------------------------------------------------------------------
(* The handlers.                                                           *)

LEMMA HandlersOfPayments ==
  ASSUME WebhooksInv, NEW r \in Requests, Lookup(r) \/ Credit(r)
  PROVE  WebhooksInv'
<1> USE DEF WebhooksInv
<1>1. PICK e : e = req[r].ev
  OBVIOUS
<1>2. req[r] # Idle /\ e \in Events /\ e.type = "payment_intent.succeeded"
      /\ e.object \in PaymentIntents /\ e = Succeeded(e.object)
  <2>1. req[r] # Idle
    BY DEF Lookup, Credit, Idle
  <2>2. req[r] \in [ev : Events, pc : Stages]
    BY <2>1 DEF WebhooksTyped
  <2>3. e \in Events
    BY <2>2, <1>1
  <2>4. Fits(e, "lookup") \/ Fits(e, "credit")
    BY <2>1, <1>1 DEF WebhooksTyped, Lookup, Credit
  <2> QED
    BY <2>1, <2>3, <2>4, EventKinds, Kinds DEF Fits
<1>3. PICK o \in PaymentIntents : o = e.object
  BY <1>2
<1>4. Handles(r, o)
  BY <1>1, <1>2, <1>3 DEF Handles
<1>5. CASE Lookup(r)
  <2>1. PICK pc : pc = IF purchases[o] > 0 THEN "ack" ELSE "credit"
    OBVIOUS
  <2>2. RequestAt(r, pc) /\ pc \in Stages /\ Fits(e, pc)
    BY <2>1, <1>1, <1>2, <1>3, <1>5 DEF Lookup, Stages, Fits
  <2>3. UNCHANGED <<happened, acked, purchases, applied, contractStatus, catalog, crossed>>
    BY <1>5 DEF Lookup, stripe, books, org
  <2>4. /\ req' \in [Requests -> {Idle} \cup [ev : Events, pc : Stages]]
        /\ \A q \in Requests : req'[q] # Idle <=> req[q] # Idle
        /\ \A q \in Requests : req[q] # Idle => req'[q].ev = req[q].ev
        /\ req'[r].pc = pc
        /\ \A q \in Requests \ {r} : req'[q] = req[q]
        /\ \A q \in Requests : req'[q] # Idle => Fits(req'[q].ev, req'[q].pc)
    BY <2>2, <1>1, <1>2, GoesOn
  <2>5. WebhooksTyped'
    BY <2>3, <2>4 DEF WebhooksTyped
  <2>6. \A q \in Requests, pi \in PaymentIntents : Handles(q, pi)' <=> Handles(q, pi)
    BY <2>4 DEF Handles
  <2>7. OneHandler' /\ PurchaseAtMostOnce'
    BY <2>3, <2>6 DEF OneHandler, PurchaseAtMostOnce
  <2>8. CreditsAreDue'
    <3> SUFFICES ASSUME NEW pi \in PaymentIntents, pi \notin crossed', NEW q \in Requests,
                        Handles(q, pi)', req'[q].pc = "credit"
                 PROVE  purchases'[pi] = 0
      BY DEF CreditsAreDue
    <3>1. Handles(q, pi) /\ pi \notin crossed
      BY <2>3, <2>6
    <3>2. CASE q = r
      <4>1. pi = o
        BY <3>1, <3>2, <1>1, <1>2, <1>3, Kinds DEF Handles
      <4>2. ~(purchases[o] > 0)
        BY <3>2, <2>1, <2>4
      <4> QED
        BY <4>1, <4>2, <2>3 DEF WebhooksTyped
    <3>3. CASE q # r
      BY <3>1, <3>3, <2>3, <2>4 DEF CreditsAreDue
    <3> QED
      BY <3>2, <3>3
  <2>9. AnswersAreDue'
    <3> SUFFICES ASSUME NEW q \in Requests, req'[q] # Idle, req'[q].pc = "ack"
                 PROVE  Done(req[q].ev)'
      BY DEF AnswersAreDue
    <3>1. req[q] # Idle /\ req'[q].ev = req[q].ev
      BY <2>4
    <3>2. Done(req[q].ev)
      <4>1. CASE q = r
        <5>1. purchases[o] > 0
          BY <4>1, <2>1, <2>4
        <5> QED
          BY <5>1, <4>1, <1>1, <1>2, <1>3, Kinds DEF Done, WebhooksTyped
      <4>2. CASE q # r
        BY <4>2, <3>1, <2>4 DEF AnswersAreDue
      <4> QED
        BY <4>1, <4>2
    <3>3. PICK d : d = req[q].ev /\ d = req'[q].ev
      BY <3>1
    <3>4. Done(d)'
      BY <3>2, <3>3, <2>3 DEF Done
    <3> QED
      BY <3>3, <3>4 DEF Done
  <2>10. AnsweredIsDone'
    BY <2>3 DEF AnsweredIsDone, Done
  <2> QED
    BY <2>5, <2>7, <2>8, <2>9, <2>10
<1>6. CASE Credit(r)
  <2>1. RequestAt(r, "ack") /\ "ack" \in Stages /\ Fits(e, "ack")
    BY <1>6 DEF Credit, Stages, Fits
  <2>2. /\ UNCHANGED <<happened, acked, applied, contractStatus, catalog, crossed>>
        /\ purchases' = [purchases EXCEPT ![o] = @ + 1]
        /\ req[r].pc = "credit"
    BY <1>1, <1>3, <1>6 DEF Credit, stripe, org
  <2>3. /\ req' \in [Requests -> {Idle} \cup [ev : Events, pc : Stages]]
        /\ \A q \in Requests : req'[q] # Idle <=> req[q] # Idle
        /\ \A q \in Requests : req[q] # Idle => req'[q].ev = req[q].ev
        /\ req'[r].pc = "ack"
        /\ \A q \in Requests \ {r} : req'[q] = req[q]
        /\ \A q \in Requests : req'[q] # Idle => Fits(req'[q].ev, req'[q].pc)
    BY <2>1, <1>1, <1>2, GoesOn
  <2>4. /\ purchases' \in [PaymentIntents -> Nat]
        /\ \A pi \in PaymentIntents : purchases'[pi] >= purchases[pi] /\ purchases'[pi] \in Nat
        /\ purchases'[o] = purchases[o] + 1
        /\ \A pi \in PaymentIntents \ {o} : purchases'[pi] = purchases[pi]
    BY <2>2 DEF WebhooksTyped
  <2>5. WebhooksTyped'
    BY <2>2, <2>3, <2>4 DEF WebhooksTyped
  <2>6. \A q \in Requests, pi \in PaymentIntents : Handles(q, pi)' <=> Handles(q, pi)
    BY <2>3 DEF Handles
  <2>7. OneHandler'
    BY <2>2, <2>6 DEF OneHandler
  <2>8. PurchaseAtMostOnce'
    <3> SUFFICES ASSUME NEW pi \in PaymentIntents, pi \notin crossed'
                 PROVE  purchases'[pi] <= 1
      BY DEF PurchaseAtMostOnce
    <3>1. CASE pi = o
      BY <3>1, <2>2, <2>4, <1>4 DEF CreditsAreDue
    <3>2. CASE pi # o
      BY <3>2, <2>2, <2>4 DEF PurchaseAtMostOnce
    <3> QED
      BY <3>1, <3>2
  <2>9. CreditsAreDue'
    <3> SUFFICES ASSUME NEW pi \in PaymentIntents, pi \notin crossed', NEW q \in Requests,
                        Handles(q, pi)', req'[q].pc = "credit"
                 PROVE  purchases'[pi] = 0
      BY DEF CreditsAreDue
    <3>1. Handles(q, pi) /\ pi \notin crossed /\ q # r
      BY <2>2, <2>3, <2>6
    <3>2. pi # o
      BY <3>1, <1>4 DEF OneHandler
    <3> QED
      BY <3>1, <3>2, <2>2, <2>3, <2>4 DEF CreditsAreDue
  <2>10. \A d \in Events : Done(d) => Done(d)'
    BY <2>2, <2>4, DoneStays DEF WebhooksTyped
  <2>11. AnswersAreDue'
    <3> SUFFICES ASSUME NEW q \in Requests, req'[q] # Idle, req'[q].pc = "ack"
                 PROVE  Done(req[q].ev)'
      BY DEF AnswersAreDue
    <3>1. req[q] # Idle /\ req'[q].ev = req[q].ev
      BY <2>3
    <3>2. CASE q = r
      <4>1. Done(e)'
        BY <2>4, <1>2, <1>3, Kinds DEF Done, WebhooksTyped
      <4> QED
        BY <4>1, <3>1, <3>2, <1>1 DEF Done
    <3>3. CASE q # r
      <4>1. req[q] \in [ev : Events, pc : Stages]
        BY <3>1 DEF WebhooksTyped
      <4>2. req[q].ev \in Events /\ Done(req[q].ev)
        BY <4>1, <3>1, <3>3, <2>3 DEF AnswersAreDue
      <4>3. PICK d \in Events : d = req[q].ev /\ d = req'[q].ev
        BY <4>2, <3>1
      <4>4. Done(d)'
        BY <4>2, <4>3, <2>10
      <4> QED
        BY <4>3, <4>4 DEF Done
    <3> QED
      BY <3>2, <3>3
  <2>12. AnsweredIsDone'
    BY <2>2, <2>10 DEF AnsweredIsDone, WebhooksTyped
  <2> QED
    BY <2>5, <2>7, <2>8, <2>9, <2>11, <2>12
<1> QED
  BY <1>5, <1>6

(* A handler of another event goes on; what it adds to the books stays.    *)
LEMMA OtherHandler ==
  ASSUME WebhooksInv, NEW r \in Requests, NEW pc \in Stages, req[r] # Idle,
         req[r].ev.type # "payment_intent.succeeded",
         RequestAt(r, pc), Fits(req[r].ev, pc),
         UNCHANGED <<happened, acked, purchases, catalog, crossed>>,
         applied' \in [Invoices -> Nat], \A i \in Invoices : applied'[i] >= applied[i],
         contractStatus = "terminated" => contractStatus' = "terminated",
         pc = "ack" => \A d : d = req[r].ev => Done(d)'
  PROVE  WebhooksInv'
<1> USE DEF WebhooksInv
<1>1. /\ req' \in [Requests -> {Idle} \cup [ev : Events, pc : Stages]]
      /\ \A q \in Requests : req'[q] # Idle <=> req[q] # Idle
      /\ \A q \in Requests : req[q] # Idle => req'[q].ev = req[q].ev
      /\ req'[r].pc = pc
      /\ \A q \in Requests \ {r} : req'[q] = req[q]
      /\ \A q \in Requests : req'[q] # Idle => Fits(req'[q].ev, req'[q].pc)
  BY GoesOn
<1>2. WebhooksTyped'
  BY <1>1 DEF WebhooksTyped
<1>3. \A q \in Requests, pi \in PaymentIntents : Handles(q, pi)' <=> Handles(q, pi)
  BY <1>1 DEF Handles
<1>4. OneHandler' /\ PurchaseAtMostOnce'
  BY <1>3 DEF OneHandler, PurchaseAtMostOnce
<1>5. \A pi \in PaymentIntents : ~Handles(r, pi)
  BY Kinds DEF Handles
<1>6. CreditsAreDue'
  BY <1>1, <1>3, <1>5 DEF CreditsAreDue
<1>7. \A d \in Events : Done(d) => Done(d)'
  BY <1>2, DoneStays DEF WebhooksTyped
<1>8. AnswersAreDue'
  <2> SUFFICES ASSUME NEW q \in Requests, req'[q] # Idle, req'[q].pc = "ack"
               PROVE  Done(req[q].ev)'
    BY DEF AnswersAreDue
  <2>1. req[q] \in [ev : Events, pc : Stages]
    BY <1>1 DEF WebhooksTyped
  <2>2. PICK d \in Events : d = req[q].ev /\ d = req'[q].ev
    BY <2>1, <1>1
  <2>3. Done(d)'
    <3>1. CASE q = r
      BY <3>1, <2>2, <1>1
    <3>2. CASE q # r
      BY <3>2, <2>2, <1>1, <1>7 DEF AnswersAreDue
    <3> QED
      BY <3>1, <3>2
  <2> QED
    BY <2>2, <2>3 DEF Done
<1>9. AnsweredIsDone'
  BY <1>7 DEF AnsweredIsDone, WebhooksTyped
<1> QED
  BY <1>2, <1>4, <1>6, <1>8, <1>9

LEMMA HandlersOfTheSubscription ==
  ASSUME WebhooksInv, NEW r \in Requests,
         ResolvePaid(r) \/ Increment(r) \/ Suspend(r) \/ Notify(r) \/ Terminate(r)
  PROVE  WebhooksInv'
<1> USE DEF WebhooksInv
<1>1. req[r] # Idle
  BY DEF ResolvePaid, Increment, Suspend, Notify, Terminate, Idle
<1>2. req[r] \in [ev : Events, pc : Stages]
  BY <1>1 DEF WebhooksTyped
<1>3. PICK e \in Events : e = req[r].ev
  BY <1>2
<1>4. Fits(e, req[r].pc)
  BY <1>1, <1>3 DEF WebhooksTyped
<1>5. e.type # "payment_intent.succeeded"
  BY <1>3, <1>4, Kinds DEF ResolvePaid, Increment, Suspend, Notify, Terminate, Fits
<1>6. CASE ResolvePaid(r)
  <2>1. PICK pc : pc = IF PriceIsMapped THEN "increment" ELSE "ack"
    OBVIOUS
  <2>2. pc \in Stages /\ Fits(e, pc) /\ RequestAt(r, pc)
    BY <2>1, <1>3, <1>6 DEF Stages, Fits, ResolvePaid
  <2>3. UNCHANGED <<happened, acked, purchases, applied, contractStatus, catalog, crossed>>
    BY <1>6 DEF ResolvePaid, stripe, books, org
  <2>4. pc = "ack" => Done(e)'
    BY <2>1, <2>3, <1>3, <1>6, Kinds DEF Done, PriceIsMapped, WebhooksTyped, ResolvePaid
  <2> QED
    BY <2>2, <2>3, <2>4, <1>1, <1>3, <1>5, OtherHandler DEF WebhooksTyped
<1>7. CASE Increment(r)
  <2>1. "ack" \in Stages /\ Fits(e, "ack") /\ RequestAt(r, "ack")
    BY <1>7 DEF Stages, Fits, Increment
  <2>2. UNCHANGED <<happened, acked, purchases, contractStatus, catalog, crossed>>
    BY <1>7 DEF Increment, stripe
  <2>3. e.type = "invoice.paid" /\ e.object \in Invoices /\ e # Deleted
    BY <1>4, <1>7, EventKinds DEF Increment, Fits
  <2>4. /\ applied' \in [Invoices -> Nat]
        /\ \A i \in Invoices : applied'[i] >= applied[i]
        /\ applied'[e.object] = applied[e.object] + 1
    BY <2>3, <1>3, <1>7 DEF Increment, WebhooksTyped
  <2>5. Done(e)'
    BY <2>3, <2>4 DEF Done, WebhooksTyped
  <2> QED
    BY <2>1, <2>2, <2>4, <2>5, <1>1, <1>3, <1>5, OtherHandler
<1>8. CASE Suspend(r)
  <2>1. PICK pc : pc = IF e = Deleted THEN "terminate" ELSE "notify"
    OBVIOUS
  <2>2. pc \in Stages /\ Fits(e, pc) /\ RequestAt(r, pc) /\ pc # "ack"
    BY <2>1, <1>3, <1>4, <1>5, <1>8, EventKinds DEF Stages, Fits, Suspend
  <2>3. UNCHANGED <<happened, acked, purchases, applied, contractStatus, catalog, crossed>>
    BY <1>8 DEF Suspend, stripe, books
  <2> QED
    BY <2>2, <2>3, <1>1, <1>3, <1>5, OtherHandler DEF WebhooksTyped
<1>9. CASE Notify(r)
  <2>1. "ack" \in Stages /\ Fits(e, "ack") /\ RequestAt(r, "ack")
    BY <1>9 DEF Stages, Fits, Notify
  <2>2. UNCHANGED <<happened, acked, purchases, applied, contractStatus, catalog, crossed>>
    BY <1>9 DEF Notify, stripe, books, org
  <2>3. Done(e)'
    BY <1>3, <1>4, <1>9, Kinds DEF Done, Notify, Fits
  <2> QED
    BY <2>1, <2>2, <2>3, <1>1, <1>3, <1>5, OtherHandler DEF WebhooksTyped
<1>10. CASE Terminate(r)
  <2>1. "ack" \in Stages /\ Fits(e, "ack") /\ RequestAt(r, "ack")
    BY <1>10 DEF Stages, Fits, Terminate
  <2>2. UNCHANGED <<happened, acked, purchases, applied, catalog, crossed>>
        /\ contractStatus' = "terminated"
    BY <1>10 DEF Terminate, stripe, books
  <2>3. Done(e)'
    BY <2>2, <1>3, <1>4, <1>10, Kinds DEF Done, Terminate, Fits
  <2> QED
    BY <2>1, <2>2, <2>3, <1>1, <1>3, <1>5, OtherHandler DEF WebhooksTyped
<1> QED
  BY <1>6, <1>7, <1>8, <1>9, <1>10

(* A request ends, answered or not.                                        *)
LEMMA RequestsEnd ==
  ASSUME WebhooksInv, NEW r \in Requests, Ack(r) \/ Fail(r)
  PROVE  WebhooksInv'
<1> USE DEF WebhooksInv
<1>1. /\ req' = [req EXCEPT ![r] = Idle]
      /\ UNCHANGED <<happened, purchases, applied, contractStatus, catalog, crossed>>
      /\ req[r] # Idle
  BY DEF Ack, Fail, stripe, books, org, Idle
<1>2. /\ req'[r] = Idle
      /\ \A q \in Requests : req'[q] # Idle => q # r /\ req'[q] = req[q] /\ req[q] # Idle
      /\ req' \in [Requests -> {Idle} \cup [ev : Events, pc : Stages]]
  BY <1>1 DEF WebhooksTyped
<1>3. acked' = acked \/ (acked' = acked \cup {req[r].ev} /\ req[r].pc = "ack")
  BY DEF Ack, Fail, stripe
<1>4. req[r] \in [ev : Events, pc : Stages]
  BY <1>1 DEF WebhooksTyped
<1>5. acked' \subseteq Events
  BY <1>3, <1>4 DEF WebhooksTyped
<1>6. WebhooksTyped'
  BY <1>1, <1>2, <1>5 DEF WebhooksTyped
<1>7. OneHandler' /\ CreditsAreDue' /\ PurchaseAtMostOnce'
  BY <1>1, <1>2 DEF OneHandler, CreditsAreDue, PurchaseAtMostOnce, Handles
<1>8. AnswersAreDue'
  BY <1>1, <1>2 DEF AnswersAreDue, Done
<1>9. \A e \in acked' : Done(e)
  BY <1>1, <1>3 DEF AnswersAreDue, AnsweredIsDone
<1>10. AnsweredIsDone'
  BY <1>1, <1>9 DEF AnsweredIsDone, Done
<1> QED
  BY <1>6, <1>7, <1>8, <1>10

(* Stripe sends an event, perhaps to a second request.                     *)
LEMMA EventsArrive ==
  ASSUME WebhooksInv, NEW r \in Requests, NEW e \in Events, Deliver(r, e)
  PROVE  WebhooksInv'
<1> USE DEF WebhooksInv
<1>1. PICK z : z = [ev |-> e, pc |-> Entry(e)]
  OBVIOUS
<1>2. Entry(e) \in {"lookup", "resolve"} /\ Fits(e, Entry(e))
  BY EventKinds DEF Entry, Fits
<1>3. z \in [ev : Events, pc : Stages] /\ z.ev = e /\ z.pc = Entry(e)
  BY <1>1, <1>2 DEF Stages
<1>4. z # Idle /\ z.pc # "ack" /\ z.pc # "credit"
  BY <1>2, <1>3 DEF Idle
<1>5. /\ req[r] = Idle /\ req' = [req EXCEPT ![r] = z]
      /\ UNCHANGED <<happened, acked, purchases, applied, contractStatus, catalog>>
  BY <1>1 DEF Deliver, stripe, books, org
<1>6. /\ req'[r] = z
      /\ \A q \in Requests \ {r} : req'[q] = req[q]
      /\ req' \in [Requests -> {Idle} \cup [ev : Events, pc : Stages]]
  BY <1>3, <1>5 DEF WebhooksTyped
<1>7. WebhooksTyped'
  BY <1>2, <1>3, <1>5, <1>6 DEF WebhooksTyped
<1>8. crossed \subseteq crossed'
  BY DEF Deliver
<1>9. \A pi \in PaymentIntents : pi \notin crossed' /\ e = Succeeded(pi)
        => \A q \in Requests : ~Handles(q, pi)
  BY Kinds DEF Deliver, Handles
<1>10. \A q \in Requests \ {r}, pi \in PaymentIntents : Handles(q, pi)' <=> Handles(q, pi)
  BY <1>6 DEF Handles
<1>11. \A pi \in PaymentIntents : Handles(r, pi)' => e = Succeeded(pi)
  BY <1>3, <1>6 DEF Handles
<1>12. OneHandler'
  BY <1>8, <1>9, <1>10, <1>11 DEF OneHandler
<1>13. CreditsAreDue'
  BY <1>4, <1>5, <1>6, <1>8, <1>10 DEF CreditsAreDue
<1>14. PurchaseAtMostOnce'
  BY <1>5, <1>8 DEF PurchaseAtMostOnce
<1>15. AnswersAreDue'
  BY <1>4, <1>5, <1>6 DEF AnswersAreDue, Done
<1>16. AnsweredIsDone'
  BY <1>5 DEF AnsweredIsDone, Done
<1> QED
  BY <1>7, <1>12, <1>13, <1>14, <1>15, <1>16

LEMMA WebhooksStart ==
  ASSUME WebhooksInit
  PROVE  WebhooksInv
<1> USE DEF WebhooksInit
<1>1. WebhooksTyped
  BY DEF WebhooksTyped
<1>2. OneHandler /\ CreditsAreDue /\ PurchaseAtMostOnce /\ AnswersAreDue /\ AnsweredIsDone
  BY DEF OneHandler, CreditsAreDue, PurchaseAtMostOnce, AnswersAreDue, AnsweredIsDone, Handles
<1> QED
  BY <1>1, <1>2 DEF WebhooksInv

LEMMA WebhooksStep ==
  ASSUME WebhooksInv, [WebhooksNext]_webhookVars
  PROVE  WebhooksInv'
<1>1. CASE \E r \in Requests : Handle(r) \/ Fail(r)
  BY <1>1, HandlersOfPayments, HandlersOfTheSubscription, RequestsEnd DEF Handle
<1>2. CASE \E e \in Events, r \in Requests : Deliver(r, e)
  BY <1>2, EventsArrive
<1>3. CASE \E e \in Events : Happens(e)
  <2>1. happened' \subseteq Events
    BY <1>3 DEF Happens, WebhooksInv, WebhooksTyped
  <2>2. UNCHANGED <<acked, req, purchases, applied, contractStatus, catalog, crossed>>
    BY <1>3 DEF Happens, books, org
  <2> QED
    BY <2>1, <2>2 DEF WebhooksInv, WebhooksTyped, OneHandler, CreditsAreDue, PurchaseAtMostOnce,
                      AnswersAreDue, AnsweredIsDone, Handles, Done
<1>4. CASE SyncCatalog
  <2>1. UNCHANGED <<happened, acked, req, purchases, applied, contractStatus, crossed>>
        /\ catalog' = catalog + 1
    BY <1>4 DEF SyncCatalog, stripe, books, org
  <2>2. catalog' \in Nat /\ catalog' > 0
    BY <2>1 DEF WebhooksInv, WebhooksTyped
  <2>3. WebhooksTyped'
    BY <2>1, <2>2 DEF WebhooksInv, WebhooksTyped
  <2>4. \A e : Done(e) => Done(e)'
    BY <2>1, <2>2 DEF Done
  <2>5. OneHandler' /\ CreditsAreDue' /\ PurchaseAtMostOnce'
    BY <2>1 DEF WebhooksInv, OneHandler, CreditsAreDue, PurchaseAtMostOnce, Handles
  <2>6. AnsweredIsDone'
    BY <2>1, <2>4 DEF WebhooksInv, AnsweredIsDone
  <2>7. AnswersAreDue'
    BY <2>1, <2>2 DEF WebhooksInv, AnswersAreDue, Done
  <2> QED
    BY <2>3, <2>5, <2>6, <2>7 DEF WebhooksInv
<1>5. CASE UNCHANGED webhookVars
  BY <1>5 DEF webhookVars, stripe, books, org, WebhooksInv, WebhooksTyped, OneHandler, CreditsAreDue,
              PurchaseAtMostOnce, AnswersAreDue, AnsweredIsDone, Handles, Done
<1> QED
  BY <1>1, <1>2, <1>3, <1>4, <1>5 DEF WebhooksNext

LEMMA AnsweredMeansDone ==
  ASSUME WebhooksInv
  PROVE  PaymentsAreApplied
<1> SUFFICES ASSUME NEW e \in acked
             PROVE  CASE e.type = "payment_intent.succeeded" -> purchases[e.object] >= 1
                      [] e.type = "invoice.paid" -> applied[e.object] >= 1 \/ catalog > 0
                      [] e = Deleted -> contractStatus = "terminated"
                      [] OTHER -> TRUE
  BY DEF PaymentsAreApplied, AckedMeansDone, WebhooksInv
<1>1. e \in Events /\ Done(e)
  BY DEF WebhooksInv, WebhooksTyped, AnsweredIsDone
<1> QED
  BY <1>1, EventKinds, Kinds DEF Done

(* However Stripe repeats its events and requests fail half way: a payment *)
(* is credited once unless two requests handle it together, and Stripe is  *)
(* told only of effects that are there.                                    *)
THEOREM PaymentsAreBooked == WebhooksSpec => []PaymentsAreApplied
<1>1. WebhooksInit => WebhooksInv
  BY WebhooksStart
<1>2. WebhooksInv /\ [WebhooksNext]_webhookVars => WebhooksInv'
  BY WebhooksStep
<1>3. WebhooksInv => PaymentsAreApplied
  BY AnsweredMeansDone
<1> QED
  BY <1>1, <1>2, <1>3, PTL DEF WebhooksSpec

-----------------------------------------------------------------------------
(* The renewals.  Two conditions run through the invariant: Alone, that no *)
(* scan has begun while another ran, and that nothing was seen at all.     *)

Docs == [status : {"active", "terminated"}, end : Nat, attempts : Nat,
         grace : Nat \cup {None}, sent : SUBSET ReminderDays]

Trying == {"grant", "extend"}
Renewing == {"attempt", "grant", "extend", "announce", "failed"}
Phases == {"expired", "terminate", "next", "remind", "record"} \cup Renewing

ScanRecords == [pc : Phases, day : Nat, at : Contracts \cup {Nobody},
                todo : UNION {[K -> Docs] : K \in SUBSET Contracts}]

RenewalTyped ==
  /\ today \in Nat /\ faults \in Nat
  /\ contract \in [Contracts -> Docs]
  /\ suspended \subseteq Contracts
  /\ granted \in [Contracts -> Nat]
  /\ reminded \in [Contracts -> [ReminderDays -> Nat]]
  /\ scan \in [Scans -> {NoScan} \cup ScanRecords]

(* Where a scan is: among the expired ones or in the loop of renewals, and *)
(* with a contract it took or between two.                                 *)
Expired(s) == scan[s].pc \in {"expired", "terminate"}
Between(s) == scan[s].pc \in {"expired", "next"}

ScansAreSound ==
  \A s \in Running :
    /\ scan[s].day <= today
    /\ ~Between(s) => scan[s].at \in DOMAIN scan[s].todo
    /\ scan[s].pc \in {"remind", "record"} => MustRemind(Doc(s), scan[s].day)
    /\ scan[s].pc \in Renewing => MayRenew(Doc(s), scan[s].day)

Alone == "overlap" \notin seen

OneScan == Alone => \A s, t \in Running : s = t

(* What a scan that is alone has read is still so, but for what it has     *)
(* written of the contract it is at.                                       *)
Untouched(s, k, pcs) == scan[s].pc \in pcs \/ scan[s].pc = "next" \/ scan[s].at # k

DocsAreCurrent ==
  Alone => \A s \in Running : ~Expired(s) => \A k \in DOMAIN scan[s].todo :
    LET doc == scan[s].todo[k] IN
    /\ doc.grace = contract[k].grace
    /\ Untouched(s, k, {"remind", "record", "attempt", "grant", "extend"}) => doc.end = contract[k].end
    /\ Untouched(s, k, {"remind", "record", "attempt"}) => doc.attempts = contract[k].attempts
    /\ Untouched(s, k, {"remind", "record"}) => doc.sent = contract[k].sent

Term(end) == (end - FirstEnd) \div Period

(* Terms are paid before they are written, also the term of a document     *)
(* that somebody still holds.                                              *)
DocsArePaid ==
  \A s \in Running :
    /\ \A k \in DOMAIN scan[s].todo : Term(scan[s].todo[k].end) <= granted[k]
    /\ scan[s].pc = "extend" => Term(Doc(s).end) + 1 <= granted[scan[s].at]

Extending(k) == \E s \in Running : scan[s].pc = "extend" /\ scan[s].at = k

GrantsAreExtended ==
  Alone => \A k \in Contracts :
    /\ granted[k] <= Renewals(k) + faults + 1
    /\ ~Extending(k) => granted[k] <= Renewals(k) + faults

(* An attempt that is not under way has failed.                            *)
Attempted(k) == \E s \in Running : scan[s].pc \in Trying /\ scan[s].at = k

AttemptsHaveFailed ==
  Alone =>
    /\ \A k \in Contracts :
         /\ contract[k].attempts <= faults + 1
         /\ ~Attempted(k) => contract[k].attempts <= faults
    /\ \A s \in Running : ~Expired(s) =>
         /\ \A k \in DOMAIN scan[s].todo : scan[s].todo[k].attempts <= faults
         /\ scan[s].pc = "failed" => Doc(s).attempts + 1 <= faults

Needed == IF Alone THEN MaxAttempts ELSE 1

(* Behind every grace period, and so behind every suspension, there are    *)
(* failures.                                                               *)
GraceNeedsFailures ==
  /\ \A k \in Contracts : contract[k].grace # None => faults >= Needed
  /\ \A s \in Running : Expired(s) /\ DOMAIN scan[s].todo # {} => faults >= Needed
  /\ \A s \in Running : scan[s].pc = "failed" => faults >= 1

(* As long as nothing was seen, a contract in its grace period has used up *)
(* its attempts and so is not renewed any more.                            *)
GraceEndsTheTerm ==
  seen = {} =>
    /\ \A k \in Contracts :
         contract[k].grace # None => contract[k].attempts >= MaxAttempts /\ contract[k].end <= today
    /\ \A s \in Running :
         /\ Expired(s) => \A k \in DOMAIN scan[s].todo : contract[k].grace # None
         /\ ~Expired(s) => \A k \in DOMAIN scan[s].todo : Active(k)
         /\ scan[s].pc \in Trying \cup {"failed"} =>
              /\ Doc(s).grace = None /\ contract[scan[s].at].end = Doc(s).end
              /\ contract[scan[s].at].attempts = Doc(s).attempts + 1

Recording(k, d) == \E s \in Running : scan[s].pc = "record" /\ scan[s].at = k /\ Doc(s).end - scan[s].day = d

RemindersAreRecorded ==
  Alone => \A k \in Contracts, d \in ReminderDays :
    /\ reminded[k][d] <= 1 + faults
    /\ d \notin contract[k].sent /\ ~Recording(k, d) => reminded[k][d] <= faults

RenewalInv ==
  /\ RenewalTyped /\ ScansAreSound /\ OneScan /\ DocsAreCurrent
  /\ TermsArePaid /\ DocsArePaid /\ GrantsAreExtended
  /\ AttemptsHaveFailed /\ GraceNeedsFailures /\ SuspensionNeedsFailures
  /\ GraceEndsTheTerm /\ NotTerminatedInTerm /\ RemindersAreRecorded

(* Adding a period to a date adds one to the quotient.                     *)
LEMMA Quotient ==
  ASSUME NEW a \in Int, NEW b \in Int, NEW P \in Nat \ {0}, NEW r \in 0..P-1, NEW s \in 0..P-1,
         P * a + r = P * b + s
  PROVE  ~(a > b)
<1> SUFFICES ASSUME a > b PROVE FALSE
  OBVIOUS
<1>1. PICK d \in Nat : a = b + 1 + d
  <2>1. a - b - 1 \in Nat /\ a = b + 1 + (a - b - 1)
    OBVIOUS
  <2> QED
    BY <2>1
<1>2. P * a = P * b + P + P * d
  BY <1>1
<1>3. P * d >= 0 /\ P * d \in Int /\ P * a \in Int /\ P * b \in Int
  OBVIOUS
<1> QED
  BY <1>2, <1>3

LEMMA NextTerm ==
  ASSUME NEW x \in Int, NEW P \in Nat \ {0}
  PROVE  (x + P) \div P = (x \div P) + 1 /\ x \div P \in Int
<1>1. /\ x \div P \in Int /\ (x + P) \div P \in Int
      /\ x % P \in 0..P-1 /\ (x + P) % P \in 0..P-1
  OBVIOUS
<1>2. x = P * (x \div P) + (x % P)
  OBVIOUS
<1>3. x + P = P * ((x + P) \div P) + ((x + P) % P)
  OBVIOUS
<1>4. PICK a \in Int, b \in Int : a = (x + P) \div P /\ b = x \div P
  BY <1>1
<1>5. PICK r \in 0..P-1, s \in 0..P-1 : r = (x + P) % P /\ s = x % P
  BY <1>1
<1>6. x = P * b + s /\ x + P = P * a + r
  BY <1>2, <1>3, <1>4, <1>5
<1>7. P * (b + 1) = P * b + P
  OBVIOUS
<1>8. P * a + r = P * (b + 1) + s
  BY <1>6, <1>7
<1>9. ~(a > b + 1) /\ ~(b + 1 > a)
  BY <1>8, Quotient
<1> QED
  BY <1>4, <1>9
LEMMA Zero == ASSUME NEW P \in Nat \ {0} PROVE  0 \div P = 0
OBVIOUS

(* How a scan moves on: to another stage, perhaps with a contract it takes, *)
(* or on from the contract it was at.                                       *)
Moves(s, p, k) ==
  /\ scan' \in [Scans -> {NoScan} \cup ScanRecords]
  /\ Running' = Running
  /\ scan'[s].pc = p /\ scan'[s].at = k
  /\ scan'[s].day = scan[s].day /\ scan'[s].todo = scan[s].todo
  /\ \A t \in Scans \ {s} : scan'[t] = scan[t]

Leaves(s, p, K) ==
  /\ scan' \in [Scans -> {NoScan} \cup ScanRecords]
  /\ Running' \subseteq Running /\ Running \ {s} \subseteq Running'
  /\ \A t \in Scans \ {s} : scan'[t] = scan[t]
  /\ \/ s \notin Running' /\ p = "next" /\ K = {}
     \/ /\ s \in Running' /\ scan'[s].pc = p /\ scan'[s].at = Nobody
        /\ scan'[s].day = scan[s].day /\ DOMAIN scan'[s].todo = K
        /\ \A k \in K : scan'[s].todo[k] = scan[s].todo[k]

LEMMA AtWork ==
  ASSUME RenewalTyped, NEW s \in Scans
  PROVE  /\ scan[s].pc \in Phases => s \in Running
         /\ s \in Running => /\ scan[s] \in ScanRecords /\ scan[s].pc \in Phases
                             /\ scan[s].day \in Nat /\ DOMAIN scan[s].todo \subseteq Contracts
                             /\ \A k \in DOMAIN scan[s].todo : scan[s].todo[k] \in Docs
                             /\ scan[s].at \in Contracts \cup {Nobody}
<1>1. ASSUME s \in Running
      PROVE  /\ scan[s] \in ScanRecords /\ scan[s].pc \in Phases
             /\ scan[s].day \in Nat /\ DOMAIN scan[s].todo \subseteq Contracts
             /\ \A k \in DOMAIN scan[s].todo : scan[s].todo[k] \in Docs
             /\ scan[s].at \in Contracts \cup {Nobody}
  <2>1. scan[s] \in ScanRecords
    BY <1>1 DEF RenewalTyped, Running
  <2>2. PICK K \in SUBSET Contracts : scan[s].todo \in [K -> Docs]
    BY <2>1 DEF ScanRecords
  <2>3. scan[s].pc \in Phases /\ scan[s].day \in Nat /\ scan[s].at \in Contracts \cup {Nobody}
    BY <2>1 DEF ScanRecords
  <2> QED
    BY <2>1, <2>2, <2>3
<1>2. scan[s].pc \in Phases => s \in Running
  BY DEF Running, NoScan, Phases, Renewing
<1> QED
  BY <1>1, <1>2

LEMMA Moving ==
  ASSUME RenewalTyped, NEW s \in Running, NEW p \in Phases, NEW k \in Contracts \cup {Nobody},
         \/ scan' = [scan EXCEPT ![s].pc = p] /\ k = scan[s].at
         \/ scan' = [scan EXCEPT ![s].pc = p, ![s].at = k]
  PROVE  Moves(s, p, k)
<1>1. s \in Scans /\ scan \in [Scans -> {NoScan} \cup ScanRecords] /\ scan[s] \in ScanRecords
  BY AtWork DEF Running, RenewalTyped
<1>2. PICK d, a, t : /\ d = scan[s].day /\ a = scan[s].at /\ t = scan[s].todo
                     /\ scan[s] = [pc |-> scan[s].pc, day |-> d, at |-> a, todo |-> t]
                     /\ d \in Nat /\ a \in Contracts \cup {Nobody}
                     /\ t \in UNION {[K -> Docs] : K \in SUBSET Contracts}
  BY <1>1 DEF ScanRecords
<1>3. PICK r : r = [pc |-> p, day |-> d, at |-> k, todo |-> t]
  OBVIOUS
<1>4. r \in ScanRecords /\ r.pc = p /\ r.day = d /\ r.at = k /\ r.todo = t /\ r # NoScan
  BY <1>2, <1>3 DEF ScanRecords, NoScan, Phases, Renewing
<1>5. scan' = [scan EXCEPT ![s] = r]
  BY <1>1, <1>2, <1>3
<1>6. scan' \in [Scans -> {NoScan} \cup ScanRecords] /\ scan'[s] = r
      /\ \A u \in Scans \ {s} : scan'[u] = scan[u]
  BY <1>1, <1>4, <1>5
<1>7. Running' = Running
  BY <1>1, <1>4, <1>6 DEF Running
<1> QED
  BY <1>2, <1>4, <1>6, <1>7 DEF Moves

LEMMA Leaving ==
  ASSUME RenewalTyped, NEW s \in Running, NEW p \in Phases, NEW todo,
         NEW K \in SUBSET Contracts, todo \in [K -> Docs], Left(s, p, todo)
  PROVE  /\ scan' \in [Scans -> {NoScan} \cup ScanRecords]
         /\ Running' \subseteq Running /\ Running \ {s} \subseteq Running'
         /\ \A t \in Scans \ {s} : scan'[t] = scan[t]
         /\ \/ s \notin Running' /\ p = "next" /\ K = {}
            \/ /\ s \in Running' /\ scan'[s].pc = p /\ scan'[s].at = Nobody
               /\ scan'[s].day = scan[s].day /\ scan'[s].todo = todo
<1>1. /\ s \in Scans /\ scan \in [Scans -> {NoScan} \cup ScanRecords] /\ scan[s] \in ScanRecords
      /\ scan[s].day \in Nat
  BY AtWork DEF Running, RenewalTyped
<1>2. PICK r : r = [pc |-> p, day |-> scan[s].day, at |-> Nobody, todo |-> todo]
  OBVIOUS
<1>3. r.pc = p /\ r.day = scan[s].day /\ r.at = Nobody /\ r.todo = todo /\ r # NoScan
  BY <1>2 DEF NoScan, Phases, Renewing
<1>4. r \in ScanRecords
  BY <1>1, <1>2 DEF ScanRecords
<1>5. CASE p = "next" /\ K = {}
  <2>1. scan' = [scan EXCEPT ![s] = NoScan]
    BY <1>5 DEF Left
  <2> QED
    BY <1>1, <1>5, <2>1 DEF Running
<1>6. CASE ~(p = "next" /\ K = {})
  <2>1. scan' = [scan EXCEPT ![s] = r]
    BY <1>2, <1>6 DEF Left
  <2>2. scan' \in [Scans -> {NoScan} \cup ScanRecords] /\ scan'[s] = r
        /\ \A u \in Scans \ {s} : scan'[u] = scan[u]
    BY <1>1, <1>4, <2>1
  <2> QED
    BY <1>1, <1>3, <2>2 DEF Running
<1> QED
  BY <1>5, <1>6

LEMMA Dropping ==
  ASSUME RenewalTyped, NEW s \in Running, NEW p \in Phases, NEW k, Drop(s, k, p)
  PROVE  Leaves(s, p, DOMAIN scan[s].todo \ {k})
<1>1. PICK K \in SUBSET Contracts : K = DOMAIN scan[s].todo \ {k}
  BY AtWork DEF Running
<1>2. PICK todo : todo = Restrict(scan[s].todo, K)
  OBVIOUS
<1>3. todo \in [K -> Docs] /\ \A j \in K : todo[j] = scan[s].todo[j]
  BY <1>1, <1>2, AtWork DEF Restrict, Running
<1>4. Left(s, p, todo)
  BY <1>1, <1>2 DEF Drop
<1> QED
  BY <1>1, <1>3, <1>4, Leaving DEF Leaves

LEMMA Terms ==
  /\ \A x \in Int : Term(x) \in Int /\ Term(x + Period) = Term(x) + 1
  /\ Term(FirstEnd) = 0
<1>1. Period \in Nat \ {0} /\ FirstEnd \in Nat
  BY DaysAssumption
<1>2. ASSUME NEW x \in Int PROVE Term(x) \in Int /\ Term(x + Period) = Term(x) + 1
  <2>1. x - FirstEnd \in Int /\ (x + Period) - FirstEnd = (x - FirstEnd) + Period
    BY <1>1
  <2> QED
    BY <1>1, <2>1, NextTerm DEF Term
<1>3. Term(FirstEnd) = 0
  BY <1>1, Zero DEF Term
<1> QED
  BY <1>2, <1>3

LEMMA Renewed == \A k \in Contracts : Renewals(k) = Term(contract[k].end)
BY DEF Renewals, Term

LEMMA RenewalsStart == RenewalInit => RenewalInv
<1> SUFFICES ASSUME RenewalInit PROVE RenewalInv
  OBVIOUS
<1>1. Running = {} /\ seen = {} /\ faults = 0 /\ suspended = {}
  BY DEF RenewalInit, Running
<1>2. \A k \in Contracts : /\ contract[k].status = "active" /\ contract[k].end = FirstEnd /\ contract[k].attempts = 0
                           /\ contract[k].grace = None /\ contract[k].sent = {} /\ granted[k] = 0 /\ Renewals(k) = 0
                           /\ \A d \in ReminderDays : reminded[k][d] = 0
  BY Terms, Renewed DEF RenewalInit
<1>3. RenewalTyped
  <2>1. FirstEnd \in Nat
    BY DaysAssumption
  <2> QED
    BY <2>1 DEF RenewalInit, RenewalTyped, Docs
<1>4. ScansAreSound /\ OneScan /\ DocsAreCurrent /\ DocsArePaid
  BY <1>1 DEF ScansAreSound, OneScan, DocsAreCurrent, DocsArePaid
<1>5. TermsArePaid /\ GrantsAreExtended
  BY <1>1, <1>2 DEF TermsArePaid, GrantsAreExtended
<1>6. AttemptsHaveFailed /\ GraceNeedsFailures /\ SuspensionNeedsFailures
  BY <1>1, <1>2 DEF AttemptsHaveFailed, GraceNeedsFailures, SuspensionNeedsFailures
<1>7. GraceEndsTheTerm /\ NotTerminatedInTerm /\ RemindersAreRecorded
  BY <1>1, <1>2 DEF GraceEndsTheTerm, NotTerminatedInTerm, RemindersAreRecorded, Active
<1> QED
  BY <1>3, <1>4, <1>5, <1>6, <1>7 DEF RenewalInv

LEMMA BeginKeeps ==
  ASSUME RenewalInv, NEW s \in Scans, Begin(s)
  PROVE  RenewalInv'
<1>1. /\ RenewalTyped /\ scan[s] = NoScan /\ s \notin Running
      /\ UNCHANGED <<today, contract, suspended, granted, reminded, faults>>
      /\ seen' = seen \cup {e \in {"overlap"} : Running # {}}
  BY DEF RenewalInv, Begin, orgs, Running
<1>2. PICK K \in SUBSET Contracts : K = GraceExpired(today)
  BY DEF GraceExpired
<1>3. PICK todo : todo = Restrict(contract, K)
  OBVIOUS
<1>4. todo \in [K -> Docs] /\ \A k \in K : todo[k] = contract[k] /\ contract[k] \in Docs
  BY <1>1, <1>2, <1>3 DEF Restrict, RenewalTyped
<1>5. PICK r : r = [pc |-> "expired", day |-> today, at |-> Nobody, todo |-> todo]
  OBVIOUS
<1>6. r \in ScanRecords /\ r.pc = "expired" /\ r.day = today /\ r.todo = todo /\ DOMAIN todo = K /\ r # NoScan
  BY <1>1, <1>4, <1>5 DEF ScanRecords, Phases, RenewalTyped, NoScan
<1>7. scan' = [scan EXCEPT ![s] = r]
  BY <1>2, <1>3, <1>5 DEF Begin
<1>8. /\ scan' \in [Scans -> {NoScan} \cup ScanRecords]
      /\ Running' = Running \cup {s}
      /\ scan'[s] = r /\ \A t \in Running : t \in Scans /\ scan'[t] = scan[t]
  BY <1>1, <1>6, <1>7 DEF RenewalTyped, Running
<1>9. /\ Alone' => Alone /\ Running = {} /\ Running' = {s}
      /\ seen' = {} => seen = {} /\ Running' = {s}
      /\ Needed' = Needed \/ Needed' = 1
  BY <1>1, <1>8 DEF Alone, Needed
<1>10. RenewalTyped'
  BY <1>1, <1>8 DEF RenewalTyped
<1>11. ScansAreSound' /\ OneScan'
  <2>1. today \in Nat /\ today <= today
    BY <1>1 DEF RenewalTyped
  <2>2. ScansAreSound'
    BY <1>1, <1>6, <1>8, <2>1 DEF RenewalInv, ScansAreSound, Between, MustRemind, MayRenew, Doc, Renewing
  <2> QED
    BY <2>2, <1>9 DEF OneScan
<1>12. DocsAreCurrent'
  BY <1>6, <1>8, <1>9 DEF DocsAreCurrent, Expired
<1>13. TermsArePaid' /\ DocsArePaid'
  <2>1. TermsArePaid'
    BY <1>1 DEF RenewalInv, TermsArePaid, Renewals
  <2>2. \A k \in K : Term(contract[k].end) <= granted[k]
    BY Renewed DEF RenewalInv, TermsArePaid
  <2>3. DocsArePaid'
    BY <1>1, <1>4, <1>6, <1>8, <2>2 DEF RenewalInv, DocsArePaid, Doc
  <2> QED
    BY <2>1, <2>3
<1>14. GrantsAreExtended'
  BY <1>1, <1>8, <1>9 DEF RenewalInv, GrantsAreExtended, Extending, Renewals
<1>15. AttemptsHaveFailed'
  BY <1>1, <1>6, <1>8, <1>9 DEF RenewalInv, AttemptsHaveFailed, Attempted, Expired
<1>16. GraceNeedsFailures' /\ SuspensionNeedsFailures'
  <2>1. MaxAttempts \in Nat \ {0} /\ Needed \in {1, MaxAttempts} /\ faults \in Nat
    BY <1>1, DaysAssumption DEF Needed, RenewalTyped
  <2>2. \A k \in K : contract[k].grace # None
    BY <1>2 DEF GraceExpired
  <2>3. \A k \in Contracts : contract[k].grace # None => faults >= Needed
    BY DEF RenewalInv, GraceNeedsFailures
  <2>4. GraceNeedsFailures'
    BY <1>1, <1>6, <1>8, <1>9, <2>1, <2>2, <2>3 DEF RenewalInv, GraceNeedsFailures, Expired
  <2>5. SuspensionNeedsFailures'
    BY <1>1, <2>1 DEF RenewalInv, SuspensionNeedsFailures
  <2> QED
    BY <2>4, <2>5
<1>17. GraceEndsTheTerm' /\ NotTerminatedInTerm'
  <2>1. \A k \in K : contract[k].grace # None
    BY <1>2 DEF GraceExpired
  <2> QED
    BY <1>1, <1>6, <1>8, <1>9, <2>1 DEF RenewalInv, GraceEndsTheTerm, NotTerminatedInTerm, Expired, Active, Trying
<1>18. RemindersAreRecorded'
  BY <1>1, <1>8, <1>9 DEF RenewalInv, RemindersAreRecorded, Recording, Doc
<1> QED
  BY <1>10, <1>11, <1>12, <1>13, <1>14, <1>15, <1>16, <1>17, <1>18 DEF RenewalInv

LEMMA SuspendKeeps ==
  ASSUME RenewalInv, NEW s \in Scans, SuspendOrg(s)
  PROVE  RenewalInv'
<1>1. /\ RenewalTyped /\ scan[s].pc = "expired" /\ s \in Running
      /\ UNCHANGED <<today, contract, granted, reminded, faults, seen>>
  BY AtWork DEF RenewalInv, SuspendOrg, history, At, Phases
<1>2. PICK k \in DOMAIN scan[s].todo :
        /\ suspended' = suspended \cup {k}
        /\ scan' = [scan EXCEPT ![s].pc = "terminate", ![s].at = k]
  BY DEF SuspendOrg
<1>3. k \in Contracts
  BY <1>1, AtWork
<1>4. Moves(s, "terminate", k)
  BY <1>1, <1>2, <1>3, Moving DEF Phases
<1>5. /\ Running' = Running /\ Expired(s) /\ Expired(s)' /\ (Alone' <=> Alone) /\ Needed' = Needed
      /\ \A t \in Running : scan'[t].todo = scan[t].todo /\ scan'[t].day = scan[t].day
      /\ \A t \in Running \ {s} : scan'[t] = scan[t]
      /\ scan'[s].pc = "terminate" /\ scan'[s].at = k
  BY <1>1, <1>4 DEF Moves, Expired, Alone, Needed, Running
<1>6. RenewalTyped'
  BY <1>1, <1>2, <1>3, <1>4 DEF RenewalTyped, Moves
<1>7. ScansAreSound' /\ OneScan' /\ DocsAreCurrent'
  <2>1. ScansAreSound'
    BY <1>1, <1>5 DEF RenewalInv, ScansAreSound, Between, MustRemind, MayRenew, Doc, Renewing
  <2>2. OneScan'
    BY <1>5 DEF RenewalInv, OneScan
  <2>3. DocsAreCurrent'
    BY <1>1, <1>5 DEF RenewalInv, DocsAreCurrent, Untouched, Expired
  <2> QED
    BY <2>1, <2>2, <2>3
<1>8. TermsArePaid' /\ DocsArePaid' /\ GrantsAreExtended'
  <2>1. TermsArePaid' /\ GrantsAreExtended'
    BY <1>1, <1>5 DEF RenewalInv, TermsArePaid, Renewals, GrantsAreExtended, Extending
  <2>2. DocsArePaid'
    BY <1>1, <1>5 DEF RenewalInv, DocsArePaid, Doc
  <2> QED
    BY <2>1, <2>2
<1>9. AttemptsHaveFailed'
  BY <1>1, <1>5 DEF RenewalInv, AttemptsHaveFailed, Attempted, Trying, Expired, Doc
<1>10. GraceNeedsFailures' /\ SuspensionNeedsFailures'
  <2>1. faults >= Needed
    BY <1>2, <1>5, <1>1 DEF RenewalInv, GraceNeedsFailures
  <2>2. SuspensionNeedsFailures'
    BY <1>1, <2>1 DEF SuspensionNeedsFailures, Needed, Alone
  <2>3. GraceNeedsFailures'
    BY <1>1, <1>5 DEF RenewalInv, GraceNeedsFailures, Expired
  <2> QED
    BY <2>2, <2>3
<1>11. GraceEndsTheTerm' /\ NotTerminatedInTerm'
  BY <1>1, <1>5 DEF RenewalInv, GraceEndsTheTerm, NotTerminatedInTerm, Expired, Active, Trying, Doc
<1>12. RemindersAreRecorded'
  BY <1>1, <1>5 DEF RenewalInv, RemindersAreRecorded, Recording, Doc
<1> QED
  BY <1>6, <1>7, <1>8, <1>9, <1>10, <1>11, <1>12 DEF RenewalInv

LEMMA TerminateKeeps ==
  ASSUME RenewalInv, NEW s \in Scans, TerminateContract(s)
  PROVE  RenewalInv'
<1>1. /\ RenewalTyped /\ scan[s].pc = "terminate" /\ s \in Running
      /\ UNCHANGED <<today, suspended, granted, reminded, faults, seen>>
  BY AtWork DEF RenewalInv, TerminateContract, orgs, history, At, Phases
<1>2. PICK k \in Contracts : k = scan[s].at /\ k \in DOMAIN scan[s].todo
  BY <1>1, AtWork DEF RenewalInv, ScansAreSound, Between
<1>3. Leaves(s, "expired", DOMAIN scan[s].todo \ {k})
  BY <1>1, <1>2, Dropping DEF TerminateContract, Phases
<1>4. /\ s \in Running' /\ Expired(s) /\ Expired(s)' /\ (Alone' <=> Alone) /\ Needed' = Needed
      /\ Running' \subseteq Running /\ Running \ {s} \subseteq Running'
      /\ \A t \in Running' \ {s} : scan'[t] = scan[t]
      /\ scan'[s].pc = "expired" /\ scan'[s].day = scan[s].day
      /\ DOMAIN scan'[s].todo \subseteq DOMAIN scan[s].todo
      /\ \A j \in DOMAIN scan'[s].todo : scan'[s].todo[j] = scan[s].todo[j]
  BY <1>1, <1>3 DEF Leaves, Expired, Alone, Needed, Running
<1>5. /\ contract' \in [Contracts -> Docs]
      /\ \A j \in Contracts :
           /\ contract'[j].end = contract[j].end /\ contract'[j].attempts = contract[j].attempts
           /\ contract'[j].grace = contract[j].grace /\ contract'[j].sent = contract[j].sent
           /\ j # k => contract'[j] = contract[j]
  BY <1>1, <1>2 DEF TerminateContract, RenewalTyped, Docs
<1>6. RenewalTyped'
  BY <1>1, <1>3, <1>5 DEF RenewalTyped, Leaves
<1>7. ScansAreSound' /\ OneScan' /\ DocsAreCurrent'
  <2>1. ScansAreSound'
    BY <1>1, <1>4 DEF RenewalInv, ScansAreSound, Between, MustRemind, MayRenew, Doc, Renewing
  <2>2. OneScan'
    BY <1>4 DEF RenewalInv, OneScan
  <2>3. DocsAreCurrent'
    BY <1>4, <2>2 DEF RenewalInv, OneScan, DocsAreCurrent
  <2> QED
    BY <2>1, <2>2, <2>3
<1>8. TermsArePaid' /\ DocsArePaid' /\ GrantsAreExtended'
  <2>1. TermsArePaid' /\ GrantsAreExtended'
    BY <1>1, <1>4, <1>5 DEF RenewalInv, TermsArePaid, Renewals, GrantsAreExtended, Extending
  <2>2. DocsArePaid'
    BY <1>1, <1>4 DEF RenewalInv, DocsArePaid, Doc
  <2> QED
    BY <2>1, <2>2
<1>9. AttemptsHaveFailed'
  BY <1>1, <1>4, <1>5 DEF RenewalInv, AttemptsHaveFailed, Attempted, Trying, Expired, Doc
<1>10. GraceNeedsFailures' /\ SuspensionNeedsFailures'
  BY <1>1, <1>4, <1>5 DEF RenewalInv, GraceNeedsFailures, SuspensionNeedsFailures, Expired
<1>11. GraceEndsTheTerm' /\ NotTerminatedInTerm'
  <2>1. seen = {} => Alone
    BY DEF Alone
  <2>2. seen = {} => contract[k].end <= today
    BY <1>1, <1>2, <1>4 DEF RenewalInv, GraceEndsTheTerm
  <2>3. GraceEndsTheTerm'
    BY <1>1, <1>2, <1>4, <1>5, <2>1, <1>7, AtWork DEF RenewalInv, GraceEndsTheTerm, OneScan, Expired, Trying
  <2>4. NotTerminatedInTerm'
    BY <1>1, <1>5, <2>2 DEF RenewalInv, NotTerminatedInTerm, Active
  <2> QED
    BY <2>3, <2>4
<1>12. RemindersAreRecorded'
  BY <1>1, <1>4, <1>5 DEF RenewalInv, RemindersAreRecorded, Recording, Doc
<1> QED
  BY <1>6, <1>7, <1>8, <1>9, <1>10, <1>11, <1>12 DEF RenewalInv

LEMMA FindKeeps ==
  ASSUME RenewalInv, NEW s \in Scans, FindExpiring(s)
  PROVE  RenewalInv'
<1>1. /\ RenewalTyped /\ scan[s].pc = "expired" /\ s \in Running
      /\ UNCHANGED <<today, contract, suspended, granted, reminded, faults, seen>>
  BY AtWork DEF RenewalInv, FindExpiring, orgs, history, At, Phases
<1>2. PICK K \in SUBSET Contracts : K = Expiring(scan[s].day)
  BY DEF Expiring
<1>3. PICK todo : todo = Restrict(contract, K)
  OBVIOUS
<1>4. todo \in [K -> Docs] /\ \A k \in K : todo[k] = contract[k] /\ contract[k] \in Docs
  BY <1>1, <1>2, <1>3 DEF Restrict, RenewalTyped
<1>5. Left(s, "next", todo)
  BY <1>2, <1>3 DEF FindExpiring
<1>6. /\ scan' \in [Scans -> {NoScan} \cup ScanRecords]
      /\ Running' \subseteq Running /\ Running \ {s} \subseteq Running'
      /\ \A t \in Scans \ {s} : scan'[t] = scan[t]
      /\ s \in Running' => scan'[s].pc = "next" /\ scan'[s].at = Nobody
                           /\ scan'[s].day = scan[s].day /\ scan'[s].todo = todo
  BY <1>1, <1>2, <1>4, <1>5, Leaving DEF Phases
<1>7. /\ Running' \subseteq Running /\ Running \ {s} \subseteq Running' /\ (Alone' <=> Alone) /\ Needed' = Needed
      /\ \A t \in Running' \ {s} : scan'[t] = scan[t]
      /\ s \in Running' => /\ scan'[s].pc = "next" /\ scan'[s].day = scan[s].day /\ scan'[s].todo = todo
                           /\ DOMAIN scan'[s].todo = K
                           /\ \A k \in K : k \in Contracts /\ scan'[s].todo[k] = contract[k]
  BY <1>1, <1>2, <1>4, <1>6 DEF Alone, Needed, Running
<1>8. RenewalTyped'
  BY <1>1, <1>6 DEF RenewalTyped
<1>9. ScansAreSound' /\ OneScan' /\ DocsAreCurrent'
  <2>1. ScansAreSound'
    BY <1>1, <1>7 DEF RenewalInv, ScansAreSound, Between, MustRemind, MayRenew, Doc, Renewing
  <2>2. OneScan'
    BY <1>7 DEF RenewalInv, OneScan
  <2>3. DocsAreCurrent'
    BY <1>1, <1>7, <2>2 DEF RenewalInv, OneScan, DocsAreCurrent
  <2> QED
    BY <2>1, <2>2, <2>3
<1>10. TermsArePaid' /\ DocsArePaid' /\ GrantsAreExtended'
  <2>1. TermsArePaid' /\ GrantsAreExtended'
    BY <1>1, <1>7 DEF RenewalInv, TermsArePaid, Renewals, GrantsAreExtended, Extending
  <2>2. \A k \in K : Term(contract[k].end) <= granted[k]
    BY <1>2, Renewed DEF RenewalInv, TermsArePaid
  <2>3. DocsArePaid'
    BY <1>1, <1>7, <2>2 DEF RenewalInv, DocsArePaid, Doc
  <2> QED
    BY <2>1, <2>3
<1>11. AttemptsHaveFailed'
  <2>1. Alone => \A k \in Contracts : ~Attempted(k)
    BY <1>1 DEF RenewalInv, OneScan, Attempted, Trying
  <2>2. Alone => \A k \in Contracts : contract[k].attempts <= faults
    BY <2>1 DEF RenewalInv, AttemptsHaveFailed
  <2> QED
    BY <1>1, <1>7, <2>2 DEF RenewalInv, AttemptsHaveFailed, Attempted, Trying, Expired, Doc
<1>12. GraceNeedsFailures' /\ SuspensionNeedsFailures'
  BY <1>1, <1>7 DEF RenewalInv, GraceNeedsFailures, SuspensionNeedsFailures, Expired
<1>13. GraceEndsTheTerm' /\ NotTerminatedInTerm'
  <2>1. \A k \in K : Active(k)
    BY <1>2 DEF Expiring
  <2> QED
    BY <1>1, <1>7, <2>1 DEF RenewalInv, GraceEndsTheTerm, NotTerminatedInTerm, Expired, Active, Trying, Doc
<1>14. RemindersAreRecorded'
  BY <1>1, <1>7 DEF RenewalInv, RemindersAreRecorded, Recording, Doc
<1> QED
  BY <1>8, <1>9, <1>10, <1>11, <1>12, <1>13, <1>14 DEF RenewalInv

(* The scan is done with a contract that it leaves as it is.               *)
LEMMA DropKeeps ==
  ASSUME RenewalInv, NEW s \in Running, NEW k, Leaves(s, "next", DOMAIN scan[s].todo \ {k}),
         scan[s].pc = "next" \/ (scan[s].pc = "announce" /\ scan[s].at = k),
         UNCHANGED <<today, contract, suspended, granted, reminded, faults, seen>>
  PROVE  RenewalInv'
<1>1. RenewalTyped /\ s \in Scans
  BY DEF RenewalInv, Running
<1>2. /\ Running' \subseteq Running /\ Running \ {s} \subseteq Running' /\ (Alone' <=> Alone) /\ Needed' = Needed
      /\ \A t \in Running' \ {s} : scan'[t] = scan[t]
      /\ ~Expired(s)
      /\ s \in Running' => /\ scan'[s].pc = "next" /\ scan'[s].day = scan[s].day
                           /\ DOMAIN scan'[s].todo = DOMAIN scan[s].todo \ {k}
                           /\ \A j \in DOMAIN scan'[s].todo : scan'[s].todo[j] = scan[s].todo[j]
  BY DEF Leaves, Alone, Needed, Running, Expired
<1>3. RenewalTyped'
  BY <1>1 DEF RenewalTyped, Leaves
<1>4. ScansAreSound' /\ OneScan' /\ DocsAreCurrent'
  <2>1. ScansAreSound'
    BY <1>2 DEF RenewalInv, ScansAreSound, Between, MustRemind, MayRenew, Doc, Renewing
  <2>2. OneScan'
    BY <1>2 DEF RenewalInv, OneScan
  <2>3. ASSUME Alone, NEW j \in DOMAIN scan[s].todo \ {k}
        PROVE  LET doc == scan[s].todo[j] IN
               /\ doc.grace = contract[j].grace /\ doc.end = contract[j].end
               /\ doc.attempts = contract[j].attempts /\ doc.sent = contract[j].sent
    BY <1>2, <2>3 DEF RenewalInv, DocsAreCurrent, Untouched
  <2>4. DocsAreCurrent'
    BY <1>2, <2>3 DEF RenewalInv, OneScan, DocsAreCurrent
  <2> QED
    BY <2>1, <2>2, <2>4
<1>5. TermsArePaid' /\ DocsArePaid' /\ GrantsAreExtended'
  <2>1. TermsArePaid' /\ GrantsAreExtended'
    BY <1>2 DEF RenewalInv, TermsArePaid, Renewals, GrantsAreExtended, Extending
  <2>2. DocsArePaid'
    BY <1>2 DEF RenewalInv, DocsArePaid, Doc
  <2> QED
    BY <2>1, <2>2
<1>6. AttemptsHaveFailed'
  BY <1>2 DEF RenewalInv, AttemptsHaveFailed, Attempted, Trying, Expired, Doc
<1>7. GraceNeedsFailures' /\ SuspensionNeedsFailures'
  BY <1>2 DEF RenewalInv, GraceNeedsFailures, SuspensionNeedsFailures, Expired
<1>8. GraceEndsTheTerm' /\ NotTerminatedInTerm'
  BY <1>2 DEF RenewalInv, GraceEndsTheTerm, NotTerminatedInTerm, Expired, Active, Trying, Doc
<1>9. RemindersAreRecorded'
  BY <1>2 DEF RenewalInv, RemindersAreRecorded, Recording, Doc
<1> QED
  BY <1>3, <1>4, <1>5, <1>6, <1>7, <1>8, <1>9 DEF RenewalInv

(* The scan takes a contract.                                              *)
LEMMA TakingKeeps ==
  ASSUME RenewalInv, NEW s \in Running, NEW k \in DOMAIN scan[s].todo, NEW p \in {"remind", "attempt"},
         Moves(s, p, k), scan[s].pc = "next",
         p = "remind" => MustRemind(scan[s].todo[k], scan[s].day),
         p = "attempt" => MayRenew(scan[s].todo[k], scan[s].day),
         UNCHANGED <<today, contract, suspended, granted, reminded, faults, seen>>
  PROVE  RenewalInv'
<1>1. RenewalTyped /\ s \in Scans
  BY DEF RenewalInv, Running
<1>2. /\ Running' = Running /\ ~Expired(s) /\ ~Expired(s)' /\ (Alone' <=> Alone) /\ Needed' = Needed
      /\ \A t \in Running : scan'[t].todo = scan[t].todo /\ scan'[t].day = scan[t].day
      /\ \A t \in Running \ {s} : scan'[t] = scan[t]
      /\ scan'[s].pc = p /\ scan'[s].at = k
  BY DEF Moves, Expired, Alone, Needed, Running
<1>3. RenewalTyped'
  BY <1>1 DEF RenewalTyped, Moves
<1>4. ScansAreSound' /\ OneScan' /\ DocsAreCurrent'
  <2>1. ScansAreSound'
    BY <1>2 DEF RenewalInv, ScansAreSound, Between, MustRemind, MayRenew, Doc, Renewing
  <2>2. OneScan'
    BY <1>2 DEF RenewalInv, OneScan
  <2>3. DocsAreCurrent'
    BY <1>2, <2>2 DEF RenewalInv, OneScan, DocsAreCurrent, Untouched
  <2> QED
    BY <2>1, <2>2, <2>3
<1>5. TermsArePaid' /\ DocsArePaid' /\ GrantsAreExtended'
  <2>1. TermsArePaid' /\ GrantsAreExtended'
    BY <1>2 DEF RenewalInv, TermsArePaid, Renewals, GrantsAreExtended, Extending
  <2>2. DocsArePaid'
    BY <1>2 DEF RenewalInv, DocsArePaid, Doc
  <2> QED
    BY <2>1, <2>2
<1>6. AttemptsHaveFailed'
  BY <1>2 DEF RenewalInv, AttemptsHaveFailed, Attempted, Trying, Expired, Doc
<1>7. GraceNeedsFailures' /\ SuspensionNeedsFailures'
  BY <1>2 DEF RenewalInv, GraceNeedsFailures, SuspensionNeedsFailures, Expired
<1>8. GraceEndsTheTerm' /\ NotTerminatedInTerm'
  BY <1>2 DEF RenewalInv, GraceEndsTheTerm, NotTerminatedInTerm, Expired, Active, Trying, Doc
<1>9. RemindersAreRecorded'
  BY <1>2 DEF RenewalInv, RemindersAreRecorded, Recording, Doc
<1> QED
  BY <1>3, <1>4, <1>5, <1>6, <1>7, <1>8, <1>9 DEF RenewalInv

LEMMA TakeKeeps ==
  ASSUME RenewalInv, NEW s \in Scans, Take(s)
  PROVE  RenewalInv'
<1>1. /\ RenewalTyped /\ scan[s].pc = "next" /\ s \in Running
      /\ UNCHANGED <<today, contract, suspended, granted, reminded, faults, seen>>
  BY AtWork DEF RenewalInv, Take, orgs, history, At, Phases
<1>2. PICK k \in DOMAIN scan[s].todo :
        IF MustRemind(scan[s].todo[k], scan[s].day)
        THEN scan' = [scan EXCEPT ![s].pc = "remind", ![s].at = k]
        ELSE GoOn(s, scan[s].todo[k], k)
  BY DEF Take
<1>3. k \in Contracts
  BY <1>1, AtWork
<1>4. CASE MustRemind(scan[s].todo[k], scan[s].day)
  <2>1. Moves(s, "remind", k)
    BY <1>1, <1>2, <1>3, <1>4, Moving DEF Phases
  <2>2. PICK p \in {"remind", "attempt"} : p = "remind"
    OBVIOUS
  <2> QED
    BY <1>1, <1>4, <2>1, <2>2, TakingKeeps
<1>5. CASE ~MustRemind(scan[s].todo[k], scan[s].day) /\ MayRenew(scan[s].todo[k], scan[s].day)
  <2>1. Moves(s, "attempt", k)
    BY <1>1, <1>2, <1>3, <1>5, Moving DEF Phases, Renewing, GoOn
  <2>2. PICK p \in {"remind", "attempt"} : p = "attempt"
    OBVIOUS
  <2> QED
    BY <1>1, <1>5, <2>1, <2>2, TakingKeeps
<1>6. CASE ~MustRemind(scan[s].todo[k], scan[s].day) /\ ~MayRenew(scan[s].todo[k], scan[s].day)
  <2>1. Leaves(s, "next", DOMAIN scan[s].todo \ {k})
    BY <1>1, <1>2, <1>6, Dropping DEF Phases, GoOn
  <2> QED
    BY <1>1, <2>1, DropKeeps
<1> QED
  BY <1>4, <1>5, <1>6

LEMMA AnnounceKeeps ==
  ASSUME RenewalInv, NEW s \in Scans, Announce(s)
  PROVE  RenewalInv'
<1>1. /\ RenewalTyped /\ scan[s].pc = "announce" /\ s \in Running
      /\ UNCHANGED <<today, contract, suspended, granted, reminded, faults, seen>>
  BY AtWork DEF RenewalInv, Announce, orgs, history, At, Phases, Renewing
<1>2. PICK k : k = scan[s].at
  OBVIOUS
<1>3. Leaves(s, "next", DOMAIN scan[s].todo \ {k})
  BY <1>1, <1>2, Dropping DEF Announce, Phases
<1> QED
  BY <1>1, <1>2, <1>3, DropKeeps

LEMMA RemindKeeps ==
  ASSUME RenewalInv, NEW s \in Scans, Remind(s)
  PROVE  RenewalInv'
<1>1. /\ RenewalTyped /\ scan[s].pc = "remind" /\ s \in Running
      /\ UNCHANGED <<today, contract, suspended, granted, faults, seen>>
  BY AtWork DEF RenewalInv, Remind, orgs, At, Phases
<1>2. PICK k \in Contracts : k = scan[s].at /\ k \in DOMAIN scan[s].todo
  BY <1>1, AtWork DEF RenewalInv, ScansAreSound, Between
<1>3. PICK doc \in Docs : doc = scan[s].todo[k]
  BY <1>1, <1>2, AtWork
<1>4. MustRemind(doc, scan[s].day)
  BY <1>1, <1>2, <1>3 DEF RenewalInv, ScansAreSound, Doc
<1>5. PICK d \in ReminderDays : d = doc.end - scan[s].day /\ d \notin doc.sent
  BY <1>4 DEF MustRemind
<1>6. Moves(s, "record", k)
  BY <1>1, <1>2, Moving DEF Remind, Goto, Phases
<1>7. reminded' = [reminded EXCEPT ![k][d] = @ + 1]
  BY <1>2, <1>3, <1>5 DEF Remind, Doc
<1>8. /\ reminded' \in [Contracts -> [ReminderDays -> Nat]]
      /\ reminded'[k][d] = reminded[k][d] + 1
      /\ \A j \in Contracts, e \in ReminderDays : (j # k \/ e # d) => reminded'[j][e] = reminded[j][e]
  BY <1>1, <1>7 DEF RenewalTyped
<1>9. /\ Running' = Running /\ ~Expired(s) /\ ~Expired(s)' /\ (Alone' <=> Alone) /\ Needed' = Needed
      /\ \A t \in Running : scan'[t].todo = scan[t].todo /\ scan'[t].day = scan[t].day
      /\ \A t \in Running \ {s} : scan'[t] = scan[t]
      /\ scan'[s].pc = "record" /\ scan'[s].at = k
  BY <1>1, <1>6 DEF Moves, Expired, Alone, Needed, Running
<1>10. RenewalTyped'
  BY <1>1, <1>6, <1>8 DEF RenewalTyped, Moves
<1>11. ScansAreSound' /\ OneScan' /\ DocsAreCurrent'
  <2>1. ScansAreSound'
    BY <1>1, <1>2, <1>3, <1>4, <1>9 DEF RenewalInv, ScansAreSound, Between, MustRemind, MayRenew, Doc, Renewing
  <2>2. OneScan'
    BY <1>9 DEF RenewalInv, OneScan
  <2>3. DocsAreCurrent'
    BY <1>1, <1>2, <1>9, <2>2 DEF RenewalInv, OneScan, DocsAreCurrent, Untouched
  <2> QED
    BY <2>1, <2>2, <2>3
<1>12. TermsArePaid' /\ DocsArePaid' /\ GrantsAreExtended'
  <2>1. TermsArePaid' /\ GrantsAreExtended'
    BY <1>1, <1>9 DEF RenewalInv, TermsArePaid, Renewals, GrantsAreExtended, Extending
  <2>2. DocsArePaid'
    BY <1>1, <1>9 DEF RenewalInv, DocsArePaid, Doc
  <2> QED
    BY <2>1, <2>2
<1>13. AttemptsHaveFailed'
  BY <1>1, <1>9 DEF RenewalInv, AttemptsHaveFailed, Attempted, Trying, Expired, Doc
<1>14. GraceNeedsFailures' /\ SuspensionNeedsFailures'
  BY <1>1, <1>9 DEF RenewalInv, GraceNeedsFailures, SuspensionNeedsFailures, Expired
<1>15. GraceEndsTheTerm' /\ NotTerminatedInTerm'
  BY <1>1, <1>9 DEF RenewalInv, GraceEndsTheTerm, NotTerminatedInTerm, Expired, Active, Trying, Doc
<1>16. RemindersAreRecorded'
  <2>1. ASSUME Alone PROVE reminded[k][d] <= faults
    <3>1. d \notin contract[k].sent
      BY <1>1, <1>2, <1>3, <1>5, <1>9, <2>1 DEF RenewalInv, DocsAreCurrent, Untouched
    <3>2. ~Recording(k, d)
      BY <1>1, <2>1 DEF RenewalInv, OneScan, Recording
    <3> QED
      BY <2>1, <3>1, <3>2 DEF RenewalInv, RemindersAreRecorded
  <2>2. Recording(k, d)'
    BY <1>2, <1>3, <1>5, <1>9, <1>1 DEF Recording, Doc
  <2>3. \A j \in Contracts, e \in ReminderDays : Recording(j, e) => Recording(j, e)'
    BY <1>1, <1>9 DEF Recording, Doc
  <2>4. faults \in Nat /\ reminded[k][d] \in Nat
    BY <1>1 DEF RenewalTyped
  <2> QED
    BY <1>1, <1>8, <1>9, <2>1, <2>2, <2>3, <2>4 DEF RenewalInv, RemindersAreRecorded
<1> QED
  BY <1>10, <1>11, <1>12, <1>13, <1>14, <1>15, <1>16 DEF RenewalInv

LEMMA RecordKeeps ==
  ASSUME RenewalInv, NEW s \in Scans, RecordReminder(s)
  PROVE  RenewalInv'
<1>1. /\ RenewalTyped /\ scan[s].pc = "record" /\ s \in Running
      /\ UNCHANGED <<today, suspended, granted, reminded, faults, seen>>
  BY AtWork DEF RenewalInv, RecordReminder, orgs, history, At, Phases
<1>2. PICK k \in Contracts : k = scan[s].at /\ k \in DOMAIN scan[s].todo
  BY <1>1, AtWork DEF RenewalInv, ScansAreSound, Between
<1>3. PICK doc \in Docs : doc = scan[s].todo[k]
  BY <1>1, <1>2, AtWork
<1>4. MustRemind(doc, scan[s].day)
  BY <1>1, <1>2, <1>3 DEF RenewalInv, ScansAreSound, Doc
<1>5. PICK d \in ReminderDays : d = doc.end - scan[s].day
  BY <1>4 DEF MustRemind
<1>6. /\ contract' \in [Contracts -> Docs]
      /\ contract'[k].sent = contract[k].sent \cup {d}
      /\ \A j \in Contracts :
           /\ contract'[j].end = contract[j].end /\ contract'[j].attempts = contract[j].attempts
           /\ contract'[j].grace = contract[j].grace /\ contract'[j].status = contract[j].status
           /\ j # k => contract'[j] = contract[j]
  <2>1. contract' = [contract EXCEPT ![k].sent = @ \cup {d}]
    BY <1>2, <1>3, <1>5 DEF RecordReminder, Doc
  <2> QED
    BY <1>1, <2>1 DEF RenewalTyped, Docs
<1>7. GoOn(s, doc, k)
  BY <1>2, <1>3 DEF RecordReminder, Doc
<1>8. \/ Moves(s, "attempt", k) /\ MayRenew(doc, scan[s].day)
      \/ Leaves(s, "next", DOMAIN scan[s].todo \ {k})
  <2>1. CASE MayRenew(doc, scan[s].day)
    BY <1>1, <1>2, <1>7, <2>1, Moving DEF GoOn, Phases, Renewing
  <2>2. CASE ~MayRenew(doc, scan[s].day)
    BY <1>1, <1>7, <2>2, Dropping DEF GoOn, Phases
  <2> QED
    BY <2>1, <2>2
<1>9. /\ Running' \subseteq Running /\ Running \ {s} \subseteq Running' /\ (Alone' <=> Alone) /\ Needed' = Needed
      /\ \A t \in Running' \ {s} : scan'[t] = scan[t]
      /\ ~Expired(s)
      /\ s \in Running' =>
           /\ scan'[s].day = scan[s].day /\ DOMAIN scan'[s].todo \subseteq DOMAIN scan[s].todo
           /\ \A j \in DOMAIN scan'[s].todo : scan'[s].todo[j] = scan[s].todo[j]
           /\ \/ scan'[s].pc = "attempt" /\ scan'[s].at = k /\ MayRenew(doc, scan[s].day) /\ k \in DOMAIN scan'[s].todo
              \/ scan'[s].pc = "next" /\ k \notin DOMAIN scan'[s].todo
  BY <1>1, <1>2, <1>8 DEF Leaves, Moves, Alone, Needed, Running, Expired
<1>10. RenewalTyped'
  BY <1>1, <1>6, <1>8 DEF RenewalTyped, Leaves, Moves
<1>11. ScansAreSound' /\ OneScan' /\ DocsAreCurrent'
  <2>1. ScansAreSound'
    <3>1. \A t \in Running' \ {s} : t \in Running /\ Doc(t)' = Doc(t) /\ (Between(t)' <=> Between(t))
      BY <1>9 DEF Doc, Between
    <3>2. ASSUME s \in Running'
          PROVE  /\ scan'[s].day <= today /\ (~Between(s)' => scan'[s].at \in DOMAIN scan'[s].todo)
                 /\ scan'[s].pc \in Renewing => MayRenew(Doc(s)', scan'[s].day)
                 /\ scan'[s].pc \notin {"remind", "record"}
      BY <1>1, <1>2, <1>3, <1>9, <3>2 DEF RenewalInv, ScansAreSound, Between, Doc, Renewing
    <3> QED
      BY <1>1, <1>9, <3>1, <3>2 DEF RenewalInv, ScansAreSound, MustRemind, MayRenew
  <2>2. OneScan'
    BY <1>9 DEF RenewalInv, OneScan
  <2>3. ASSUME Alone, NEW j \in DOMAIN scan[s].todo
        PROVE  LET old == scan[s].todo[j] IN
               /\ j \in Contracts /\ old.grace = contract[j].grace /\ old.end = contract[j].end
               /\ old.attempts = contract[j].attempts /\ (j # k => old.sent = contract[j].sent)
    BY <1>1, <1>2, <1>9, <2>3, AtWork DEF RenewalInv, DocsAreCurrent, Untouched
  <2>4. DocsAreCurrent'
    BY <1>1, <1>6, <1>9, <2>3 DEF RenewalInv, OneScan, DocsAreCurrent, Untouched
  <2> QED
    BY <2>1, <2>2, <2>4
<1>12. TermsArePaid' /\ DocsArePaid' /\ GrantsAreExtended'
  <2>1. TermsArePaid' /\ GrantsAreExtended'
    BY <1>1, <1>6, <1>9 DEF RenewalInv, TermsArePaid, Renewals, GrantsAreExtended, Extending
  <2>2. DocsArePaid'
    BY <1>1, <1>9 DEF RenewalInv, DocsArePaid, Doc
  <2> QED
    BY <2>1, <2>2
<1>13. AttemptsHaveFailed'
  BY <1>1, <1>6, <1>9 DEF RenewalInv, AttemptsHaveFailed, Attempted, Trying, Expired, Doc
<1>14. GraceNeedsFailures' /\ SuspensionNeedsFailures'
  BY <1>1, <1>6, <1>9 DEF RenewalInv, GraceNeedsFailures, SuspensionNeedsFailures, Expired
<1>15. GraceEndsTheTerm' /\ NotTerminatedInTerm'
  <2>1. seen = {} => Alone
    BY DEF Alone
  <2>2. \A t \in Running : DOMAIN scan[t].todo \subseteq Contracts
    BY <1>1, AtWork DEF Running
  <2>3. GraceEndsTheTerm'
    BY <1>1, <1>6, <1>9, <2>1, <2>2 DEF RenewalInv, GraceEndsTheTerm, OneScan, Expired, Active, Trying, Doc
  <2>4. NotTerminatedInTerm'
    BY <1>1, <1>6, <1>9 DEF RenewalInv, NotTerminatedInTerm, Active
  <2> QED
    BY <2>3, <2>4
<1>16. RemindersAreRecorded'
  <2>1. \A j \in Contracts, e \in ReminderDays : Recording(j, e) => Recording(j, e)' \/ (j = k /\ e = d) \/ ~Alone
    BY <1>1, <1>2, <1>3, <1>5, <1>9 DEF RenewalInv, OneScan, Recording, Doc
  <2>2. d \in contract'[k].sent /\ \A j \in Contracts : contract[j].sent \subseteq contract'[j].sent
    BY <1>1, <1>6 DEF RenewalTyped
  <2> QED
    BY <1>1, <1>9, <2>1, <2>2 DEF RenewalInv, RemindersAreRecorded
<1> QED
  BY <1>10, <1>11, <1>12, <1>13, <1>14, <1>15, <1>16 DEF RenewalInv

LEMMA AttemptKeeps ==
  ASSUME RenewalInv, NEW s \in Scans, CountAttempt(s)
  PROVE  RenewalInv'
<1>1. /\ RenewalTyped /\ scan[s].pc = "attempt" /\ s \in Running
      /\ UNCHANGED <<today, suspended, granted, reminded, faults, seen>>
  BY AtWork DEF RenewalInv, CountAttempt, orgs, history, At, Phases, Renewing
<1>2. PICK k \in Contracts : k = scan[s].at /\ k \in DOMAIN scan[s].todo
  BY <1>1, AtWork DEF RenewalInv, ScansAreSound, Between
<1>3. PICK doc \in Docs : doc = scan[s].todo[k]
  BY <1>1, <1>2, AtWork
<1>4. MayRenew(doc, scan[s].day) /\ doc.attempts \in Nat
  BY <1>1, <1>2, <1>3 DEF RenewalInv, ScansAreSound, Doc, Renewing, Docs
<1>5. /\ contract' \in [Contracts -> Docs] /\ contract'[k].attempts = doc.attempts + 1
      /\ \A j \in Contracts :
           /\ contract'[j].end = contract[j].end /\ contract'[j].sent = contract[j].sent
           /\ contract'[j].grace = contract[j].grace /\ contract'[j].status = contract[j].status
           /\ j # k => contract'[j] = contract[j]
  <2>1. contract[k] \in Docs /\ doc.attempts + 1 \in Nat
    BY <1>1, <1>4 DEF RenewalTyped
  <2>2. PICK c : c = [contract[k] EXCEPT !.attempts = doc.attempts + 1]
    OBVIOUS
  <2>3. /\ c \in Docs /\ c.attempts = doc.attempts + 1 /\ c.end = contract[k].end /\ c.sent = contract[k].sent
        /\ c.grace = contract[k].grace /\ c.status = contract[k].status
    BY <2>1, <2>2 DEF Docs
  <2>4. contract' = [contract EXCEPT ![k] = c]
    BY <1>2, <1>3, <2>2 DEF CountAttempt, Doc
  <2> QED
    BY <1>1, <2>3, <2>4 DEF RenewalTyped
<1>6. Moves(s, "grant", k)
  BY <1>1, <1>2, Moving DEF CountAttempt, Goto, Phases, Renewing
<1>7. /\ Running' = Running /\ ~Expired(s) /\ ~Expired(s)' /\ (Alone' <=> Alone) /\ Needed' = Needed
      /\ \A t \in Running : scan'[t].todo = scan[t].todo /\ scan'[t].day = scan[t].day
      /\ \A t \in Running \ {s} : scan'[t] = scan[t]
      /\ scan'[s].pc = "grant" /\ scan'[s].at = k /\ scan[s].at = k
  BY <1>1, <1>2, <1>6 DEF Moves, Expired, Alone, Needed, Running
<1>8. RenewalTyped'
  BY <1>1, <1>5, <1>6 DEF RenewalTyped, Moves
<1>9. \A t \in Running : DOMAIN scan[t].todo \subseteq Contracts
  BY <1>1, AtWork DEF Running
<1>10. ASSUME Alone
       PROVE  doc.grace = contract[k].grace /\ doc.end = contract[k].end /\ doc.attempts = contract[k].attempts
  BY <1>1, <1>2, <1>3, <1>7, <1>10 DEF RenewalInv, DocsAreCurrent, Untouched
<1>11. ScansAreSound' /\ OneScan' /\ DocsAreCurrent'
  <2>1. ScansAreSound'
    BY <1>1, <1>2, <1>7 DEF RenewalInv, ScansAreSound, Between, MustRemind, MayRenew, Doc, Renewing
  <2>2. OneScan'
    BY <1>7 DEF RenewalInv, OneScan
  <2>3. DocsAreCurrent'
    BY <1>1, <1>5, <1>7, <1>9, <2>2 DEF RenewalInv, OneScan, DocsAreCurrent, Untouched
  <2> QED
    BY <2>1, <2>2, <2>3
<1>12. TermsArePaid' /\ DocsArePaid' /\ GrantsAreExtended'
  <2>1. TermsArePaid' /\ GrantsAreExtended'
    BY <1>1, <1>5, <1>7 DEF RenewalInv, TermsArePaid, Renewals, GrantsAreExtended, Extending
  <2>2. DocsArePaid'
    BY <1>1, <1>7 DEF RenewalInv, DocsArePaid, Doc
  <2> QED
    BY <2>1, <2>2
<1>13. AttemptsHaveFailed'
  <2>1. Alone => doc.attempts <= faults /\ faults \in Nat
    BY <1>1, <1>2, <1>3, <1>7 DEF RenewalInv, AttemptsHaveFailed, RenewalTyped
  <2>2. Alone => contract'[k].attempts <= faults + 1
    BY <1>4, <1>5, <2>1
  <2>3. Attempted(k)' /\ \A j \in Contracts : Attempted(j) => Attempted(j)'
    BY <1>1, <1>7 DEF Attempted, Trying
  <2>4. Alone => \A j \in Contracts :
          /\ contract'[j].attempts <= faults' + 1
          /\ ~Attempted(j)' => contract'[j].attempts <= faults'
    BY <1>1, <1>5, <2>2, <2>3 DEF RenewalInv, AttemptsHaveFailed
  <2>5. Alone => \A t \in Running' : ~Expired(t)' =>
          /\ \A j \in DOMAIN scan'[t].todo : scan'[t].todo[j].attempts <= faults'
          /\ scan'[t].pc = "failed" => Doc(t)'.attempts + 1 <= faults'
    BY <1>1, <1>7 DEF RenewalInv, AttemptsHaveFailed, Expired, Doc
  <2> QED
    BY <1>7, <2>4, <2>5 DEF AttemptsHaveFailed
<1>14. GraceNeedsFailures' /\ SuspensionNeedsFailures'
  BY <1>1, <1>5, <1>7 DEF RenewalInv, GraceNeedsFailures, SuspensionNeedsFailures, Expired
<1>15. GraceEndsTheTerm' /\ NotTerminatedInTerm'
  <2>1. seen = {} => Alone
    BY DEF Alone
  <2>2. seen = {} => doc.grace = None
    <3>1. MaxAttempts \in Nat \ {0} /\ doc.attempts \in Nat
      BY <1>4, DaysAssumption
    <3> QED
      BY <1>4, <1>10, <2>1, <3>1 DEF RenewalInv, GraceEndsTheTerm, MayRenew
  <2>3. GraceEndsTheTerm'
    BY <1>1, <1>2, <1>3, <1>5, <1>7, <1>9, <1>10, <2>1, <2>2
    DEF RenewalInv, GraceEndsTheTerm, OneScan, Expired, Active, Trying, Doc
  <2>4. NotTerminatedInTerm'
    BY <1>1, <1>5, <1>7 DEF RenewalInv, NotTerminatedInTerm, Active
  <2> QED
    BY <2>3, <2>4
<1>16. RemindersAreRecorded'
  BY <1>1, <1>5, <1>7 DEF RenewalInv, RemindersAreRecorded, Recording, Doc
<1> QED
  BY <1>8, <1>11, <1>12, <1>13, <1>14, <1>15, <1>16 DEF RenewalInv

LEMMA GrantKeeps ==
  ASSUME RenewalInv, NEW s \in Scans, Grant(s)
  PROVE  RenewalInv'
<1>1. /\ RenewalTyped /\ scan[s].pc = "grant" /\ s \in Running
      /\ UNCHANGED <<today, contract, suspended, reminded, faults, seen>>
  BY AtWork DEF RenewalInv, Grant, history, At, Phases, Renewing
<1>2. PICK k \in Contracts : k = scan[s].at /\ k \in DOMAIN scan[s].todo
  BY <1>1, AtWork DEF RenewalInv, ScansAreSound, Between
<1>3. PICK doc \in Docs : doc = scan[s].todo[k]
  BY <1>1, <1>2, AtWork
<1>4. /\ granted' \in [Contracts -> Nat] /\ granted'[k] = granted[k] + 1
      /\ \A j \in Contracts : granted[j] \in Nat /\ granted'[j] \in Nat /\ (j # k => granted'[j] = granted[j])
      /\ \A j \in Contracts : granted[j] <= granted'[j]
  BY <1>1, <1>2 DEF Grant, RenewalTyped
<1>5. Moves(s, "extend", k)
  BY <1>1, <1>2, Moving DEF Grant, Goto, Phases, Renewing
<1>6. /\ Running' = Running /\ ~Expired(s) /\ ~Expired(s)' /\ (Alone' <=> Alone) /\ Needed' = Needed
      /\ \A t \in Running : scan'[t].todo = scan[t].todo /\ scan'[t].day = scan[t].day
      /\ \A t \in Running \ {s} : scan'[t] = scan[t]
      /\ scan'[s].pc = "extend" /\ scan'[s].at = k /\ scan[s].at = k
  BY <1>1, <1>2, <1>5 DEF Moves, Expired, Alone, Needed, Running
<1>7. RenewalTyped'
  BY <1>1, <1>4, <1>5 DEF RenewalTyped, Moves
<1>8. \A t \in Running : /\ DOMAIN scan[t].todo \subseteq Contracts
                         /\ \A j \in DOMAIN scan[t].todo : scan[t].todo[j].end \in Int /\ Term(scan[t].todo[j].end) \in Int
  BY <1>1, AtWork, Terms DEF Running, Docs
<1>9. \A j \in Contracts : Term(contract[j].end) \in Int
  BY <1>1, Terms DEF RenewalTyped, Docs
<1>10. ScansAreSound' /\ OneScan' /\ DocsAreCurrent'
  <2>1. ScansAreSound'
    BY <1>1, <1>2, <1>6 DEF RenewalInv, ScansAreSound, Between, MustRemind, MayRenew, Doc, Renewing
  <2>2. OneScan'
    BY <1>6 DEF RenewalInv, OneScan
  <2>3. DocsAreCurrent'
    BY <1>1, <1>6, <2>2 DEF RenewalInv, OneScan, DocsAreCurrent, Untouched
  <2> QED
    BY <2>1, <2>2, <2>3
<1>11. TermsArePaid'
  BY <1>1, <1>4, <1>9, Renewed DEF RenewalInv, TermsArePaid, Renewals, Term
<1>12. DocsArePaid'
  <2>1. \A t \in Running : \A j \in DOMAIN scan[t].todo : Term(scan[t].todo[j].end) <= granted'[j]
    <3>1. SUFFICES ASSUME NEW t \in Running, NEW j \in DOMAIN scan[t].todo
                   PROVE  Term(scan[t].todo[j].end) <= granted'[j]
      OBVIOUS
    <3>2. Term(scan[t].todo[j].end) <= granted[j]
      BY DEF RenewalInv, DocsArePaid
    <3> QED
      BY <1>4, <1>8, <3>2
  <2>2. Term(doc.end) + 1 <= granted'[k]
    <3>1. Term(doc.end) <= granted[k] /\ Term(doc.end) \in Int
      BY <1>1, <1>2, <1>3, <1>8 DEF RenewalInv, DocsArePaid
    <3> QED
      BY <1>4, <3>1
  <2>3. \A t \in Running \ {s} : scan[t].pc = "extend" =>
          scan[t].at \in DOMAIN scan[t].todo /\ Term(Doc(t).end) + 1 <= granted'[scan[t].at]
    <3>1. SUFFICES ASSUME NEW t \in Running, scan[t].pc = "extend"
                   PROVE  scan[t].at \in DOMAIN scan[t].todo /\ Term(Doc(t).end) + 1 <= granted'[scan[t].at]
      OBVIOUS
    <3>2. scan[t].at \in DOMAIN scan[t].todo
      BY <3>1 DEF RenewalInv, ScansAreSound, Between
    <3>3. Term(Doc(t).end) + 1 <= granted[scan[t].at]
      BY <3>1 DEF RenewalInv, DocsArePaid
    <3>4. scan[t].at \in Contracts /\ Term(Doc(t).end) \in Int
      BY <1>8, <3>2 DEF Doc
    <3> QED
      BY <1>4, <3>2, <3>3, <3>4
  <2> QED
    BY <1>2, <1>3, <1>6, <2>1, <2>2, <2>3 DEF DocsArePaid, Doc
<1>13. GrantsAreExtended'
  <2>1. Alone => ~Extending(k)
    BY <1>1 DEF RenewalInv, OneScan, Extending
  <2>2. Alone => granted[k] <= Renewals(k) + faults
    BY <2>1 DEF RenewalInv, GrantsAreExtended
  <2>3. Renewals(k) \in Int /\ faults \in Nat
    BY <1>1, <1>9, Renewed DEF RenewalTyped
  <2>4. Alone => granted'[k] <= Renewals(k) + faults + 1
    BY <1>4, <2>2, <2>3
  <2>5. Extending(k)' /\ \A j \in Contracts : Extending(j) => Extending(j)'
    BY <1>1, <1>6 DEF Extending
  <2>6. \A j \in Contracts : Renewals(j)' = Renewals(j)
    BY <1>1 DEF Renewals
  <2> QED
    BY <1>1, <1>4, <1>6, <2>4, <2>5, <2>6 DEF RenewalInv, GrantsAreExtended
<1>14. AttemptsHaveFailed'
  BY <1>1, <1>6 DEF RenewalInv, AttemptsHaveFailed, Attempted, Trying, Expired, Doc
<1>15. GraceNeedsFailures' /\ SuspensionNeedsFailures'
  BY <1>1, <1>6 DEF RenewalInv, GraceNeedsFailures, SuspensionNeedsFailures, Expired
<1>16. GraceEndsTheTerm' /\ NotTerminatedInTerm'
  BY <1>1, <1>6 DEF RenewalInv, GraceEndsTheTerm, NotTerminatedInTerm, Expired, Active, Trying, Doc
<1>17. RemindersAreRecorded'
  BY <1>1, <1>6 DEF RenewalInv, RemindersAreRecorded, Recording, Doc
<1> QED
  BY <1>7, <1>10, <1>11, <1>12, <1>13, <1>14, <1>15, <1>16, <1>17 DEF RenewalInv

LEMMA ExtendKeeps ==
  ASSUME RenewalInv, NEW s \in Scans, Extend(s)
  PROVE  RenewalInv'
<1>1. /\ RenewalTyped /\ scan[s].pc = "extend" /\ s \in Running
      /\ UNCHANGED <<today, suspended, granted, faults, seen>>
  BY AtWork DEF RenewalInv, Extend, orgs, At, Phases, Renewing
<1>2. PICK k \in Contracts : k = scan[s].at /\ k \in DOMAIN scan[s].todo
  BY <1>1, AtWork DEF RenewalInv, ScansAreSound, Between
<1>3. PICK doc \in Docs : doc = scan[s].todo[k]
  BY <1>1, <1>2, AtWork
<1>4. /\ contract' \in [Contracts -> Docs]
      /\ contract'[k].end = doc.end + Period /\ contract'[k].attempts = 0 /\ contract'[k].sent = {}
      /\ \A j \in Contracts :
           /\ contract'[j].grace = contract[j].grace /\ contract'[j].status = contract[j].status
           /\ j # k => contract'[j] = contract[j]
  <2>1. contract[k] \in Docs /\ doc.end + Period \in Nat
    BY <1>1, DaysAssumption DEF RenewalTyped, Docs
  <2>2. PICK c : c = Extended(contract[k], doc.end + Period)
    OBVIOUS
  <2>3. /\ c \in Docs /\ c.end = doc.end + Period /\ c.attempts = 0 /\ c.sent = {}
        /\ c.grace = contract[k].grace /\ c.status = contract[k].status
    BY <2>1, <2>2 DEF Docs, Extended
  <2>4. contract' = [contract EXCEPT ![k] = c]
    BY <1>2, <1>3, <2>2 DEF Extend, Doc, Extended
  <2> QED
    BY <1>1, <2>3, <2>4 DEF RenewalTyped
<1>5. Moves(s, "announce", k)
  BY <1>1, <1>2, Moving DEF Extend, Goto, Phases, Renewing
<1>6. /\ Running' = Running /\ ~Expired(s) /\ ~Expired(s)' /\ (Alone' <=> Alone) /\ Needed' = Needed
      /\ \A t \in Running : scan'[t].todo = scan[t].todo /\ scan'[t].day = scan[t].day
      /\ \A t \in Running \ {s} : scan'[t] = scan[t]
      /\ scan'[s].pc = "announce" /\ scan'[s].at = k /\ scan[s].at = k
  BY <1>1, <1>2, <1>5 DEF Moves, Expired, Alone, Needed, Running
<1>7. /\ reminded' \in [Contracts -> [ReminderDays -> Nat]]
      /\ \A d \in ReminderDays : reminded'[k][d] = 0
      /\ \A j \in Contracts : j # k => reminded'[j] = reminded[j]
  BY <1>1, <1>2 DEF Extend, RenewalTyped
<1>8. RenewalTyped'
  BY <1>1, <1>4, <1>5, <1>7 DEF RenewalTyped, Moves
<1>9. \A t \in Running : DOMAIN scan[t].todo \subseteq Contracts
  BY <1>1, AtWork DEF Running
<1>10. Alone => doc.grace = contract[k].grace /\ doc.end = contract[k].end
  BY <1>1, <1>2, <1>3, <1>6 DEF RenewalInv, DocsAreCurrent, Untouched
<1>11. /\ doc.end \in Int /\ Term(doc.end) \in Int /\ Term(contract'[k].end) = Term(doc.end) + 1
       /\ Renewals(k)' = Term(contract'[k].end)
       /\ \A j \in Contracts \ {k} : Renewals(j)' = Renewals(j)
  BY <1>4, Terms DEF Docs, Renewals, Term
<1>12. ScansAreSound' /\ OneScan' /\ DocsAreCurrent'
  <2>1. ScansAreSound'
    BY <1>1, <1>2, <1>6 DEF RenewalInv, ScansAreSound, Between, MustRemind, MayRenew, Doc, Renewing
  <2>2. OneScan'
    BY <1>6 DEF RenewalInv, OneScan
  <2>3. DocsAreCurrent'
    BY <1>1, <1>4, <1>6, <1>9, <2>2 DEF RenewalInv, OneScan, DocsAreCurrent, Untouched
  <2> QED
    BY <2>1, <2>2, <2>3
<1>13. TermsArePaid' /\ DocsArePaid'
  <2>1. Term(doc.end) + 1 <= granted[k]
    BY <1>1, <1>2, <1>3 DEF RenewalInv, DocsArePaid, Doc
  <2>2. TermsArePaid'
    BY <1>1, <1>11, <2>1 DEF RenewalInv, TermsArePaid
  <2>3. DocsArePaid'
    BY <1>1, <1>6 DEF RenewalInv, DocsArePaid, Doc
  <2> QED
    BY <2>2, <2>3
<1>14. GrantsAreExtended'
  <2>1. Alone => Renewals(k)' = Renewals(k) + 1 /\ Renewals(k) \in Int
    BY <1>10, <1>11, Renewed
  <2>2. Alone => granted[k] <= Renewals(k) + faults + 1
    BY DEF RenewalInv, GrantsAreExtended
  <2>3. faults \in Nat /\ granted[k] \in Nat
    BY <1>1 DEF RenewalTyped
  <2>4. Alone => granted[k] <= Renewals(k)' + faults /\ granted[k] <= Renewals(k)' + faults + 1
    BY <2>1, <2>2, <2>3
  <2>5. \A j \in Contracts \ {k} : Extending(j) => Extending(j)'
    BY <1>1, <1>6 DEF Extending
  <2> QED
    BY <1>1, <1>6, <1>11, <2>4, <2>5 DEF RenewalInv, GrantsAreExtended
<1>15. AttemptsHaveFailed'
  <2>1. faults \in Nat
    BY <1>1 DEF RenewalTyped
  <2>2. \A j \in Contracts \ {k} : Attempted(j) => Attempted(j)'
    BY <1>1, <1>6 DEF Attempted, Trying
  <2>3. Alone => \A j \in Contracts :
          /\ contract'[j].attempts <= faults' + 1
          /\ ~Attempted(j)' => contract'[j].attempts <= faults'
    BY <1>1, <1>4, <2>1, <2>2 DEF RenewalInv, AttemptsHaveFailed
  <2>4. Alone => \A t \in Running' : ~Expired(t)' =>
          /\ \A j \in DOMAIN scan'[t].todo : scan'[t].todo[j].attempts <= faults'
          /\ scan'[t].pc = "failed" => Doc(t)'.attempts + 1 <= faults'
    BY <1>1, <1>6 DEF RenewalInv, AttemptsHaveFailed, Expired, Doc
  <2> QED
    BY <1>6, <2>3, <2>4 DEF AttemptsHaveFailed
<1>16. GraceNeedsFailures' /\ SuspensionNeedsFailures'
  BY <1>1, <1>4, <1>6 DEF RenewalInv, GraceNeedsFailures, SuspensionNeedsFailures, Expired
<1>17. GraceEndsTheTerm' /\ NotTerminatedInTerm'
  <2>1. seen = {} => Alone
    BY DEF Alone
  <2>2. seen = {} => contract[k].grace = None /\ Active(k)
    BY <1>1, <1>2, <1>3, <1>6, <1>10, <2>1 DEF RenewalInv, GraceEndsTheTerm, Doc, Trying
  <2>3. GraceEndsTheTerm'
    BY <1>1, <1>4, <1>6, <1>9, <2>1, <2>2 DEF RenewalInv, GraceEndsTheTerm, OneScan, Expired, Active, Trying, Doc
  <2>4. NotTerminatedInTerm'
    BY <1>1, <1>4, <2>2 DEF RenewalInv, NotTerminatedInTerm, Active
  <2> QED
    BY <2>3, <2>4
<1>18. RemindersAreRecorded'
  <2>1. faults \in Nat
    BY <1>1 DEF RenewalTyped
  <2>2. \A j \in Contracts, e \in ReminderDays : Recording(j, e) => Recording(j, e)'
    BY <1>1, <1>6 DEF Recording, Doc
  <2> QED
    BY <1>1, <1>4, <1>6, <1>7, <2>1, <2>2 DEF RenewalInv, RemindersAreRecorded
<1> QED
  BY <1>8, <1>12, <1>13, <1>14, <1>15, <1>16, <1>17, <1>18 DEF RenewalInv

LEMMA GiveUpKeeps ==
  ASSUME RenewalInv, NEW s \in Scans, GiveUp(s)
  PROVE  RenewalInv'
<1>1. /\ RenewalTyped /\ scan[s].pc = "failed" /\ s \in Running
      /\ UNCHANGED <<today, suspended, granted, reminded, faults, seen>>
  BY AtWork DEF RenewalInv, GiveUp, orgs, history, At, Phases, Renewing
<1>2. PICK k \in Contracts : k = scan[s].at /\ k \in DOMAIN scan[s].todo
  BY <1>1, AtWork DEF RenewalInv, ScansAreSound, Between
<1>3. PICK doc \in Docs : doc = scan[s].todo[k]
  BY <1>1, <1>2, AtWork
<1>4. /\ scan[s].day \in Nat /\ doc.attempts \in Nat /\ doc.end \in Nat /\ today \in Nat /\ faults \in Nat
      /\ Grace \in Nat /\ MaxAttempts \in Nat \ {0} /\ scan[s].day <= today /\ doc.end <= scan[s].day
  BY <1>1, <1>2, <1>3, AtWork, DaysAssumption
  DEF RenewalTyped, Docs, RenewalInv, ScansAreSound, MayRenew, Doc, Renewing
<1>5. /\ contract' \in [Contracts -> Docs]
      /\ \A j \in Contracts :
           /\ contract'[j].end = contract[j].end /\ contract'[j].attempts = contract[j].attempts
           /\ contract'[j].sent = contract[j].sent /\ contract'[j].status = contract[j].status
           /\ j # k => contract'[j] = contract[j]
      /\ contract'[k].grace # contract[k].grace => doc.attempts + 1 >= MaxAttempts
  <2>1. contract[k] \in Docs
    BY <1>1 DEF RenewalTyped
  <2>2. PICK g \in Nat \cup {None} :
          /\ g = IF doc.attempts + 1 >= MaxAttempts THEN scan[s].day + Grace ELSE contract[k].grace
          /\ g # contract[k].grace => doc.attempts + 1 >= MaxAttempts
    <3>1. scan[s].day + Grace \in Nat /\ contract[k].grace \in Nat \cup {None}
      BY <1>4, <2>1 DEF Docs
    <3>2. CASE doc.attempts + 1 >= MaxAttempts
      BY <3>1, <3>2
    <3>3. CASE ~(doc.attempts + 1 >= MaxAttempts)
      BY <3>1, <3>3
    <3> QED
      BY <3>2, <3>3
  <2>3. PICK c : c = [contract[k] EXCEPT !.grace = g]
    OBVIOUS
  <2>4. /\ c \in Docs /\ c.attempts = contract[k].attempts /\ c.end = contract[k].end
        /\ c.sent = contract[k].sent /\ c.grace = g /\ c.status = contract[k].status
    BY <2>1, <2>3 DEF Docs
  <2>5. contract' = [contract EXCEPT ![k] = c]
    BY <1>2, <1>3, <2>2, <2>3 DEF GiveUp, Doc, LastAttempt
  <2> QED
    BY <1>1, <2>2, <2>4, <2>5 DEF RenewalTyped
<1>6. Leaves(s, "next", DOMAIN scan[s].todo \ {k})
  BY <1>1, <1>2, Dropping DEF GiveUp, Phases
<1>7. /\ Running' \subseteq Running /\ Running \ {s} \subseteq Running' /\ (Alone' <=> Alone) /\ Needed' = Needed
      /\ \A t \in Running' \ {s} : scan'[t] = scan[t]
      /\ ~Expired(s)
      /\ s \in Running' => /\ scan'[s].pc = "next" /\ scan'[s].day = scan[s].day
                           /\ DOMAIN scan'[s].todo = DOMAIN scan[s].todo \ {k}
                           /\ \A j \in DOMAIN scan'[s].todo : scan'[s].todo[j] = scan[s].todo[j]
  BY <1>1, <1>6 DEF Leaves, Alone, Needed, Running, Expired
<1>8. RenewalTyped'
  BY <1>1, <1>5, <1>6 DEF RenewalTyped, Leaves
<1>9. \A t \in Running : DOMAIN scan[t].todo \subseteq Contracts
  BY <1>1, AtWork DEF Running
<1>10. ScansAreSound' /\ OneScan' /\ DocsAreCurrent'
  <2>1. ScansAreSound'
    BY <1>1, <1>7 DEF RenewalInv, ScansAreSound, Between, MustRemind, MayRenew, Doc, Renewing
  <2>2. OneScan'
    BY <1>7 DEF RenewalInv, OneScan
  <2>3. ASSUME Alone, NEW j \in DOMAIN scan[s].todo \ {k}
        PROVE  LET old == scan[s].todo[j] IN
               /\ j \in Contracts
               /\ old.grace = contract[j].grace /\ old.end = contract[j].end
               /\ old.attempts = contract[j].attempts /\ old.sent = contract[j].sent
    BY <1>1, <1>2, <1>7, <1>9, <2>3 DEF RenewalInv, DocsAreCurrent, Untouched
  <2>4. DocsAreCurrent'
    BY <1>1, <1>5, <1>7, <2>3 DEF RenewalInv, OneScan, DocsAreCurrent
  <2> QED
    BY <2>1, <2>2, <2>4
<1>11. TermsArePaid' /\ DocsArePaid' /\ GrantsAreExtended'
  <2>1. TermsArePaid' /\ GrantsAreExtended'
    BY <1>1, <1>5, <1>7 DEF RenewalInv, TermsArePaid, Renewals, GrantsAreExtended, Extending
  <2>2. DocsArePaid'
    BY <1>1, <1>7 DEF RenewalInv, DocsArePaid, Doc
  <2> QED
    BY <2>1, <2>2
<1>12. AttemptsHaveFailed'
  BY <1>1, <1>5, <1>7 DEF RenewalInv, AttemptsHaveFailed, Attempted, Trying, Expired, Doc
<1>13. GraceNeedsFailures' /\ SuspensionNeedsFailures'
  <2>1. doc.attempts + 1 >= MaxAttempts => faults >= Needed
    <3>1. CASE Alone
      <4>1. doc.attempts + 1 <= faults
        BY <1>1, <1>2, <1>3, <1>7, <3>1 DEF RenewalInv, AttemptsHaveFailed, Doc
      <4> QED
        BY <1>4, <3>1, <4>1 DEF Needed
    <3>2. CASE ~Alone
      BY <1>1, <3>2 DEF RenewalInv, GraceNeedsFailures, Needed
    <3> QED
      BY <3>1, <3>2
  <2>2. \A j \in Contracts : contract'[j].grace # None => faults >= Needed
    BY <1>5, <2>1 DEF RenewalInv, GraceNeedsFailures
  <2>3. GraceNeedsFailures'
    BY <1>1, <1>7, <2>2 DEF RenewalInv, GraceNeedsFailures, Expired
  <2>4. SuspensionNeedsFailures'
    BY <1>1 DEF RenewalInv, SuspensionNeedsFailures
  <2> QED
    BY <2>3, <2>4
<1>14. GraceEndsTheTerm' /\ NotTerminatedInTerm'
  <2>1. seen = {} => Alone
    BY DEF Alone
  <2>2. ASSUME seen = {}, doc.attempts + 1 >= MaxAttempts
        PROVE  contract[k].attempts >= MaxAttempts /\ contract[k].end <= today
    <3>1. contract[k].attempts = doc.attempts + 1 /\ contract[k].end = doc.end
      BY <1>1, <1>2, <1>3, <2>2 DEF RenewalInv, GraceEndsTheTerm, Doc
    <3> QED
      BY <1>4, <2>2, <3>1
  <2>3. GraceEndsTheTerm'
    BY <1>1, <1>5, <1>7, <1>9, <2>1, <2>2 DEF RenewalInv, GraceEndsTheTerm, OneScan, Expired, Active, Trying, Doc
  <2>4. NotTerminatedInTerm'
    BY <1>1, <1>5 DEF RenewalInv, NotTerminatedInTerm, Active
  <2> QED
    BY <2>3, <2>4
<1>15. RemindersAreRecorded'
  BY <1>1, <1>5, <1>7 DEF RenewalInv, RemindersAreRecorded, Recording, Doc
<1> QED
  BY <1>8, <1>10, <1>11, <1>12, <1>13, <1>14, <1>15 DEF RenewalInv

LEMMA CancelKeeps ==
  ASSUME RenewalInv, NEW k \in Contracts, Cancel(k)
  PROVE  RenewalInv'
<1>1. /\ RenewalTyped
      /\ UNCHANGED <<today, granted, scan, reminded, faults>>
      /\ suspended' = suspended \cup {k} /\ seen' = seen \cup {"cancelled"}
  BY DEF RenewalInv, Cancel
<1>2. /\ contract' \in [Contracts -> Docs]
      /\ \A j \in Contracts :
           /\ contract'[j].end = contract[j].end /\ contract'[j].attempts = contract[j].attempts
           /\ contract'[j].grace = contract[j].grace /\ contract'[j].sent = contract[j].sent
  BY <1>1 DEF Cancel, RenewalTyped, Docs
<1>3. Running' = Running /\ (Alone' <=> Alone) /\ Needed' = Needed /\ seen' # {} /\ "cancelled" \in seen'
  BY <1>1 DEF Running, Alone, Needed
<1>4. RenewalTyped'
  BY <1>1, <1>2 DEF RenewalTyped
<1>5. \A t \in Running : DOMAIN scan[t].todo \subseteq Contracts
  BY <1>1, AtWork DEF Running
<1>6. ScansAreSound' /\ OneScan' /\ DocsAreCurrent'
  <2>1. ScansAreSound'
    BY <1>1, <1>3 DEF RenewalInv, ScansAreSound, Between, MustRemind, MayRenew, Doc, Renewing
  <2>2. OneScan'
    BY <1>3 DEF RenewalInv, OneScan
  <2>3. DocsAreCurrent'
    BY <1>1, <1>2, <1>3, <1>5 DEF RenewalInv, DocsAreCurrent, Untouched, Expired
  <2> QED
    BY <2>1, <2>2, <2>3
<1>7. TermsArePaid' /\ DocsArePaid' /\ GrantsAreExtended'
  BY <1>1, <1>2, <1>3 DEF RenewalInv, TermsArePaid, Renewals, GrantsAreExtended, Extending, DocsArePaid, Doc
<1>8. AttemptsHaveFailed'
  BY <1>1, <1>2, <1>3 DEF RenewalInv, AttemptsHaveFailed, Attempted, Trying, Expired, Doc
<1>9. GraceNeedsFailures' /\ SuspensionNeedsFailures' /\ GraceEndsTheTerm' /\ NotTerminatedInTerm'
  BY <1>1, <1>2, <1>3
  DEF RenewalInv, GraceNeedsFailures, SuspensionNeedsFailures, GraceEndsTheTerm, NotTerminatedInTerm, Expired
<1>10. RemindersAreRecorded'
  BY <1>1, <1>2, <1>3 DEF RenewalInv, RemindersAreRecorded, Recording, Doc
<1> QED
  BY <1>4, <1>6, <1>7, <1>8, <1>9, <1>10 DEF RenewalInv

LEMMA NextDayKeeps ==
  ASSUME RenewalInv, NextDay
  PROVE  RenewalInv'
<1>1. /\ RenewalTyped /\ today' = today + 1 /\ today \in Nat
      /\ UNCHANGED <<contract, suspended, granted, scan, reminded, faults, seen>>
  BY DEF RenewalInv, NextDay, orgs, history, RenewalTyped
<1>2. Running' = Running /\ (Alone' <=> Alone) /\ Needed' = Needed
  BY <1>1 DEF Running, Alone, Needed
<1>3. /\ \A t \in Running : scan[t].day \in Nat /\ DOMAIN scan[t].todo \subseteq Contracts
      /\ \A k \in Contracts : contract[k].end \in Nat
  BY <1>1, AtWork DEF Running, RenewalTyped, Docs
<1>4. RenewalTyped'
  BY <1>1 DEF RenewalTyped
<1>5. ScansAreSound' /\ OneScan' /\ DocsAreCurrent'
  <2>1. \A t \in Running : scan[t].day <= today'
    BY <1>1, <1>3 DEF RenewalInv, ScansAreSound
  <2>2. ScansAreSound'
    BY <1>1, <1>2, <2>1 DEF RenewalInv, ScansAreSound, Between, MustRemind, MayRenew, Doc, Renewing
  <2>3. OneScan' /\ DocsAreCurrent'
    BY <1>1, <1>2 DEF RenewalInv, OneScan, DocsAreCurrent, Untouched, Expired
  <2> QED
    BY <2>2, <2>3
<1>6. TermsArePaid' /\ DocsArePaid' /\ GrantsAreExtended'
  BY <1>1, <1>2 DEF RenewalInv, TermsArePaid, Renewals, GrantsAreExtended, Extending, DocsArePaid, Doc
<1>7. AttemptsHaveFailed' /\ GraceNeedsFailures' /\ SuspensionNeedsFailures'
  BY <1>1, <1>2 DEF RenewalInv, AttemptsHaveFailed, Attempted, Expired, Doc, GraceNeedsFailures, SuspensionNeedsFailures
<1>8. GraceEndsTheTerm' /\ NotTerminatedInTerm'
  <2>1. \A k \in Contracts : contract[k].end <= today => contract[k].end <= today'
    BY <1>1, <1>3
  <2> QED
    BY <1>1, <1>2, <2>1 DEF RenewalInv, GraceEndsTheTerm, NotTerminatedInTerm, Expired, Active, Trying, Doc
<1>9. RemindersAreRecorded'
  BY <1>1, <1>2 DEF RenewalInv, RemindersAreRecorded, Recording, Doc
<1> QED
  BY <1>4, <1>5, <1>6, <1>7, <1>8, <1>9 DEF RenewalInv

LEMMA FaultKeeps ==
  ASSUME RenewalInv, NEW s \in Scans, Fault(s)
  PROVE  RenewalInv'
<1>1. /\ RenewalTyped /\ s \in Running /\ faults \in Nat /\ faults' = faults + 1
      /\ UNCHANGED <<today, contract, suspended, granted, reminded>>
  BY DEF RenewalInv, Fault, orgs, RenewalTyped, Running
<1>2. PICK k : k = scan[s].at
  OBVIOUS
<1>3. \/ /\ Moves(s, "failed", k) /\ scan[s].pc \in {"grant", "extend", "announce"}
         /\ seen' = IF scan[s].pc = "announce" THEN seen \cup {"unannounced"} ELSE seen
      \/ scan' = [scan EXCEPT ![s] = NoScan] /\ seen' = seen
  <2>1. k \in Contracts \cup {Nobody}
    BY <1>1, <1>2, AtWork
  <2>2. CASE scan[s].pc = "announce" /\ scan' = [scan EXCEPT ![s].pc = "failed"] /\ seen' = seen \cup {"unannounced"}
    BY <1>1, <1>2, <2>1, <2>2, Moving DEF Phases, Renewing
  <2>3. CASE scan[s].pc \in {"grant", "extend"} /\ scan' = [scan EXCEPT ![s].pc = "failed"] /\ seen' = seen
    BY <1>1, <1>2, <2>1, <2>3, Moving DEF Phases, Renewing
  <2>4. CASE scan' = [scan EXCEPT ![s] = NoScan] /\ seen' = seen
    BY <2>4
  <2> QED
    BY <2>2, <2>3, <2>4 DEF Fault, At, Goto, InTry
<1>4. /\ scan' \in [Scans -> {NoScan} \cup ScanRecords]
      /\ Running' \subseteq Running /\ Running \ {s} \subseteq Running'
      /\ \A t \in Running' \ {s} : scan'[t] = scan[t]
      /\ s \in Running' =>
           /\ scan'[s].pc = "failed" /\ scan'[s].at = scan[s].at /\ scan'[s].day = scan[s].day
           /\ scan'[s].todo = scan[s].todo /\ scan[s].pc \in {"grant", "extend", "announce"}
           /\ scan[s].pc = "announce" => seen' # {}
  BY <1>1, <1>2, <1>3 DEF Moves, RenewalTyped, Running
<1>5. /\ (Alone' <=> Alone) /\ Needed' = Needed /\ (seen' = {} => seen = {})
      /\ ("cancelled" \in seen' <=> "cancelled" \in seen) /\ ("overlap" \in seen' <=> "overlap" \in seen)
  BY <1>3 DEF Alone, Needed
<1>6. RenewalTyped'
  BY <1>1, <1>4 DEF RenewalTyped
<1>7. \A t \in Running : /\ DOMAIN scan[t].todo \subseteq Contracts
                         /\ \A j \in DOMAIN scan[t].todo : scan[t].todo[j].attempts \in Nat
  BY <1>1, AtWork DEF Running, Docs
<1>8. ScansAreSound' /\ OneScan' /\ DocsAreCurrent'
  <2>1. ScansAreSound'
    BY <1>1, <1>4 DEF RenewalInv, ScansAreSound, Between, MustRemind, MayRenew, Doc, Renewing
  <2>2. OneScan'
    BY <1>4, <1>5 DEF RenewalInv, OneScan
  <2>3. DocsAreCurrent'
    BY <1>1, <1>4, <1>5 DEF RenewalInv, DocsAreCurrent, Untouched, Expired
  <2> QED
    BY <2>1, <2>2, <2>3
<1>9. TermsArePaid' /\ DocsArePaid'
  BY <1>1, <1>4 DEF RenewalInv, TermsArePaid, Renewals, DocsArePaid, Doc
<1>10. GrantsAreExtended'
  <2>1. \A j \in Contracts : /\ Renewals(j)' = Renewals(j) /\ Renewals(j) \in Int
                             /\ granted[j] \in Nat /\ granted'[j] = granted[j]
    BY <1>1, Terms, Renewed DEF RenewalTyped, Docs, Renewals
  <2>2. Alone => \A j \in Contracts : granted[j] <= Renewals(j) + faults + 1
    BY DEF RenewalInv, GrantsAreExtended
  <2>3. Alone => \A j \in Contracts : granted'[j] <= Renewals(j)' + faults' /\ granted'[j] <= Renewals(j)' + faults' + 1
    BY <1>1, <2>1, <2>2
  <2> QED
    BY <1>5, <2>3 DEF GrantsAreExtended
<1>11. AttemptsHaveFailed'
  <2>1. \A j \in Contracts : contract[j].attempts \in Nat
    BY <1>1 DEF RenewalTyped, Docs
  <2>2. Alone => \A j \in Contracts : contract'[j].attempts <= faults' /\ contract'[j].attempts <= faults' + 1
    BY <1>1, <2>1 DEF RenewalInv, AttemptsHaveFailed
  <2>3. ASSUME Alone, NEW t \in Running', ~Expired(t)'
        PROVE  /\ \A j \in DOMAIN scan'[t].todo : scan'[t].todo[j].attempts <= faults'
               /\ scan'[t].pc = "failed" => Doc(t)'.attempts + 1 <= faults'
    <3>1. t \in Running /\ ~Expired(t) /\ scan'[t].todo = scan[t].todo /\ scan'[t].at = scan[t].at
      BY <1>1, <1>4, <2>3 DEF Expired
    <3>2. \A j \in DOMAIN scan[t].todo : scan[t].todo[j].attempts <= faults
      BY <2>3, <3>1 DEF RenewalInv, AttemptsHaveFailed
    <3>3. \A j \in DOMAIN scan[t].todo : scan[t].todo[j].attempts <= faults' /\ scan[t].todo[j].attempts + 1 <= faults'
      BY <1>1, <1>7, <3>1, <3>2
    <3>4. scan'[t].pc = "failed" => scan'[t].at \in DOMAIN scan'[t].todo
      BY <1>8 DEF ScansAreSound, Between
    <3> QED
      BY <3>1, <3>3, <3>4 DEF Doc
  <2> QED
    BY <1>5, <2>2, <2>3 DEF AttemptsHaveFailed
<1>12. GraceNeedsFailures' /\ SuspensionNeedsFailures'
  <2>1. MaxAttempts \in Nat \ {0} /\ Needed \in Nat /\ (faults >= Needed => faults' >= Needed) /\ faults' >= 1
    BY <1>1, DaysAssumption DEF Needed
  <2>2. GraceNeedsFailures'
    BY <1>1, <1>4, <1>5, <2>1 DEF RenewalInv, GraceNeedsFailures, Expired
  <2>3. SuspensionNeedsFailures'
    BY <1>1, <1>5, <2>1 DEF RenewalInv, SuspensionNeedsFailures
  <2> QED
    BY <2>2, <2>3
<1>13. GraceEndsTheTerm' /\ NotTerminatedInTerm'
  BY <1>1, <1>4, <1>5 DEF RenewalInv, GraceEndsTheTerm, NotTerminatedInTerm, Expired, Active, Trying, Doc
<1>14. RemindersAreRecorded'
  <2>1. \A j \in Contracts, d \in ReminderDays : reminded[j][d] \in Nat /\ reminded'[j][d] = reminded[j][d]
    BY <1>1 DEF RenewalTyped
  <2>2. Alone => \A j \in Contracts, d \in ReminderDays : reminded[j][d] <= 1 + faults
    BY DEF RenewalInv, RemindersAreRecorded
  <2>3. Alone => \A j \in Contracts, d \in ReminderDays : reminded'[j][d] <= faults' /\ reminded'[j][d] <= 1 + faults'
    BY <1>1, <2>1, <2>2
  <2> QED
    BY <1>5, <2>3 DEF RemindersAreRecorded
<1> QED
  BY <1>6, <1>8, <1>9, <1>10, <1>11, <1>12, <1>13, <1>14 DEF RenewalInv

LEMMA RenewalsGoOn == RenewalInv /\ [RenewalNext]_renewalVars => RenewalInv'
<1> SUFFICES ASSUME RenewalInv, [RenewalNext]_renewalVars PROVE RenewalInv'
  OBVIOUS
<1>1. ASSUME NEW s \in Scans, ScanStep(s) PROVE RenewalInv'
  BY <1>1, BeginKeeps, SuspendKeeps, TerminateKeeps, FindKeeps, TakeKeeps, RemindKeeps, RecordKeeps,
     AttemptKeeps, GrantKeeps, ExtendKeeps, AnnounceKeeps, GiveUpKeeps DEF ScanStep
<1>2. ASSUME UNCHANGED renewalVars PROVE RenewalInv'
  <2>1. /\ UNCHANGED <<today, contract, suspended, granted, scan, reminded, faults, seen>>
        /\ Running' = Running
    BY <1>2 DEF renewalVars, orgs, history, Running
  <2>2. RenewalTyped' /\ ScansAreSound' /\ OneScan' /\ DocsAreCurrent'
    BY <2>1 DEF RenewalInv, RenewalTyped, ScansAreSound, Between, MustRemind, MayRenew, Doc, OneScan, Alone,
                DocsAreCurrent, Untouched, Expired
  <2>3. TermsArePaid' /\ DocsArePaid' /\ GrantsAreExtended'
    BY <2>1 DEF RenewalInv, TermsArePaid, Renewals, DocsArePaid, Doc, GrantsAreExtended, Extending, Alone
  <2>4. AttemptsHaveFailed' /\ GraceNeedsFailures' /\ SuspensionNeedsFailures'
    BY <2>1 DEF RenewalInv, AttemptsHaveFailed, Attempted, Alone, Expired, Doc, GraceNeedsFailures, Needed,
                SuspensionNeedsFailures
  <2>5. GraceEndsTheTerm' /\ NotTerminatedInTerm' /\ RemindersAreRecorded'
    BY <2>1 DEF RenewalInv, GraceEndsTheTerm, Expired, Active, Doc, NotTerminatedInTerm, RemindersAreRecorded,
                Recording, Alone
  <2> QED
    BY <2>2, <2>3, <2>4, <2>5 DEF RenewalInv
<1> QED
  BY <1>1, <1>2, FaultKeeps, CancelKeeps, NextDayKeeps DEF RenewalNext

LEMMA AccountedFor == RenewalInv => RenewalsAreAccounted
<1> SUFFICES ASSUME RenewalInv PROVE RenewalsAreAccounted
  OBVIOUS
<1>1. RenewalTyped /\ faults \in Nat
  BY DEF RenewalInv, RenewalTyped
<1>2. ASSUME Alone, NEW k \in Contracts
      PROVE  granted[k] <= Renewals(k) + faults + Cardinality(Granting(k))
  <2>1. Renewals(k) \in Int /\ granted[k] \in Nat
    BY <1>1, Terms, Renewed DEF RenewalTyped, Docs
  <2>2. CASE Granting(k) = {}
    <3>1. Cardinality(Granting(k)) = 0
      BY <2>2, FS_EmptySet
    <3>2. granted[k] <= Renewals(k) + faults
      BY <1>2, <2>2 DEF RenewalInv, GrantsAreExtended, Extending, Granting
    <3> QED
      BY <1>1, <2>1, <3>1, <3>2
  <2>3. ASSUME NEW s \in Granting(k) PROVE granted[k] <= Renewals(k) + faults + Cardinality(Granting(k))
    <3>1. Granting(k) = {s}
      BY <1>2 DEF RenewalInv, OneScan, Granting
    <3>2. Cardinality(Granting(k)) = 1
      BY <3>1, FS_Singleton
    <3>3. granted[k] <= Renewals(k) + faults + 1
      BY <1>2 DEF RenewalInv, GrantsAreExtended
    <3> QED
      BY <3>2, <3>3
  <2> QED
    BY <2>2, <2>3
<1> QED
  BY <1>2 DEF RenewalInv, RenewalsAreAccounted, GrantsAreBounded, RemindersOnce, RemindersAreRecorded, Alone

(* However scans overlap, throw and die, and whenever Stripe cancels: a    *)
(* term that began was paid for, allocations run ahead of terms, and       *)
(* reminders repeat, only by as much as calls failed, an organization is   *)
(* suspended only after failed attempts, and a contract that was renewed   *)
(* is not terminated for the term before (contract-renewal.service.ts).    *)
THEOREM RenewalsAddUp == RenewalSpec => []RenewalsAreAccounted
<1>1. RenewalSpec => []RenewalInv
  BY RenewalsStart, RenewalsGoOn, PTL DEF RenewalSpec
<1> QED
  BY <1>1, AccountedFor, PTL

=============================================================================
