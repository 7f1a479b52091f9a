----------------------------- MODULE Deliveries -----------------------------
(***************************************************************************)
(* Outbound webhooks.  Each replica keeps the registered hooks and the log *)
(* of deliveries in its own memory; the delivery jobs are in a queue that  *)
(* all replicas work on.  A job is posted up to three times, a job whose   *)
(* replica dies is taken again, and an answer may be lost after the        *)
(* receiver has handled the event.                                         *)
(***************************************************************************)
EXTENDS Integers, Sequences, FiniteSets

CONSTANTS
  Replicas,
  Hooks,           \* hooks, all of one organization
  MaxJobAttempts,  \* attempts of a delivery
  MaxLogs,         \* entries a replica's log keeps
  MaxDeliveries, MaxRestarts

ASSUME DeliveriesAssumption == MaxJobAttempts \in Nat \ {0} /\ MaxLogs \in Nat

VARIABLES
  registry,        \* [Replicas -> [Hooks -> "absent", "active" or "inactive"]]
  logs,            \* [Replicas -> sequence of entries]
  delivery,        \* the jobs, as a sequence
  fanout,          \* [Replicas -> hooks a broadcast has still to queue]
  restarts

deliveryVars == <<registry, logs, delivery, fanout, restarts>>

(* Besides its state a job has a history: posts, posts handled by the
   receiver, answers lost, and replicas that died over it.                 *)
NewJob(h) == [hook |-> h, state |-> "waiting", replica |-> CHOOSE r \in Replicas : TRUE,
              attemptsMade |-> 0, posts |-> 0, handled |-> 0, lost |-> 0, stalled |-> 0]

DeliveriesInit ==
  /\ registry = [r \in Replicas |-> [h \in Hooks |-> "absent"]]
  /\ logs = [r \in Replicas |-> <<>>]
  /\ delivery = <<>> /\ fanout = [r \in Replicas |-> {}] /\ restarts = 0

-----------------------------------------------------------------------------
(* The registry of one replica.  Hooks get fresh ids: one that has been
   removed does not come back, and only one replica knows a hook.          *)
Fresh(h) == /\ \A r \in Replicas : registry[r][h] = "absent"
            /\ \A j \in DOMAIN delivery : delivery[j].hook # h

Register(r, h, activity) ==
  /\ Fresh(h)
  /\ registry' = [registry EXCEPT ![r][h] = activity]
  /\ UNCHANGED <<logs, delivery, fanout, restarts>>

Remove(r, h) ==
  /\ registry[r][h] # "absent"
  /\ registry' = [registry EXCEPT ![r][h] = "absent"]
  /\ UNCHANGED <<logs, delivery, fanout, restarts>>

(* appendDeliveryLog drops the oldest entries.                             *)
AppendLog(r, entry) ==
  LET all == Append(logs[r], entry) IN
  logs' = [logs EXCEPT ![r] =
    IF Len(all) > MaxLogs THEN SubSeq(all, Len(all) - MaxLogs + 1, Len(all)) ELSE all]

-----------------------------------------------------------------------------
(* Adding jobs                                                             *)
Add(h) == Len(delivery) < MaxDeliveries /\ delivery' = Append(delivery, NewJob(h))

EnqueueDelivery(r, h) ==
  /\ registry[r][h] = "active" /\ Add(h)
  /\ UNCHANGED <<registry, logs, fanout, restarts>>

(* broadcastEvent reads its targets once and adds their jobs one by one.   *)
BroadcastEvent(r) ==
  /\ fanout[r] = {}
  /\ fanout' = [fanout EXCEPT ![r] = {h \in Hooks : registry[r][h] = "active"}]
  /\ fanout' # fanout
  /\ UNCHANGED <<registry, logs, delivery, restarts>>

AddOne(r, h) ==
  /\ h \in fanout[r] /\ Add(h)
  /\ fanout' = [fanout EXCEPT ![r] = @ \ {h}]
  /\ UNCHANGED <<registry, logs, restarts>>

-----------------------------------------------------------------------------
(* processDeliveryJob.  Without an active hook the job completes unposted. *)
TakeDelivery(r, j) ==
  /\ delivery[j].state = "waiting"
  /\ delivery' = [delivery EXCEPT
       ![j].state = IF registry[r][delivery[j].hook] = "active" THEN "posting" ELSE "completed",
       ![j].replica = r,
       ![j].posts = IF registry[r][delivery[j].hook] = "active" THEN @ + 1 ELSE @]
  /\ UNCHANGED <<registry, logs, fanout, restarts>>

(* What becomes of a post: a 200, another 2xx, a refusal, or no answer,
   which the receiver may or may not have sent.                            *)
Outcomes == {"ok", "accepted", "refused", "lost", "unreached"}
Handles(outcome) == outcome \in {"ok", "accepted", "lost"}

(* Mutant: only a 200 counts.                                              *)
Delivered_Only200(outcome) == outcome = "ok"

(* res.ok                                                                  *)
Delivered(outcome) == outcome \in {"ok", "accepted"}

Attempt(j) == delivery[j].attemptsMade + 1

Status(j, outcome) == IF Delivered(outcome) THEN "success"
                      ELSE IF Attempt(j) < MaxJobAttempts THEN "retrying" ELSE "failed"

Posted(r, j, outcome) ==
  /\ delivery[j].state = "posting" /\ delivery[j].replica = r
  /\ AppendLog(r, [job |-> j, status |-> Status(j, outcome), attempt |-> Attempt(j)])
  /\ delivery' = [delivery EXCEPT
       ![j].state = IF Delivered(outcome) THEN "completed"
                    ELSE IF Attempt(j) < MaxJobAttempts THEN "waiting" ELSE "failed",
       ![j].attemptsMade = IF Delivered(outcome) THEN @ ELSE @ + 1,
       ![j].handled = IF Handles(outcome) THEN @ + 1 ELSE @,
       ![j].lost = IF outcome = "lost" THEN @ + 1 ELSE @]
  /\ UNCHANGED <<registry, fanout, restarts>>

(* A replica restarts: its memory is gone.  Its jobs are found stalled and
   wait again, with the attempts they had; the receiver may have handled
   the post under way.                                                     *)
RestartReplica(r, handled) ==
  LET mine == {j \in DOMAIN delivery : delivery[j].state = "posting" /\ delivery[j].replica = r}
  IN
  /\ restarts < MaxRestarts /\ restarts' = restarts + 1
  /\ handled \subseteq mine
  /\ registry' = [registry EXCEPT ![r] = [h \in Hooks |-> "absent"]]
  /\ logs' = [logs EXCEPT ![r] = <<>>]
  /\ fanout' = [fanout EXCEPT ![r] = {}]
  /\ delivery' = [j \in DOMAIN delivery |->
       IF j \notin mine THEN delivery[j]
       ELSE [delivery[j] EXCEPT !.state = "waiting", !.stalled = @ + 1,
                                !.handled = IF j \in handled THEN @ + 1 ELSE @]]

DeliveryStep(r) ==
  \/ BroadcastEvent(r)
  \/ \E h \in Hooks : \/ \E activity \in {"active", "inactive"} : Register(r, h, activity)
                      \/ Remove(r, h) \/ EnqueueDelivery(r, h) \/ AddOne(r, h)
  \/ \E j \in DOMAIN delivery : TakeDelivery(r, j) \/ \E o \in Outcomes : Posted(r, j, o)
  \/ \E handled \in SUBSET (DOMAIN delivery) : RestartReplica(r, handled)

DeliveriesNext == \E r \in Replicas : DeliveryStep(r)

DeliveriesSpec == DeliveriesInit /\ [][DeliveriesNext]_deliveryVars

-----------------------------------------------------------------------------
(* The receiver handles an event twice only if an answer was lost or a     *)
(* replica died while it posted; posts beyond the attempts come from dead  *)
(* replicas alone, as a stalled job keeps the attempts it had.             *)
RepeatedPostsAreExplained ==
  \A j \in DOMAIN delivery :
    /\ delivery[j].handled <= 1 + delivery[j].lost + delivery[j].stalled
    /\ delivery[j].posts <= MaxJobAttempts + delivery[j].stalled

(* What a log shows of a job is how it ended: once "success" or "failed"   *)
(* is there, no replica posts it again.                                    *)
LogsAreFinal ==
  \A r \in Replicas : \A i \in DOMAIN logs[r] :
    logs[r][i].status # "retrying" => delivery[logs[r][i].job].state \in {"completed", "failed"}

(* Logs, posts and what the receiver has seen tell one story.              *)
DeliveriesAreExplained == RepeatedPostsAreExplained /\ LogsAreFinal

=============================================================================
