------------------------------- MODULE Jobs -------------------------------
(***************************************************************************)
(* The signals and execution queues: BullMQ runs a job at least once, its  *)
(* processor charges credits for it (SignalService, ExecutionService and   *)
(* CreditConsumptionService), a job that has used up its attempts is       *)
(* copied to the dead-letter queue by a listener in the worker's process,  *)
(* and an operator may put it back.  No step of this knows whether it was  *)
(* taken before: the consumption does not look at its reference id.        *)
(*                                                                         *)
(* A charge is one action here; CreditTxn has its documents.               *)
(***************************************************************************)
EXTENDS Integers, FiniteSets

CONSTANTS
  Signals,      \* what is to be charged for: signals, executions
  Exempt,       \* those without an account, or of the system
  Retries,      \* POST /api/dlq/:queueName/retry/:jobId in flight
  MaxAttempts,  \* attempts of the queue
  MaxJobs,      \* bound: jobs ever added
  MaxCrashes    \* bound: processes that die

ASSUME JobsAssumption == Exempt \subseteq Signals /\ MaxAttempts \in Nat \ {0}

VARIABLES
  job,        \* the jobs added to the queue, as a sequence of records
  dlq,        \* jobs that have a copy in the dead-letter queue
  retry,      \* what each retry request does
  charges,    \* consumption transactions committed, for each signal
  crashes,
  requeued,   \* history: jobs whose copy has been added to the queue again
  repeated,   \* history: signals added again although they had been already
  lost        \* history: jobs dropped by a crash of the listener or purged

queue == <<job, dlq>>
history == <<crashes, requeued, repeated, lost>>
jobVars == <<queue, retry, charges, history>>

NoRetry == [pc |-> "idle"]
JobIds == 1..MaxJobs
Added == DOMAIN job

JobsTypeOK ==
  /\ \E n \in 0..MaxJobs : DOMAIN job = 1..n
  /\ \A j \in Added :
       job[j] \in [signal : Signals, attempts : 0..MaxAttempts,
                   state : {"waiting", "active", "charged", "completed", "failed", "dead"}]
  /\ dlq \subseteq {j \in Added : job[j].state = "dead"}
  /\ \A r \in Retries : retry[r] = NoRetry \/ retry[r].job \in Added
  /\ charges \in [Signals -> Nat]
  /\ crashes \in 0..MaxCrashes
  /\ requeued \cup lost \subseteq Added
  /\ repeated \in [Signals -> Nat]

JobsInit ==
  /\ job = << >>
  /\ dlq = {}
  /\ retry = [r \in Retries |-> NoRetry]
  /\ charges = [s \in Signals |-> 0]
  /\ crashes = 0 /\ requeued = {} /\ lost = {}
  /\ repeated = [s \in Signals |-> 0]

Of(s) == {j \in Added : job[j].signal = s}
Sent(s) == Of(s) # {}

(* queue.add: a new job with attempts of its own.                          *)
Add(s) ==
  /\ Cardinality(Added) < MaxJobs
  /\ job' = [j \in 1..(Cardinality(Added) + 1) |->
               IF j \in Added THEN job[j]
               ELSE [signal |-> s, state |-> "waiting", attempts |-> 0]]

Move(j, from, to) ==
  /\ job[j].state = from
  /\ job' = [job EXCEPT ![j].state = to]

Send(s) ==
  /\ ~Sent(s)
  /\ Add(s)
  /\ UNCHANGED <<dlq, retry, charges, history>>

-----------------------------------------------------------------------------
(* One attempt of a worker                                                 *)

Take(j) ==
  /\ Move(j, "waiting", "active")
  /\ UNCHANGED <<dlq, retry, charges, history>>

(* processSignalJob without an account: nothing is charged.                *)
Exempted(j) ==
  /\ job[j].signal \in Exempt
  /\ Move(j, "active", "completed")
  /\ UNCHANGED <<dlq, retry, charges, history>>

(* consumeCredits commits.                                                 *)
Charge(j) ==
  /\ job[j].signal \notin Exempt
  /\ Move(j, "active", "charged")
  /\ charges' = [charges EXCEPT ![job[j].signal] = @ + 1]
  /\ UNCHANGED <<dlq, retry, history>>

(* Mutant: attempts are not limited.                                       *)
Throw_Forever(j) == job' = [job EXCEPT ![j].state = "waiting"]

(* An attempt that throws: BullMQ counts it, and puts the job back after a *)
(* delay or gives up.                                                      *)
JobThrows(j) ==
  job' = [job EXCEPT ![j].attempts = @ + 1,
                     ![j].state = IF job[j].attempts + 1 < MaxAttempts THEN "waiting"
                                  ELSE "failed"]

(* consumeCredits throws: not enough credits, a conflict, no database.     *)
Refuse(j) ==
  /\ job[j].state = "active" /\ job[j].signal \notin Exempt
  /\ JobThrows(j)
  /\ UNCHANGED <<dlq, retry, charges, history>>

(* Mutant: a signal that cannot be indexed fails its job.                  *)
Complete_OrThrow(j) ==
  /\ job[j].state = "charged"
  /\ JobThrows(j) \/ Move(j, "charged", "completed")
  /\ UNCHANGED <<dlq, retry, charges, history>>

(* The signal is indexed, or the error is swallowed, and the job is done.  *)
Complete(j) ==
  /\ Move(j, "charged", "completed")
  /\ UNCHANGED <<dlq, retry, charges, history>>

-----------------------------------------------------------------------------
(* setupDLQ                                                                *)

(* The listener of "failed", once the attempts are used up.                *)
DeadLetter(j) ==
  /\ Move(j, "failed", "dead")
  /\ dlq' = dlq \cup {j}
  /\ UNCHANGED <<retry, charges, history>>

(* purgeDlqOlderThan.                                                      *)
Purge(j) ==
  /\ j \in dlq
  /\ dlq' = dlq \ {j}
  /\ lost' = lost \cup ({j} \ requeued)
  /\ UNCHANGED <<job, retry, charges, crashes, requeued, repeated>>

(* The retry request reads the copy, adds it to the queue, and removes it. *)
RetryRead(r) ==
  /\ retry[r] = NoRetry
  /\ \E j \in dlq : retry' = [retry EXCEPT ![r] = [pc |-> "add", job |-> j]]
  /\ UNCHANGED <<queue, charges, history>>

RetryAdd(r) ==
  /\ retry[r].pc = "add"
  /\ LET j == retry[r].job
         s == job[j].signal
     IN /\ Add(s)
        /\ requeued' = requeued \cup {j}
        /\ repeated' = [repeated EXCEPT ![s] = IF j \in requeued THEN @ + 1 ELSE @]
  /\ retry' = [retry EXCEPT ![r].pc = "remove"]
  /\ UNCHANGED <<dlq, charges, crashes, lost>>

RetryRemove(r) ==
  /\ retry[r].pc = "remove"
  /\ dlq' = dlq \ {retry[r].job}
  /\ retry' = [retry EXCEPT ![r] = NoRetry]
  /\ UNCHANGED <<job, charges, history>>

(* Redis refuses a call of the request, or its process dies.               *)
RetryFails(r) ==
  /\ retry[r] # NoRetry
  /\ crashes < MaxCrashes
  /\ crashes' = crashes + 1
  /\ retry' = [retry EXCEPT ![r] = NoRetry]
  /\ UNCHANGED <<queue, charges, requeued, repeated, lost>>

(* A worker dies: BullMQ finds its job stalled and puts it back; a copy    *)
(* that was still to be made is never made.                                *)
WorkerDies(j) ==
  /\ crashes < MaxCrashes
  /\ crashes' = crashes + 1
  /\ \/ /\ job[j].state \in {"active", "charged"}
        /\ job' = [job EXCEPT ![j].state = "waiting"]
        /\ UNCHANGED lost
     \/ /\ Move(j, "failed", "dead")
        /\ lost' = lost \cup {j}
  /\ UNCHANGED <<dlq, retry, charges, requeued, repeated>>

Worker(j) ==
  Take(j) \/ Exempted(j) \/ Charge(j) \/ Refuse(j) \/ Complete(j) \/ DeadLetter(j)

JobsNext ==
  \/ \E s \in Signals : Send(s)
  \/ \E j \in Added : Worker(j) \/ Purge(j) \/ WorkerDies(j)
  \/ \E r \in Retries : RetryRead(r) \/ RetryAdd(r) \/ RetryRemove(r) \/ RetryFails(r)

(* The workers go on taking and finishing jobs, and the listener runs.     *)
JobsFairness == \A j \in JobIds : WF_jobVars(j \in Added /\ Worker(j))

JobsSpec == JobsInit /\ [][JobsNext]_jobVars /\ JobsFairness

-----------------------------------------------------------------------------
(* Properties                                                              *)

(* A signal is charged once.  Each crash may cost another charge, because  *)
(* consumption is not idempotent in its reference id, and so may each      *)
(* retry of a dead letter that was put back before.  In particular no      *)
(* failed attempt and no first retry does.                                 *)
ChargesAreExplained ==
  \A s \in Signals : charges[s] <= 1 + crashes + repeated[s]

(* No job is done without its charge.                                      *)
CompletedIsCharged ==
  \A j \in Added :
    (job[j].state = "completed" /\ job[j].signal \notin Exempt) => charges[job[j].signal] > 0

(* setup-dlq.ts:29, "After max retries, copy failed job payload": what was *)
(* accepted is in the queue, done, or a dead letter, also while a retry    *)
(* request is half way or fails.  Only the retention sweep and a crash     *)
(* before the copy drop it.                                                *)
EveryJobIsKept ==
  \A j \in Added : job[j].state = "dead" => j \in dlq \cup requeued \cup lost

(* Charges follow jobs and jobs follow what was sent: through crashes,     *)
(* retries and dead letters nothing is charged without a reason, done      *)
(* without its charge, or dropped.                                         *)
JobsAreAccounted == ChargesAreExplained /\ CompletedIsCharged /\ EveryJobIsKept

(* Every job ends: with its charge, or as a dead letter.                   *)
EveryJobEnds ==
  \A j \in JobIds :
    j \in Added ~> j \in Added /\ job[j].state \in {"completed", "dead"}

=============================================================================
