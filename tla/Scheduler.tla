----------------------------- MODULE Scheduler -----------------------------
(***************************************************************************)
(* The repeatable jobs: definitions in the code, overrides in the memory   *)
(* of each replica, and what Redis holds.  Bootstrap and the reload route  *)
(* register every job in turn, the PUT route registers one; a registration *)
(* lists the repeatables, removes the job's and adds it again.  A command  *)
(* to Redis may fail, done or not: the error ends the whole call, and      *)
(* bootstrap only writes it to stderr, the routes answer 500.              *)
(***************************************************************************)
EXTENDS Integers, Sequences, FiniteSets

CONSTANTS
  Replicas,
  Crons,           \* what an operator may set
  BaseCron,        \* what the definitions say (the same for every job here)
  None,
  MaxPuts, MaxReloads, MaxReplicaCrashes

ASSUME CronAssumption == BaseCron # None
ASSUME SomeReplica == Replicas # {}

VARIABLES
  repeatable,      \* [Scheduled -> cron or None], in Redis
  override,        \* [Replicas -> [Scheduled -> cron or None]], in memory
  calls,           \* [Replicas \X Callers -> call under way or Idle]
  down,            \* replicas that have crashed
  counts,          \* [puts, reloads, crashes] so far
  unregistered     \* history: jobs an error has left unscheduled since their
                   \* last registration

schedulerVars == <<repeatable, override, calls, down, counts, unregistered>>

(* scheduledJobs: two of its eight entries stand for all.                  *)
scheduledJobs == <<"contract-renewal-daily-scan", "audit-retention-daily-scan">>
Scheduled == {scheduledJobs[i] : i \in DOMAIN scheduledJobs}

Callers == {"init", "put"}

(* A call: the jobs it has still to register, where it stands in the first
   of them, the schedule it has read, and whether Redis listed the job.    *)
Idle == [todo |-> <<>>, at |-> "start", cron |-> None, listed |-> FALSE]
Registering(jobs) == [Idle EXCEPT !.todo = jobs]
Members(jobs) == {jobs[i] : i \in DOMAIN jobs}

Unset == [j \in Scheduled |-> None]

SchedulerInit ==
  /\ repeatable = Unset
  /\ override = [r \in Replicas |-> Unset]
  /\ calls = [rc \in Replicas \X Callers |->
                IF rc[2] = "init" THEN Registering(scheduledJobs) ELSE Idle]
  /\ down = {}
  /\ counts = [puts |-> 0, reloads |-> 0, crashes |-> 0]
  /\ unregistered = {}

-----------------------------------------------------------------------------
effectiveSchedule(r, j) == IF override[r][j] = None THEN BaseCron ELSE override[r][j]

Under(r, c, at) == r \notin down /\ calls[<<r, c>>].todo # <<>> /\ calls[<<r, c>>].at = at
Job(r, c) == Head(calls[<<r, c>>].todo)
Moves(r, c, to) == calls' = [calls EXCEPT ![<<r, c>>].at = to]

(* The schedule is computed before the first await.                        *)
ReadSchedule(r, c) ==
  /\ Under(r, c, "start")
  /\ calls' = [calls EXCEPT ![<<r, c>>].at = "list",
                            ![<<r, c>>].cron = effectiveSchedule(r, Job(r, c))]
  /\ UNCHANGED <<repeatable, override, down, counts, unregistered>>

(* removeRepeatableForJob: list, then remove by key; no job's name is part
   of another's.                                                           *)
ListRepeatables(r, c) ==
  /\ Under(r, c, "list")
  /\ calls' = [calls EXCEPT ![<<r, c>>].at = "remove",
                            ![<<r, c>>].listed = (repeatable[Job(r, c)] # None)]
  /\ UNCHANGED <<repeatable, override, down, counts, unregistered>>

RepeatablesWithout(r, c) == IF calls[<<r, c>>].listed THEN [repeatable EXCEPT ![Job(r, c)] = None]
                 ELSE repeatable
RepeatablesWith(r, c) == [repeatable EXCEPT ![Job(r, c)] = calls[<<r, c>>].cron]

RemoveRepeatable(r, c) ==
  /\ Under(r, c, "remove") /\ Moves(r, c, "add")
  /\ repeatable' = RepeatablesWithout(r, c)
  /\ UNCHANGED <<override, down, counts, unregistered>>

(* The job is added under its own key, and runs once immediately.          *)
AddRepeatable(r, c) ==
  /\ Under(r, c, "add")
  /\ repeatable' = RepeatablesWith(r, c)
  /\ calls' = [calls EXCEPT ![<<r, c>>] = Registering(Tail(@.todo))]
  /\ unregistered' = unregistered \ {Job(r, c)}
  /\ UNCHANGED <<override, down, counts>>

(* A command to Redis fails, with or without its effect: this job and the  *)
(* ones after it are not registered.  Nobody tries again.                  *)
RegistrationFails(r, c) ==
  /\ \/ Under(r, c, "list") /\ UNCHANGED repeatable
     \/ Under(r, c, "remove") /\ repeatable' \in {repeatable, RepeatablesWithout(r, c)}
     \/ Under(r, c, "add") /\ repeatable' \in {repeatable, RepeatablesWith(r, c)}
  /\ calls' = [calls EXCEPT ![<<r, c>>] = Idle]
  /\ unregistered' =
       unregistered \cup {j \in Members(calls[<<r, c>>].todo) : repeatable'[j] = None}
  /\ UNCHANGED <<override, down, counts>>

Register(r, c) ==
  \/ ReadSchedule(r, c) \/ ListRepeatables(r, c) \/ RemoveRepeatable(r, c)
  \/ AddRepeatable(r, c) \/ RegistrationFails(r, c)

-----------------------------------------------------------------------------
(* PUT /api/scheduler/:name                                                *)
Put(r, j, cron) ==
  /\ r \notin down /\ calls[<<r, "put">>] = Idle /\ counts.puts < MaxPuts
  /\ override' = [override EXCEPT ![r][j] = cron]
  /\ calls' = [calls EXCEPT ![<<r, "put">>] = Registering(<<j>>)]
  /\ counts' = [counts EXCEPT !.puts = @ + 1]
  /\ UNCHANGED <<repeatable, down, unregistered>>

(* POST /api/scheduler/reload                                              *)
Reload(r) ==
  /\ r \notin down /\ calls[<<r, "init">>] = Idle /\ counts.reloads < MaxReloads
  /\ calls' = [calls EXCEPT ![<<r, "init">>] = Registering(scheduledJobs)]
  /\ counts' = [counts EXCEPT !.reloads = @ + 1]
  /\ UNCHANGED <<repeatable, override, down, unregistered>>

Crash(r) ==
  /\ r \notin down /\ counts.crashes < MaxReplicaCrashes
  /\ down' = down \cup {r}
  /\ override' = [override EXCEPT ![r] = Unset]
  /\ calls' = [rc \in DOMAIN calls |-> IF rc[1] = r THEN Idle ELSE calls[rc]]
  /\ counts' = [counts EXCEPT !.crashes = @ + 1]
  /\ UNCHANGED <<repeatable, unregistered>>

(* Mutant: bootstrap registers only into an empty Redis.                   *)
initScheduler_WhenEmpty == IF repeatable = Unset THEN scheduledJobs ELSE <<>>

initScheduler == scheduledJobs

(* The next bootstrap of the replica.                                      *)
Restart(r) ==
  /\ r \in down /\ down' = down \ {r}
  /\ calls' = [calls EXCEPT ![<<r, "init">>] = Registering(initScheduler)]
  /\ UNCHANGED <<repeatable, override, counts, unregistered>>

SchedulerNext ==
  \E r \in Replicas :
    \/ \E c \in Callers : Register(r, c)
    \/ \E j \in Scheduled, cron \in Crons : Put(r, j, cron)
    \/ Reload(r) \/ Crash(r) \/ Restart(r)

SchedulerSpec == SchedulerInit /\ [][SchedulerNext]_schedulerVars

-----------------------------------------------------------------------------
Quiet == down = {} /\ \A rc \in DOMAIN calls : calls[rc] = Idle

(* However registrations of several replicas and operators interleave and  *)
(* wherever a replica dies in one, once all of them have started and       *)
(* nothing is being registered every job is scheduled, but for those that  *)
(* an error of Redis has left unscheduled and nobody has registered since: *)
(* a registration that loses a race loses no job, nor does a death.        *)
QuietMeansScheduled ==
  Quiet => \A j \in Scheduled : repeatable[j] # None \/ j \in unregistered

=============================================================================
