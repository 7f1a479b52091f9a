---------------------------- MODULE PlatformProofs ----------------------------
(***************************************************************************)
(* The platform around the requests: the shutdown of a process, the        *)
(* repeatable jobs of its replicas, and the job queues.                    *)
(***************************************************************************)
EXTENDS Jobs, Lifecycle, Scheduler, FiniteSetTheorems, TLAPS

-----------------------------------------------------------------------------
(* Shutdown: what each callback finds when it is called.  The conjuncts     *)
(* that speak of open and of the requests hold only of a process that      *)
(* finished its bootstrap before the signal.                               *)

Opened == {"mongo", "search", "redis", "workers", "bridge", "http"}

ProcessTyped ==
  /\ boot \in 1..7 /\ stop \in 0..7
  /\ open \subseteq Opened
  /\ early \in BOOLEAN /\ failed \in BOOLEAN
  /\ exited \in {"no", "clean", "forced"}
  /\ stop = 0 => exited = "no" /\ ~early /\ ~failed

(* A signal that does not overtake bootstrap finds it done.                *)
BootIsDone == stop > 0 /\ ~early => boot = 7

(* What the callbacks so far have let go of stays gone.                    *)
LetGo == stop > 0 /\ ~early =>
  \A k \in 1..7 : k <= stop => Callbacks[k] \notin open

(* Requests come to a process that has been ready, and a process that has  *)
(* been keeps MongoDB and Redis until their callbacks are called, which is *)
(* after the server's has waited for the requests.                         *)
ReadyKeeps ==
  /\ ready /\ stop < 4 /\ ~early => "mongo" \in open
  /\ ready /\ stop < 7 /\ ~early => "redis" \in open
  /\ requests # {} /\ ~early => ready
  /\ stop >= 3 /\ ~early => requests = {}

(* The workers have drained once the callback after them is called.        *)
WorkersDrained == stop = 7 /\ ~early /\ ~failed => working = {}

CleanAfterAll == exited = "clean" => stop = 7

ProcessInv ==
  /\ ProcessTyped /\ BootIsDone /\ LetGo /\ ReadyKeeps /\ WorkersDrained /\ CleanAfterAll

-----------------------------------------------------------------------------

LEMMA Order ==
  /\ Len(BootSteps) = 6 /\ Len(Callbacks) = 7
  /\ Callbacks[1] = "bridge" /\ Callbacks[2] = "http" /\ Callbacks[3] = "search"
  /\ Callbacks[4] = "mongo" /\ Callbacks[5] = "metrics" /\ Callbacks[6] = "workers"
  /\ Callbacks[7] = "redis"
BY DEF BootSteps, Callbacks

(* A step of bootstrap opens nothing that a shutdown in order let go of:   *)
(* it comes before the signal, or the signal overtook it.                  *)
LEMMA BootStep ==
  ASSUME ProcessInv, Bootstrap
  PROVE  ProcessInv'
<1> USE Order DEF ProcessInv
<1>1. boot <= 6 /\ UNCHANGED Unbooted
  BY DEF Bootstrap, Booting, ConnectMongo, ConnectStores, ConnectRedis, StartWorkers,
         StartBridge, Listen
<1>2. boot' \in 1..7
  BY <1>1 DEF Bootstrap, Opens, Skips, ConnectMongo, ConnectStores, ConnectRedis,
              StartWorkers, StartBridge, Listen, ProcessTyped
<1>3. open \subseteq open' /\ open' \subseteq Opened
  <2>1. PICK n \in Opened : open' = open \cup {n} \/ open' = open
    BY DEF Bootstrap, Opens, Skips, ConnectMongo, ConnectStores, ConnectRedis,
           StartWorkers, StartBridge, Listen, Opened
  <2> QED BY <2>1 DEF ProcessTyped
<1>4. stop = 0 \/ early
  BY <1>1 DEF BootIsDone, ProcessTyped
<1>5. ProcessTyped'
  BY <1>1, <1>2, <1>3 DEF ProcessTyped, Unbooted
<1>6. BootIsDone' /\ LetGo'
  BY <1>1, <1>4 DEF BootIsDone, LetGo, Unbooted, ProcessTyped
<1>7. ReadyKeeps' /\ WorkersDrained' /\ CleanAfterAll'
  BY <1>1, <1>3, <1>4 DEF ReadyKeeps, WorkersDrained, CleanAfterAll, Unbooted, ProcessTyped
<1> QED BY <1>5, <1>6, <1>7

(* A readiness probe that still reaches the server finds what was there,   *)
(* and the server and the workers take nothing once they are let go.       *)
LEMMA ServeStep ==
  ASSUME ProcessInv, Serve
  PROVE  ProcessInv'
<1> USE Order DEF ProcessInv
<1>1. UNCHANGED <<boot, open, client, stop, early, failed, exited>>
  BY DEF Serve, Probe, Accept, Answer, TakeJob, EndJob
<1>2. ProcessTyped' /\ BootIsDone' /\ LetGo' /\ CleanAfterAll'
  BY <1>1 DEF ProcessTyped, BootIsDone, LetGo, CleanAfterAll
<1>3. /\ "http" \in open /\ ~early => stop < 2
      /\ "workers" \in open /\ ~early => stop < 6
  BY DEF LetGo, ProcessTyped
<1>4. ReadyKeeps'
  <2>1. CASE Probe
    <3>1. ready' = Readiness /\ UNCHANGED requests /\ "http" \in open
      BY <2>1 DEF Probe
    <3>2. Readiness <=> "mongo" \in open /\ "redis" \in open
      BY DEF Readiness
    <3>3. ready' => "mongo" \in open /\ "redis" \in open
      BY <3>1, <3>2
    <3>4. requests # {} /\ ~early => "mongo" \in open /\ "redis" \in open
      BY <1>3, <3>1 DEF ReadyKeeps, ProcessTyped
    <3>5. requests # {} /\ ~early => ready'
      BY <3>1, <3>2, <3>4
    <3> QED BY <1>1, <1>3, <3>1, <3>3, <3>5 DEF ReadyKeeps
  <2>2. CASE \E r \in Requests : Accept(r)
    BY <1>1, <1>3, <2>2 DEF Accept, ReadyKeeps, ProcessTyped
  <2>3. CASE \E r \in Requests : Answer(r)
    BY <1>1, <2>3 DEF Answer, ReadyKeeps
  <2>4. CASE \E j \in WorkerJobs : TakeJob(j) \/ EndJob(j)
    BY <1>1, <2>4 DEF TakeJob, EndJob, ReadyKeeps
  <2> QED BY <2>1, <2>2, <2>3, <2>4 DEF Serve
<1>5. WorkersDrained'
  <2>1. CASE \E j \in WorkerJobs : TakeJob(j)
    BY <1>1, <1>3, <2>1 DEF TakeJob, WorkersDrained, ProcessTyped
  <2>2. CASE ~\E j \in WorkerJobs : TakeJob(j)
    BY <1>1, <2>2 DEF Serve, Probe, Accept, Answer, EndJob, WorkersDrained
  <2> QED BY <2>1, <2>2
<1> QED BY <1>2, <1>4, <1>5

(* The callback with index k has just been called, and the one before it   *)
(* waited or threw.                                                        *)
LEMMA CallStep ==
  ASSUME ProcessInv, NEW k \in 1..7, Alive, stop = k - 1, Call(k),
         UNCHANGED <<boot, ready, requests, working, exited>>,
         early' \in BOOLEAN, failed' \in BOOLEAN, failed => failed',
         stop > 0 => early' = early,
         stop = 0 => early' = (boot <= 6),
         stop = 2 => requests = {},
         stop = 6 /\ ~failed' => working = {}
  PROVE  ProcessInv'
<1> USE Order DEF ProcessInv
<1>1. stop' = k /\ open' = open \ {Callbacks[k]}
  BY DEF Call, Callback
<1>2. ProcessTyped'
  BY <1>1 DEF ProcessTyped, Alive
<1>3. ~early' => ~early /\ boot = 7
  BY DEF ProcessTyped, BootIsDone
<1>4. BootIsDone'
  BY <1>1, <1>3 DEF BootIsDone
<1>5. LetGo'
  <2> SUFFICES ASSUME ~early', NEW j \in 1..7, j <= k PROVE Callbacks[j] \notin open'
    BY <1>1 DEF LetGo
  <2>1. CASE j = k
    BY <1>1, <2>1
  <2>2. CASE j < k
    BY <1>1, <1>3, <2>2 DEF LetGo
  <2> QED BY <2>1, <2>2
<1>6. ReadyKeeps'
  <2>1. k # 4 => Callbacks[k] # "mongo"
    OBVIOUS
  <2>2. k # 7 => Callbacks[k] # "redis"
    OBVIOUS
  <2> QED BY <1>1, <1>3, <2>1, <2>2 DEF ReadyKeeps
<1>7. WorkersDrained'
  BY <1>1, <1>3 DEF WorkersDrained
<1>8. CleanAfterAll'
  BY DEF CleanAfterAll, Alive
<1> QED BY <1>2, <1>4, <1>5, <1>6, <1>7, <1>8

LEMMA SignalStep ==
  ASSUME ProcessInv, Signal
  PROVE  ProcessInv'
<1>1. early' = (boot <= 6) /\ stop = 0 /\ Alive /\ Call(1)
  BY Order DEF Signal
<1>2. early' \in BOOLEAN /\ failed \in BOOLEAN
  BY <1>1 DEF ProcessInv, ProcessTyped
<1> QED BY <1>1, <1>2, CallStep DEF Signal

LEMMA ShutdownStep ==
  ASSUME ProcessInv, Shutdown
  PROVE  ProcessInv'
<1> USE Order
<1>1. stop \in 1..7 /\ Alive /\ early \in BOOLEAN /\ failed \in BOOLEAN
  BY DEF Shutdown, Return, Throw, ForceExit, ProcessInv, ProcessTyped
<1>2. CASE (Return \/ Throw) /\ stop < 7
  <2>1. Call(stop + 1) /\ UNCHANGED <<boot, ready, requests, working, exited, early>>
    BY <1>2 DEF Return, Throw, NextCallback
  <2>2. failed' \in BOOLEAN /\ (failed => failed')
    <3>1. failed' = failed \/ failed' = TRUE
      BY <1>2 DEF Return, Throw
    <3> QED BY <1>1, <3>1
  <2>3. stop = 2 => requests = {}
    BY <1>2 DEF Return, Throw, Awaited, Callback
  <2>4. stop = 6 /\ ~failed' => working = {}
    BY <1>2 DEF Return, Throw, Awaited, Callback
  <2>5. stop + 1 \in 1..7 /\ stop = (stop + 1) - 1
    BY <1>1, <1>2
  <2> QED BY <1>1, <2>1, <2>2, <2>3, <2>4, <2>5, CallStep
<1>3. CASE (Return \/ Throw) /\ stop = 7
  <2>1. /\ exited' = "clean"
        /\ UNCHANGED <<stop, open, client, boot, ready, requests, working, early>>
    BY <1>3 DEF Return, Throw, NextCallback
  <2>2. failed' \in BOOLEAN /\ (failed => failed')
    <3>1. failed' = failed \/ failed' = TRUE
      BY <1>3 DEF Return, Throw
    <3> QED BY <1>1, <3>1
  <2>3. ProcessTyped' /\ BootIsDone' /\ LetGo' /\ ReadyKeeps'
    BY <1>3, <2>1, <2>2 DEF ProcessInv, ProcessTyped, BootIsDone, LetGo, ReadyKeeps
  <2>4. WorkersDrained' /\ CleanAfterAll'
    BY <1>3, <2>1, <2>2 DEF ProcessInv, WorkersDrained, CleanAfterAll
  <2> QED BY <2>3, <2>4 DEF ProcessInv
<1>4. CASE ForceExit
  BY <1>1, <1>4 DEF ForceExit, ProcessInv, ProcessTyped, BootIsDone, LetGo, ReadyKeeps,
                    WorkersDrained, CleanAfterAll
<1> QED BY <1>1, <1>2, <1>3, <1>4 DEF Shutdown

LEMMA ProcessStart == ProcessInit => ProcessInv
<1> SUFFICES ASSUME ProcessInit PROVE ProcessInv
  OBVIOUS
<1>1. boot = 1 /\ stop = 0 /\ open = {} /\ requests = {} /\ exited = "no"
  BY DEF ProcessInit
<1>2. ready = FALSE /\ early = FALSE /\ failed = FALSE
  BY DEF ProcessInit
<1>3. early \in BOOLEAN /\ failed \in BOOLEAN /\ ~early /\ ~failed /\ ~ready
  BY <1>2
<1>4. ProcessTyped
  BY <1>1, <1>3 DEF ProcessTyped
<1> QED BY <1>1, <1>3, <1>4 DEF ProcessInv, BootIsDone, LetGo, ReadyKeeps,
                                WorkersDrained, CleanAfterAll

LEMMA ProcessKeeps == ProcessInv /\ [ProcessNext]_processVars => ProcessInv'
<1>1. ASSUME ProcessInv, UNCHANGED processVars PROVE ProcessInv'
  BY <1>1 DEF processVars, ProcessInv, ProcessTyped, BootIsDone, LetGo, ReadyKeeps,
              WorkersDrained, CleanAfterAll
<1> QED BY <1>1, BootStep, ServeStep, SignalStep, ShutdownStep DEF ProcessNext

(* Whatever requests and jobs are under way when the signal comes and      *)
(* whichever callbacks throw, no request outlives MongoDB, and a clean     *)
(* exit leaves nothing behind.                                             *)
THEOREM OrderlyShutdown == ProcessSpec => []ShutdownIsOrderly
<1>1. ProcessInv => ShutdownIsOrderly
  <2> SUFFICES ASSUME ProcessInv PROVE HandlersKeepMongo /\ CleanExitLeavesNothing
    BY DEF ShutdownIsOrderly
  <2>1. HandlersKeepMongo
    BY DEF HandlersKeepMongo, ProcessInv, ProcessTyped, ReadyKeeps
  <2>2. CleanExitLeavesNothing
    BY Order DEF CleanExitLeavesNothing, ProcessInv, ProcessTyped, LetGo, ReadyKeeps,
                 WorkersDrained, CleanAfterAll, Opened
  <2> QED BY <2>1, <2>2
<1> QED BY <1>1, ProcessStart, ProcessKeeps, PTL DEF ProcessSpec

-----------------------------------------------------------------------------
(* The scheduler: a job that is not scheduled is still to be registered by *)
(* a call under way, or by the bootstrap of a replica that is down, or an  *)
(* error has left it so.                                                   *)

Steps == {"start", "list", "remove", "add"}
Pending(j) == \E rc \in Replicas \X Callers : j \in Members(calls[rc].todo)

Calls == [todo : Seq(Scheduled), at : Steps, cron : Crons \cup {BaseCron, None},
          listed : BOOLEAN]

CallsTyped ==
  /\ calls \in [Replicas \X Callers -> Calls]
  /\ repeatable \in [Scheduled -> Crons \cup {BaseCron, None}]
  /\ override \in [Replicas -> [Scheduled -> Crons \cup {None}]]
  /\ down \subseteq Replicas

(* The schedule is read before the job is removed.                         *)
CronIsRead == \A rc \in Replicas \X Callers : calls[rc].at # "start" => calls[rc].cron # None
NoneForgotten ==
  \A j \in Scheduled : repeatable[j] # None \/ down # {} \/ Pending(j) \/ j \in unregistered

SchedulerInv == CallsTyped /\ CronIsRead /\ NoneForgotten

LEMMA AllJobs == scheduledJobs \in Seq(Scheduled) /\ Members(scheduledJobs) = Scheduled
BY DEF scheduledJobs, Scheduled, Members

LEMMA MembersOfTail ==
  ASSUME NEW jobs \in Seq(Scheduled), jobs # <<>>
  PROVE  /\ Head(jobs) \in Scheduled /\ Tail(jobs) \in Seq(Scheduled)
         /\ Members(jobs) \subseteq {Head(jobs)} \cup Members(Tail(jobs))
         /\ Head(jobs) \in Members(jobs)
<1>1. Head(jobs) \in Scheduled /\ Tail(jobs) \in Seq(Scheduled)
  OBVIOUS
<1>2. Head(jobs) = jobs[1] /\ 1 \in DOMAIN jobs
  OBVIOUS
<1>3. ASSUME NEW i \in DOMAIN jobs, i # 1
      PROVE  jobs[i] \in Members(Tail(jobs))
  <2>1. i - 1 \in DOMAIN Tail(jobs) /\ Tail(jobs)[i - 1] = jobs[i]
    BY <1>3
  <2> QED BY <2>1 DEF Members
<1> QED BY <1>1, <1>2, <1>3 DEF Members

LEMMA CallFields ==
  /\ \A jobs : /\ Registering(jobs).todo = jobs /\ Registering(jobs).at = "start"
               /\ jobs \in Seq(Scheduled) => Registering(jobs) \in Calls
  /\ Idle.todo = <<>> /\ Idle.at = "start" /\ Idle \in Calls
<1>1. Idle.todo = <<>> /\ Idle.at = "start" /\ Idle \in Calls
  BY DEF Idle, Calls, Steps
<1>2. ASSUME NEW jobs
      PROVE  /\ Registering(jobs).todo = jobs /\ Registering(jobs).at = "start"
             /\ jobs \in Seq(Scheduled) => Registering(jobs) \in Calls
  BY DEF Registering, Idle, Calls, Steps
<1> QED BY <1>1, <1>2

(* One call goes on: what it still had to register it has yet, or is       *)
(* scheduled now.                                                          *)
LEMMA CallMoves ==
  ASSUME SchedulerInv, NEW rc \in Replicas \X Callers, NEW k \in Calls,
         calls' = [calls EXCEPT ![rc] = k], down' = down,
         k.at # "start" => k.cron # None,
         repeatable' \in [Scheduled -> Crons \cup {BaseCron, None}],
         override' \in [Replicas -> [Scheduled -> Crons \cup {None}]],
         \A j \in Members(calls[rc].todo) :
            repeatable'[j] # None \/ j \in Members(k.todo) \/ j \in unregistered',
         \A j \in Scheduled : repeatable[j] # None =>
            repeatable'[j] # None \/ j \in Members(k.todo) \/ j \in unregistered',
         \A j \in unregistered : repeatable'[j] # None \/ j \in unregistered'
  PROVE  SchedulerInv'
<1>1. /\ calls'[rc] = k /\ \A sd \in (Replicas \X Callers) \ {rc} : calls'[sd] = calls[sd]
      /\ calls' \in [Replicas \X Callers -> Calls]
  BY DEF SchedulerInv, CallsTyped
<1>2. CallsTyped'
  BY <1>1 DEF SchedulerInv, CallsTyped
<1>3. CronIsRead'
  BY <1>1 DEF SchedulerInv, CronIsRead
<1>4. ASSUME NEW j \in Scheduled, repeatable'[j] = None, down' = {}, j \notin unregistered'
      PROVE  \E sd \in Replicas \X Callers : j \in Members(calls'[sd].todo)
  <2>1. CASE j \in Members(k.todo)
    BY <1>1, <2>1
  <2>2. CASE j \notin Members(k.todo)
    <3>1. repeatable[j] = None /\ j \notin Members(calls[rc].todo) /\ j \notin unregistered
      BY <1>4, <2>2
    <3>2. PICK sd \in Replicas \X Callers : j \in Members(calls[sd].todo)
      BY <1>4, <3>1 DEF SchedulerInv, NoneForgotten, Pending
    <3> QED BY <1>1, <3>1, <3>2
  <2> QED BY <2>1, <2>2
<1>5. NoneForgotten'
  BY <1>4 DEF NoneForgotten, Pending
<1> QED BY <1>2, <1>3, <1>5 DEF SchedulerInv

LEMMA Registers ==
  ASSUME SchedulerInv, NEW r \in Replicas, NEW c \in Callers, Register(r, c)
  PROVE  SchedulerInv'
<1> DEFINE rc == <<r, c>>
           k == calls[rc]
           j == Head(k.todo)
<1>1. /\ rc \in Replicas \X Callers /\ k \in Calls /\ k.todo # <<>>
      /\ k.at # "start" => k.cron # None
      /\ UNCHANGED <<override, down>> /\ CallsTyped
  BY DEF Register, ReadSchedule, ListRepeatables, RemoveRepeatable, AddRepeatable,
         RegistrationFails, Under, SchedulerInv, CallsTyped, CronIsRead
<1>2. /\ k.todo \in Seq(Scheduled) /\ j \in Scheduled /\ Tail(k.todo) \in Seq(Scheduled)
      /\ j \in Members(k.todo)
      /\ Members(k.todo) \subseteq {j} \cup Members(Tail(k.todo))
  BY <1>1, MembersOfTail DEF Calls
<1>3. CASE ReadSchedule(r, c)
  <2> DEFINE cron == effectiveSchedule(r, j)
             n == [k EXCEPT !.at = "list", !.cron = cron]
  <2>1. calls' = [calls EXCEPT ![rc] = n] /\ UNCHANGED <<repeatable, unregistered>>
    BY <1>1, <1>3 DEF ReadSchedule, Job, CallsTyped
  <2>2. cron \in Crons \cup {BaseCron} /\ cron # None
    BY <1>1, <1>2, CronAssumption DEF effectiveSchedule, CallsTyped
  <2> HIDE DEF cron
  <2>3. n \in Calls /\ n.todo = k.todo /\ n.cron = cron
    BY <1>1, <2>2 DEF Calls, Steps
  <2> HIDE DEF n, k, rc
  <2> QED BY <1>1, <2>1, <2>2, <2>3, CallMoves DEF CallsTyped, k
<1>4. CASE ListRepeatables(r, c)
  <2> DEFINE n == [k EXCEPT !.at = "remove", !.listed = (repeatable[j] # None)]
  <2>1. /\ calls' = [calls EXCEPT ![rc] = n] /\ UNCHANGED <<repeatable, unregistered>>
        /\ k.at = "list"
    BY <1>1, <1>4 DEF ListRepeatables, Job, CallsTyped, Under
  <2>2. n \in Calls /\ n.todo = k.todo /\ n.cron = k.cron
    BY <1>1 DEF Calls, Steps
  <2> HIDE DEF n, k, rc
  <2> QED BY <1>1, <2>1, <2>2, CallMoves DEF CallsTyped, k
<1>5. CASE RemoveRepeatable(r, c)
  <2> DEFINE n == [k EXCEPT !.at = "add"]
  <2>1. /\ calls' = [calls EXCEPT ![rc] = n] /\ k.at = "remove" /\ unregistered' = unregistered
        /\ \/ repeatable' = repeatable
           \/ repeatable' = [repeatable EXCEPT ![j] = None]
    BY <1>1, <1>5 DEF RemoveRepeatable, RepeatablesWithout, Moves, Job, CallsTyped, Under
  <2>2. n \in Calls /\ n.todo = k.todo /\ n.cron = k.cron
    BY <1>1 DEF Calls, Steps
  <2>3. /\ repeatable' \in [Scheduled -> Crons \cup {BaseCron, None}]
        /\ \A i \in Scheduled : i # j => repeatable'[i] = repeatable[i]
    BY <1>1, <1>2, <2>1 DEF CallsTyped
  <2> HIDE DEF n, j
  <2>4. \A i \in Scheduled : repeatable[i] # None => repeatable'[i] # None \/ i \in Members(n.todo)
    BY <1>2, <2>2, <2>3
  <2> HIDE DEF k, rc
  <2> QED BY <1>1, <2>1, <2>2, <2>3, <2>4, CallMoves DEF CallsTyped, k
<1>6. CASE AddRepeatable(r, c)
  <2> DEFINE n == Registering(Tail(k.todo))
  <2>1. /\ calls' = [calls EXCEPT ![rc] = n] /\ k.at = "add"
        /\ repeatable' = [repeatable EXCEPT ![j] = k.cron]
        /\ unregistered' = unregistered \ {j}
    BY <1>1, <1>6 DEF AddRepeatable, RepeatablesWith, Job, CallsTyped, Under
  <2>2. n \in Calls /\ n.todo = Tail(k.todo) /\ n.at = "start"
    BY <1>2, CallFields
  <2>3. /\ repeatable' \in [Scheduled -> Crons \cup {BaseCron, None}]
        /\ repeatable'[j] # None
        /\ \A i \in Scheduled : i # j => repeatable'[i] = repeatable[i]
    BY <1>1, <1>2, <2>1 DEF CallsTyped, Calls
  <2> HIDE DEF n, j
  <2>4. /\ \A i \in Scheduled : repeatable[i] # None => repeatable'[i] # None
        /\ \A i \in Members(k.todo) : repeatable'[i] # None \/ i \in Members(n.todo)
        /\ \A i \in unregistered : repeatable'[i] # None \/ i \in unregistered'
    BY <1>2, <2>1, <2>2, <2>3
  <2> HIDE DEF k, rc
  <2> QED BY <1>1, <2>1, <2>2, <2>3, <2>4, CallMoves DEF CallsTyped, k
<1>7. CASE RegistrationFails(r, c)
  <2>1. /\ calls' = [calls EXCEPT ![rc] = Idle] /\ k.at # "start"
        /\ \/ repeatable' = repeatable
           \/ repeatable' = [repeatable EXCEPT ![j] = None]
           \/ repeatable' = [repeatable EXCEPT ![j] = k.cron]
        /\ unregistered' = unregistered \cup {i \in Members(k.todo) : repeatable'[i] = None}
    BY <1>1, <1>7 DEF RegistrationFails, RepeatablesWith, RepeatablesWithout, Job, Under
  <2>2. /\ repeatable' \in [Scheduled -> Crons \cup {BaseCron, None}]
        /\ \A i \in Scheduled : i # j => repeatable'[i] = repeatable[i]
    BY <1>1, <1>2, <2>1 DEF CallsTyped, Calls
  <2> HIDE DEF j
  <2>3. /\ \A i \in Members(k.todo) : repeatable'[i] # None \/ i \in unregistered'
        /\ \A i \in Scheduled : repeatable[i] # None =>
              repeatable'[i] # None \/ i \in unregistered'
        /\ \A i \in unregistered : i \in unregistered'
    BY <1>2, <2>1, <2>2
  <2> HIDE DEF k, rc
  <2> QED BY <1>1, <2>1, <2>2, <2>3, CallFields, CallMoves DEF CallsTyped, k
<1> QED BY <1>3, <1>4, <1>5, <1>6, <1>7 DEF Register

LEMMA RequestedRegistration ==
  ASSUME SchedulerInv, NEW r \in Replicas, NEW c \in Callers, NEW jobs \in Seq(Scheduled),
         calls[<<r, c>>] = Idle, calls' = [calls EXCEPT ![<<r, c>>] = Registering(jobs)],
         UNCHANGED <<repeatable, down, unregistered>>,
         override' \in [Replicas -> [Scheduled -> Crons \cup {None}]]
  PROVE  SchedulerInv'
<1> DEFINE rc == <<r, c>>
           k == Registering(jobs)
<1>1. k \in Calls /\ k.at = "start"
  BY CallFields
<1>2. Members(calls[rc].todo) = {}
  BY CallFields DEF Members
<1>3. rc \in Replicas \X Callers /\ calls' = [calls EXCEPT ![rc] = k]
  OBVIOUS
<1>4. repeatable' \in [Scheduled -> Crons \cup {BaseCron, None}]
  BY DEF SchedulerInv, CallsTyped
<1> HIDE DEF k, rc
<1> QED BY <1>1, <1>2, <1>3, <1>4, CallMoves

LEMMA CrashAndRestart ==
  ASSUME SchedulerInv, NEW r \in Replicas, Crash(r) \/ Restart(r)
  PROVE  SchedulerInv'
<1>1. CallsTyped /\ CronIsRead /\ NoneForgotten
  BY DEF SchedulerInv
<1>2. CASE Crash(r)
  <2>1. Unset \in [Scheduled -> Crons \cup {None}]
    BY DEF Unset
  <2>2. /\ calls' \in [Replicas \X Callers -> Calls] /\ down' # {}
        /\ down' \subseteq Replicas /\ UNCHANGED <<repeatable, unregistered>>
        /\ override' \in [Replicas -> [Scheduled -> Crons \cup {None}]]
        /\ \A rc \in Replicas \X Callers : calls'[rc] = Idle \/ calls'[rc] = calls[rc]
    BY <1>1, <1>2, <2>1, CallFields DEF Crash, CallsTyped
  <2> QED BY <1>1, <2>2, CallFields DEF SchedulerInv, CallsTyped, CronIsRead, NoneForgotten
<1>3. CASE Restart(r)
  <2> DEFINE rc == <<r, "init">>
             k == Registering(scheduledJobs)
  <2>1. /\ rc \in Replicas \X Callers /\ calls' = [calls EXCEPT ![rc] = k]
        /\ down' \subseteq Replicas /\ UNCHANGED <<repeatable, override>>
    BY <1>1, <1>3 DEF Restart, initScheduler, CallsTyped, Callers
  <2>2. k \in Calls /\ k.at = "start" /\ k.todo = scheduledJobs
    BY CallFields, AllJobs
  <2> HIDE DEF rc, k
  <2>3. /\ calls'[rc] = k /\ \A sd \in (Replicas \X Callers) \ {rc} : calls'[sd] = calls[sd]
        /\ calls' \in [Replicas \X Callers -> Calls]
    BY <1>1, <2>1, <2>2 DEF CallsTyped, Calls
  <2>4. \A j \in Scheduled : j \in Members(calls'[rc].todo)
    BY <2>2, <2>3, AllJobs
  <2>5. NoneForgotten'
    BY <2>1, <2>4 DEF NoneForgotten, Pending
  <2>6. CallsTyped'
    BY <1>1, <2>1, <2>3 DEF CallsTyped, Calls
  <2>7. CronIsRead'
    BY <1>1, <2>2, <2>3 DEF CronIsRead
  <2> QED BY <2>5, <2>6, <2>7 DEF SchedulerInv
<1> QED BY <1>2, <1>3

LEMMA SchedulerStart == SchedulerInit => SchedulerInv
<1> SUFFICES ASSUME SchedulerInit PROVE SchedulerInv
  OBVIOUS
<1>1. \A rc \in Replicas \X Callers :
        /\ calls[rc] \in Calls /\ calls[rc].at = "start"
        /\ rc[2] = "init" => calls[rc].todo = scheduledJobs
  BY CallFields, AllJobs DEF SchedulerInit
<1>2. CallsTyped
  BY <1>1 DEF SchedulerInit, CallsTyped, Unset, Calls
<1>3. NoneForgotten
  <2> SUFFICES ASSUME NEW j \in Scheduled, NEW r \in Replicas PROVE Pending(j)
    BY SomeReplica DEF NoneForgotten
  <2>1. <<r, "init">> \in Replicas \X Callers
    BY DEF Callers
  <2> QED BY <1>1, <2>1, AllJobs DEF Pending
<1> QED BY <1>1, <1>2, <1>3 DEF SchedulerInv, CronIsRead

LEMMA SchedulerKeeps == SchedulerInv /\ [SchedulerNext]_schedulerVars => SchedulerInv'
<1> SUFFICES ASSUME SchedulerInv, [SchedulerNext]_schedulerVars PROVE SchedulerInv'
  OBVIOUS
<1>1. ASSUME NEW r \in Replicas, NEW j \in Scheduled, NEW cron \in Crons, Put(r, j, cron)
      PROVE  SchedulerInv'
  <2>1. /\ calls[<<r, "put">>] = Idle /\ UNCHANGED <<repeatable, down, unregistered>>
        /\ calls' = [calls EXCEPT ![<<r, "put">>] = Registering(<<j>>)]
        /\ override' \in [Replicas -> [Scheduled -> Crons \cup {None}]]
    BY <1>1 DEF Put, SchedulerInv, CallsTyped
  <2>2. <<j>> \in Seq(Scheduled) /\ "put" \in Callers
    BY DEF Callers
  <2> QED BY <2>1, <2>2, RequestedRegistration
<1>2. ASSUME NEW r \in Replicas, Reload(r)
      PROVE  SchedulerInv'
  <2>1. /\ calls[<<r, "init">>] = Idle /\ UNCHANGED <<repeatable, down, unregistered>>
        /\ calls' = [calls EXCEPT ![<<r, "init">>] = Registering(scheduledJobs)]
        /\ override' \in [Replicas -> [Scheduled -> Crons \cup {None}]]
    BY <1>2 DEF Reload, SchedulerInv, CallsTyped
  <2>2. "init" \in Callers
    BY DEF Callers
  <2> QED BY <2>1, <2>2, AllJobs, RequestedRegistration
<1>3. CASE SchedulerNext
  BY <1>1, <1>2, <1>3, Registers, CrashAndRestart DEF SchedulerNext
<1>4. CASE UNCHANGED schedulerVars
  BY <1>4 DEF schedulerVars, SchedulerInv, CallsTyped, CronIsRead, NoneForgotten, Pending
<1> QED BY <1>3, <1>4

(* However the registrations of the replicas and of operators interleave   *)
(* and wherever one of them dies, a job that was taken out of Redis is     *)
(* still to be put back by somebody, unless an error of Redis ended the    *)
(* call that had to: what server.ts:134 and scheduler.routes.ts:59 swallow *)
(* or answer, and nobody does again.                                       *)
THEOREM JobsStayScheduled == SchedulerSpec => []QuietMeansScheduled
<1>1. SchedulerInv => QuietMeansScheduled
  <2> SUFFICES ASSUME SchedulerInv, Quiet, NEW j \in Scheduled, j \notin unregistered
               PROVE  repeatable[j] # None
    BY DEF QuietMeansScheduled
  <2>1. \A rc \in Replicas \X Callers : Members(calls[rc].todo) = {}
    BY CallFields DEF Quiet, SchedulerInv, CallsTyped, Members
  <2> QED BY <2>1 DEF SchedulerInv, NoneForgotten, Pending, Quiet
<1> QED BY <1>1, SchedulerStart, SchedulerKeeps, PTL DEF SchedulerSpec

-----------------------------------------------------------------------------
(* The queues: what a signal may still be charged.  A job that can come to *)
(* its charge again stands for one charge, and so does a dead letter that  *)
(* was not put back; whatever makes one more of them is a crash, or a      *)
(* retry of what had been put back already.                                *)

JobStates == {"waiting", "active", "charged", "completed", "failed", "dead"}
JobRecords == [signal : Signals, state : JobStates, attempts : Nat]

Chargeable(s, jobs, back) ==
  {j \in DOMAIN jobs : /\ jobs[j].signal = s
                       /\ \/ jobs[j].state \in {"waiting", "active", "failed"}
                          \/ jobs[j].state = "dead" /\ j \notin back}

QueueTyped ==
  /\ \E n \in Nat : job \in [1..n -> JobRecords]
  /\ charges \in [Signals -> Nat] /\ repeated \in [Signals -> Nat] /\ crashes \in Nat
  /\ retry = [r \in Retries |-> retry[r]]
  /\ \A j \in dlq \cup requeued : j \in Added /\ job[j].state = "dead"

(* A retry under way holds a dead letter, which it puts back before it     *)
(* removes the copy.                                                       *)
RetriesHold ==
  \A r \in Retries : retry[r] # NoRetry =>
    /\ retry[r].job \in Added /\ job[retry[r].job].state = "dead"
    /\ retry[r].pc = "remove" => retry[r].job \in requeued

ChargesLeft ==
  \A s \in Signals :
    /\ ~Sent(s) => charges[s] = 0
    /\ charges[s] + Cardinality(Chargeable(s, job, requeued)) <= 1 + crashes + repeated[s]

ChargedFirst ==
  \A j \in Added : job[j].state \in {"charged", "completed"} /\ job[j].signal \notin Exempt
                     => charges[job[j].signal] > 0

JobsInv == QueueTyped /\ RetriesHold /\ ChargesLeft /\ ChargedFirst /\ EveryJobIsKept

LEMMA ChargeableSize ==
  ASSUME NEW jobs, NEW n \in Nat, DOMAIN jobs = 1..n, NEW s, NEW back
  PROVE  /\ IsFiniteSet(Chargeable(s, jobs, back))
         /\ Cardinality(Chargeable(s, jobs, back)) \in Nat
<1>1. IsFiniteSet(1..n)
  BY FS_Interval
<1>2. Chargeable(s, jobs, back) \in SUBSET (1..n)
  BY DEF Chargeable
<1> QED BY <1>1, <1>2, FS_Subset, FS_CardinalityType

LEMMA SmallerSet ==
  ASSUME NEW S, IsFiniteSet(S), NEW T, T \subseteq S
  PROVE  Cardinality(T) <= Cardinality(S) /\ Cardinality(T) \in Nat /\ Cardinality(S) \in Nat
BY FS_Subset, FS_CardinalityType

LEMMA OneMore ==
  ASSUME NEW S, IsFiniteSet(S), NEW x, NEW T, T \subseteq S \cup {x}
  PROVE  Cardinality(T) <= Cardinality(S) + 1 /\ Cardinality(T) \in Nat /\ Cardinality(S) \in Nat
<1>1. /\ IsFiniteSet(S \cup {x}) /\ Cardinality(S) \in Nat
      /\ Cardinality(S \cup {x}) \in {Cardinality(S), Cardinality(S) + 1}
  BY FS_AddElement, FS_CardinalityType
<1>2. Cardinality(T) <= Cardinality(S \cup {x}) /\ Cardinality(T) \in Nat
  BY <1>1, SmallerSet
<1> QED BY <1>1, <1>2

LEMMA OneLess ==
  ASSUME NEW S, IsFiniteSet(S), NEW x \in S, NEW T, T \subseteq S \ {x}
  PROVE  Cardinality(T) <= Cardinality(S) - 1 /\ Cardinality(T) \in Nat /\ Cardinality(S) \in Nat
<1>1. /\ IsFiniteSet(S \ {x}) /\ Cardinality(S) \in Nat
      /\ Cardinality(S \ {x}) = Cardinality(S) - 1
  BY FS_RemoveElement, FS_CardinalityType
<1>2. Cardinality(T) <= Cardinality(S \ {x}) /\ Cardinality(T) \in Nat
  BY <1>1, SmallerSet
<1> QED BY <1>1, <1>2

(* One job changes its state, and no charge is made.                       *)
Advances(j, to, m) ==
  /\ j \in Added /\ to \in JobStates /\ m \in Nat
  /\ job' = [job EXCEPT ![j] = [@ EXCEPT !.state = to, !.attempts = m]]
  /\ UNCHANGED <<retry, charges, requeued, repeated>>
  /\ crashes' \in Nat /\ crashes <= crashes'
  /\ job[j].state # "dead"
  /\ job[j].state \in {"charged", "completed"} /\ to \in {"waiting", "active", "failed", "dead"}
       => crashes < crashes'
  /\ to \in {"charged", "completed"} =>
       job[j].state \in {"charged", "completed"} \/ job[j].signal \in Exempt
  /\ dlq \subseteq dlq' /\ lost \subseteq lost' /\ dlq' \subseteq dlq \cup {j}
  /\ to = "dead" => j \in dlq' \cup lost'
  /\ j \in dlq' => to = "dead"

LEMMA StateChanges ==
  ASSUME JobsInv, NEW j, NEW to, NEW m, Advances(j, to, m)
  PROVE  JobsInv'
<1>1. PICK n \in Nat : job \in [1..n -> JobRecords]
  BY DEF JobsInv, QueueTyped
<1>2. /\ QueueTyped /\ RetriesHold /\ ChargesLeft /\ ChargedFirst /\ EveryJobIsKept
      /\ Added = 1..n /\ job[j] \in JobRecords
  BY <1>1 DEF JobsInv, Added, Advances
<1>3. /\ job' \in [1..n -> JobRecords]
      /\ \A i \in (1..n) \ {j} : job'[i] = job[i]
      /\ job'[j].state = to /\ job'[j].signal = job[j].signal
  BY <1>1, <1>2 DEF JobRecords, Advances
<1>4. QueueTyped'
  BY <1>2, <1>3 DEF Advances, QueueTyped, Added
<1>5. RetriesHold'
  BY <1>2, <1>3 DEF Advances, RetriesHold, Added
<1>6. ChargedFirst'
  BY <1>2, <1>3 DEF Advances, ChargedFirst, Added
<1>7. EveryJobIsKept'
  BY <1>2, <1>3 DEF Advances, EveryJobIsKept, Added
<1>8. ASSUME NEW s \in Signals
      PROVE  /\ ~Sent(s)' => charges'[s] = 0
             /\ charges'[s] + Cardinality(Chargeable(s, job', requeued'))
                  <= 1 + crashes' + repeated'[s]
  <2> DEFINE S == Chargeable(s, job, requeued)
             T == Chargeable(s, job', requeued')
  <2>1. Of(s)' = Of(s)
    BY <1>2, <1>3 DEF Of, Added, Advances
  <2>2. IsFiniteSet(S) /\ Cardinality(S) \in Nat
    BY <1>1, ChargeableSize
  <2>3. T \subseteq S \/ (T \subseteq S \cup {j} /\ crashes < crashes')
    BY <1>2, <1>3 DEF Advances, Chargeable, JobRecords, JobStates
  <2> HIDE DEF S, T
  <2>4. Cardinality(T) <= Cardinality(S) + (crashes' - crashes) /\ Cardinality(T) \in Nat
    <3>1. CASE T \subseteq S
      BY <1>2, <2>2, <3>1, SmallerSet DEF QueueTyped, Advances
    <3>2. CASE T \subseteq S \cup {j} /\ crashes < crashes'
      <4>1. Cardinality(T) <= Cardinality(S) + 1 /\ Cardinality(T) \in Nat
        BY <2>2, <3>2, OneMore
      <4>2. crashes \in Nat /\ crashes' \in Nat
        BY <1>2 DEF QueueTyped, Advances
      <4> QED BY <2>2, <3>2, <4>1, <4>2
    <3> QED BY <2>3, <3>1, <3>2
  <2>5. charges[s] + Cardinality(S) <= 1 + crashes + repeated[s]
    BY <1>2 DEF ChargesLeft, S
  <2>6. charges[s] \in Nat /\ repeated[s] \in Nat /\ crashes \in Nat
    BY <1>2 DEF QueueTyped
  <2> QED BY <1>2, <2>1, <2>2, <2>4, <2>5, <2>6 DEF ChargesLeft, Sent, T, Advances
<1>9. ChargesLeft'
  BY <1>8 DEF ChargesLeft
<1> QED BY <1>4, <1>5, <1>6, <1>7, <1>9 DEF JobsInv

LEMMA JobFields ==
  ASSUME QueueTyped, NEW j \in Added
  PROVE  job[j].state \in JobStates /\ job[j].attempts \in Nat /\ job[j].signal \in Signals
<1>1. PICK n \in Nat : job \in [1..n -> JobRecords]
  BY DEF QueueTyped
<1>2. job[j] \in JobRecords
  BY <1>1 DEF Added
<1> QED BY <1>2 DEF JobRecords

LEMMA JobMoves ==
  ASSUME QueueTyped, NEW j \in Added, NEW to, NEW m
  PROVE  /\ [job EXCEPT ![j].state = to]
              = [job EXCEPT ![j] = [@ EXCEPT !.state = to, !.attempts = job[j].attempts]]
         /\ [job EXCEPT ![j].attempts = m, ![j].state = to]
              = [job EXCEPT ![j] = [@ EXCEPT !.state = to, !.attempts = m]]
<1>1. PICK n \in Nat : job \in [1..n -> JobRecords]
  BY DEF QueueTyped
<1>2. job[j] \in JobRecords
  BY <1>1 DEF Added
<1>3. [job[j] EXCEPT !.state = to] = [job[j] EXCEPT !.state = to, !.attempts = job[j].attempts]
  BY <1>2 DEF JobRecords
<1>4. [job EXCEPT ![j].attempts = m, ![j].state = to]
        = [job EXCEPT ![j] = [@ EXCEPT !.state = to, !.attempts = m]]
  BY <1>1, <1>2 DEF JobRecords, Added
<1> QED BY <1>3, <1>4

LEMMA WorkersKeepJobs ==
  ASSUME JobsInv, NEW j \in Added, Worker(j) \/ WorkerDies(j), ~Charge(j)
  PROVE  JobsInv'
<1>1. /\ QueueTyped /\ crashes \in Nat
      /\ j \in dlq => job[j].state = "dead"
  BY DEF JobsInv, QueueTyped
<1>9. job[j].attempts \in Nat /\ job[j].attempts + 1 \in Nat
  BY <1>1, JobFields
<1>2. CASE Take(j)
  <2>1. job' = [job EXCEPT ![j] = [@ EXCEPT !.state = "active", !.attempts = job[j].attempts]]
    BY <1>1, <1>2, JobMoves DEF Take, Move
  <2>2. job[j].state = "waiting" /\ UNCHANGED <<dlq, retry, charges, crashes, requeued, repeated, lost>>
    BY <1>2 DEF Take, Move, history
  <2>3. Advances(j, "active", job[j].attempts)
    BY <1>1, <1>9, <2>1, <2>2 DEF Advances, JobStates
  <2> QED BY <2>3, StateChanges
<1>3. CASE Exempted(j)
  <2>1. job' = [job EXCEPT ![j] = [@ EXCEPT !.state = "completed", !.attempts = job[j].attempts]]
    BY <1>1, <1>3, JobMoves DEF Exempted, Move
  <2>2. /\ job[j].state = "active" /\ job[j].signal \in Exempt
       /\ UNCHANGED <<dlq, retry, charges, crashes, requeued, repeated, lost>>
    BY <1>3 DEF Exempted, Move, history
  <2>3. Advances(j, "completed", job[j].attempts)
    BY <1>1, <1>9, <2>1, <2>2 DEF Advances, JobStates
  <2> QED BY <2>3, StateChanges
<1>4. CASE Refuse(j)
  <2> DEFINE to == IF job[j].attempts + 1 < MaxAttempts THEN "waiting" ELSE "failed"
  <2>1. job' = [job EXCEPT ![j].attempts = job[j].attempts + 1, ![j].state = to]
    BY <1>4 DEF Refuse, JobThrows
  <2>2. job' = [job EXCEPT ![j] = [@ EXCEPT !.state = to, !.attempts = job[j].attempts + 1]]
    BY <1>1, <2>1, JobMoves
  <2>3. to \in JobStates /\ to \notin {"charged", "completed", "dead"}
    BY DEF JobStates
  <2> HIDE DEF to
  <2>4. Advances(j, to, job[j].attempts + 1)
    BY <1>1, <1>4, <2>2, <2>3, <1>9 DEF Advances, Refuse, history
  <2> QED BY <2>4, StateChanges
<1>5. CASE Complete(j)
  <2>1. job' = [job EXCEPT ![j] = [@ EXCEPT !.state = "completed", !.attempts = job[j].attempts]]
    BY <1>1, <1>5, JobMoves DEF Complete, Move
  <2>2. job[j].state = "charged" /\ UNCHANGED <<dlq, retry, charges, crashes, requeued, repeated, lost>>
    BY <1>5 DEF Complete, Move, history
  <2>3. Advances(j, "completed", job[j].attempts)
    BY <1>1, <1>9, <2>1, <2>2 DEF Advances, JobStates
  <2> QED BY <2>3, StateChanges
<1>6. CASE DeadLetter(j)
  <2>1. job' = [job EXCEPT ![j] = [@ EXCEPT !.state = "dead", !.attempts = job[j].attempts]]
    BY <1>1, <1>6, JobMoves DEF DeadLetter, Move
  <2>2. /\ job[j].state = "failed" /\ dlq' = dlq \cup {j}
       /\ UNCHANGED <<retry, charges, crashes, requeued, repeated, lost>>
    BY <1>6 DEF DeadLetter, Move, history
  <2>3. Advances(j, "dead", job[j].attempts)
    BY <1>1, <1>9, <2>1, <2>2 DEF Advances, JobStates
  <2> QED BY <2>3, StateChanges
<1>7. CASE /\ WorkerDies(j)
           /\ job[j].state \in {"active", "charged"}
           /\ job' = [job EXCEPT ![j].state = "waiting"] /\ UNCHANGED lost
  <2>1. job' = [job EXCEPT ![j] = [@ EXCEPT !.state = "waiting", !.attempts = job[j].attempts]]
    BY <1>1, <1>7, JobMoves
  <2>2. /\ job[j].state \in {"active", "charged"} /\ crashes' = crashes + 1
       /\ UNCHANGED <<dlq, retry, charges, requeued, repeated, lost>>
    BY <1>7 DEF WorkerDies
  <2>3. Advances(j, "waiting", job[j].attempts)
    BY <1>1, <1>9, <2>1, <2>2 DEF Advances, JobStates
  <2> QED BY <2>3, StateChanges
<1>8. CASE WorkerDies(j) /\ Move(j, "failed", "dead") /\ lost' = lost \cup {j}
  <2>1. job' = [job EXCEPT ![j] = [@ EXCEPT !.state = "dead", !.attempts = job[j].attempts]]
    BY <1>1, <1>8, JobMoves DEF Move
  <2>2. /\ job[j].state = "failed" /\ crashes' = crashes + 1 /\ lost' = lost \cup {j}
       /\ UNCHANGED <<dlq, retry, charges, requeued, repeated>>
    BY <1>8 DEF WorkerDies, Move
  <2>3. Advances(j, "dead", job[j].attempts)
    BY <1>1, <1>9, <2>1, <2>2 DEF Advances, JobStates
  <2> QED BY <2>3, StateChanges
<1> QED BY <1>2, <1>3, <1>4, <1>5, <1>6, <1>7, <1>8 DEF Worker, WorkerDies

(* A charge takes the job out of those that may still be charged.          *)
LEMMA ChargeKeepsJobs ==
  ASSUME JobsInv, NEW j \in Added, Charge(j)
  PROVE  JobsInv'
<1>1. PICK n \in Nat : job \in [1..n -> JobRecords]
  BY DEF JobsInv, QueueTyped
<1> DEFINE s0 == job[j].signal
<1>2. /\ QueueTyped /\ RetriesHold /\ ChargesLeft /\ ChargedFirst /\ EveryJobIsKept
      /\ Added = 1..n /\ job[j] \in JobRecords /\ s0 \in Signals
  BY <1>1 DEF JobsInv, Added, JobRecords
<1>3. /\ job[j].state = "active" /\ job' = [job EXCEPT ![j].state = "charged"]
      /\ charges' = [charges EXCEPT ![s0] = @ + 1]
      /\ UNCHANGED <<dlq, retry, crashes, requeued, repeated, lost>>
  BY DEF Charge, Move, history
<1>4. /\ job' \in [1..n -> JobRecords]
      /\ \A i \in (1..n) \ {j} : job'[i] = job[i]
      /\ job'[j].state = "charged" /\ job'[j].signal = s0
  BY <1>1, <1>2, <1>3 DEF JobRecords, JobStates
<1>5. /\ charges \in [Signals -> Nat] /\ charges' \in [Signals -> Nat]
      /\ charges'[s0] = charges[s0] + 1
      /\ \A s \in Signals : s # s0 => charges'[s] = charges[s]
  BY <1>2, <1>3 DEF QueueTyped
<1>6. QueueTyped'
  BY <1>2, <1>3, <1>4, <1>5 DEF QueueTyped, Added
<1>7. RetriesHold'
  BY <1>2, <1>3, <1>4 DEF RetriesHold, Added
<1>8. ChargedFirst'
  <2> SUFFICES ASSUME NEW i \in 1..n, job'[i].state \in {"charged", "completed"},
                      job'[i].signal \notin Exempt
               PROVE  charges'[job'[i].signal] > 0
    BY <1>4 DEF ChargedFirst, Added
  <2>1. CASE i = j
    BY <1>2, <1>4, <1>5, <2>1
  <2>2. CASE i # j
    <3>1. charges[job[i].signal] > 0 /\ job[i].signal \in Signals /\ job'[i] = job[i]
      BY <1>1, <1>2, <1>4, <2>2 DEF ChargedFirst, JobRecords
    <3> QED BY <1>2, <1>5, <3>1
  <2> QED BY <2>1, <2>2
<1>9. EveryJobIsKept'
  BY <1>2, <1>3, <1>4 DEF EveryJobIsKept, Added
<1>10. ASSUME NEW s \in Signals
       PROVE  /\ ~Sent(s)' => charges'[s] = 0
              /\ charges'[s] + Cardinality(Chargeable(s, job', requeued'))
                   <= 1 + crashes' + repeated'[s]
  <2> DEFINE S == Chargeable(s, job, requeued)
             T == Chargeable(s, job', requeued')
  <2>1. Of(s)' = Of(s) /\ (s = s0 => j \in Of(s))
    BY <1>2, <1>4 DEF Of, Added
  <2>2. IsFiniteSet(S) /\ Cardinality(S) \in Nat
    BY <1>1, ChargeableSize
  <2>3. T \subseteq S /\ (s = s0 => j \in S /\ T \subseteq S \ {j})
    BY <1>2, <1>3, <1>4 DEF Chargeable
  <2>4. charges[s] + Cardinality(S) <= 1 + crashes + repeated[s]
    BY <1>2 DEF ChargesLeft
  <2>5. charges[s] \in Nat /\ repeated[s] \in Nat /\ crashes \in Nat
    BY <1>2 DEF QueueTyped
  <2>6. ~Sent(s)' => charges'[s] = 0
    BY <1>2, <1>5, <2>1 DEF ChargesLeft, Sent
  <2> HIDE DEF S, T
  <2>7. charges'[s] + Cardinality(T) <= charges[s] + Cardinality(S)
    <3>1. CASE s = s0
      <4>1. Cardinality(T) <= Cardinality(S) - 1 /\ Cardinality(T) \in Nat
        BY <2>2, <2>3, <3>1, OneLess
      <4> QED BY <1>5, <2>2, <2>5, <3>1, <4>1
    <3>2. CASE s # s0
      BY <1>5, <2>2, <2>3, <2>5, <3>2, SmallerSet
    <3> QED BY <3>1, <3>2
  <2>8. charges'[s] \in Nat /\ Cardinality(T) \in Nat
    BY <1>5, <2>2, <2>3, SmallerSet
  <2> QED BY <1>3, <2>2, <2>4, <2>5, <2>6, <2>7, <2>8 DEF T
<1>11. ChargesLeft'
  BY <1>10 DEF ChargesLeft
<1> QED BY <1>6, <1>7, <1>8, <1>9, <1>11 DEF JobsInv

(* Adding a job: the ones there keep their places.                         *)
LEMMA AddedJob ==
  ASSUME NEW n \in Nat, job \in [1..n -> JobRecords], NEW s \in Signals, Add(s)
  PROVE  /\ Added = 1..n /\ job' \in [1..(n + 1) -> JobRecords] /\ n + 1 \in Nat
         /\ \A i \in 1..n : job'[i] = job[i]
         /\ job'[n + 1].signal = s /\ job'[n + 1].state = "waiting"
<1>1. Added = 1..n
  BY DEF Added
<1>2. Cardinality(Added) = n
  BY <1>1, FS_Interval
<1>3. job' = [j \in 1..(n + 1) |-> IF j \in 1..n THEN job[j]
                ELSE [signal |-> s, state |-> "waiting", attempts |-> 0]]
  BY <1>1, <1>2 DEF Add
<1>4. n + 1 \in 1..(n + 1) /\ n + 1 \notin 1..n /\ 1..n \subseteq 1..(n + 1)
  OBVIOUS
<1>5. [signal |-> s, state |-> "waiting", attempts |-> 0] \in JobRecords
  BY DEF JobRecords, JobStates
<1>6. job' \in [1..(n + 1) -> JobRecords]
  BY <1>3, <1>5
<1> QED BY <1>1, <1>3, <1>4, <1>6

LEMMA SendKeepsJobs ==
  ASSUME JobsInv, NEW s0 \in Signals, Send(s0)
  PROVE  JobsInv'
<1>1. PICK n \in Nat : job \in [1..n -> JobRecords]
  BY DEF JobsInv, QueueTyped
<1>2. /\ QueueTyped /\ RetriesHold /\ ChargesLeft /\ ChargedFirst /\ EveryJobIsKept
  BY DEF JobsInv
<1>3. /\ ~Sent(s0)
      /\ UNCHANGED <<dlq, retry, charges, crashes, requeued, repeated, lost>>
  BY DEF Send, history
<1>4. /\ Added = 1..n /\ job' \in [1..(n + 1) -> JobRecords] /\ n + 1 \in Nat
      /\ \A i \in 1..n : job'[i] = job[i]
      /\ job'[n + 1].signal = s0 /\ job'[n + 1].state = "waiting"
  BY <1>1, AddedJob DEF Send
<1>5. Added' = 1..(n + 1)
  BY <1>4 DEF Added
<1>6. \A i \in 1..(n + 1) : i \in 1..n \/ i = n + 1
  OBVIOUS
<1>7. QueueTyped'
  BY <1>2, <1>3, <1>4, <1>5 DEF QueueTyped
<1>8. RetriesHold'
  BY <1>2, <1>3, <1>4, <1>5 DEF RetriesHold
<1>9. ChargedFirst'
  BY <1>2, <1>3, <1>4, <1>5, <1>6 DEF ChargedFirst
<1>10. EveryJobIsKept'
  BY <1>2, <1>3, <1>4, <1>5, <1>6 DEF EveryJobIsKept
<1>11. ASSUME NEW s \in Signals
       PROVE  /\ ~Sent(s)' => charges'[s] = 0
              /\ charges'[s] + Cardinality(Chargeable(s, job', requeued'))
                   <= 1 + crashes' + repeated'[s]
  <2> DEFINE S == Chargeable(s, job, requeued)
             T == Chargeable(s, job', requeued')
  <2>1. Of(s) \subseteq Of(s)'
    BY <1>4, <1>5 DEF Of
  <2>2. IsFiniteSet(S) /\ Cardinality(S) \in Nat
    BY <1>1, ChargeableSize
  <2>3. charges[s] + Cardinality(S) <= 1 + crashes + repeated[s]
    BY <1>2 DEF ChargesLeft
  <2>4. charges[s] \in Nat /\ repeated[s] \in Nat /\ crashes \in Nat
    BY <1>2 DEF QueueTyped
  <2>5. T \subseteq S \cup {n + 1} /\ (s # s0 => T \subseteq S)
    BY <1>3, <1>4, <1>5, <1>6 DEF Chargeable, Added
  <2>6. s = s0 => S = {} /\ charges[s] = 0
    BY <1>2, <1>3 DEF ChargesLeft, Sent, Of, Chargeable, Added
  <2>7. ~Sent(s)' => charges'[s] = 0
    BY <1>2, <1>3, <2>1 DEF ChargesLeft, Sent
  <2> HIDE DEF S, T
  <2>8. charges[s] + Cardinality(T) <= 1 + crashes + repeated[s]
    <3>1. CASE s = s0
      <4>1. Cardinality(S) = 0
        BY <2>6, <3>1, FS_EmptySet
      <4>2. Cardinality(T) <= Cardinality(S) + 1 /\ Cardinality(T) \in Nat
        BY <2>2, <2>5, OneMore
      <4> QED BY <2>4, <2>6, <3>1, <4>1, <4>2
    <3>2. CASE s # s0
      <4>1. Cardinality(T) <= Cardinality(S) /\ Cardinality(T) \in Nat
        BY <2>2, <2>5, <3>2, SmallerSet
      <4> QED BY <2>2, <2>3, <2>4, <4>1
    <3> QED BY <3>1, <3>2
  <2> QED BY <1>3, <2>7, <2>8 DEF T
<1>12. ChargesLeft'
  BY <1>11 DEF ChargesLeft
<1> QED BY <1>7, <1>8, <1>9, <1>10, <1>12 DEF JobsInv

(* A dead letter that is put back for the first time hands its claim to a  *)
(* charge to the new job; a second time is what repeated counts.           *)
LEMMA RetryAddKeepsJobs ==
  ASSUME JobsInv, NEW r \in Retries, RetryAdd(r)
  PROVE  JobsInv'
<1>1. PICK n \in Nat : job \in [1..n -> JobRecords]
  BY DEF JobsInv, QueueTyped
<1> DEFINE j == retry[r].job
           s0 == job[j].signal
<1>2. /\ QueueTyped /\ RetriesHold /\ ChargesLeft /\ ChargedFirst /\ EveryJobIsKept
  BY DEF JobsInv
<1>3. /\ retry[r] # NoRetry /\ Add(s0) /\ requeued' = requeued \cup {j}
      /\ repeated' = [repeated EXCEPT ![s0] = IF j \in requeued THEN @ + 1 ELSE @]
      /\ retry' = [retry EXCEPT ![r].pc = "remove"]
      /\ UNCHANGED <<dlq, charges, crashes, lost>>
  BY DEF RetryAdd, NoRetry
<1>4. j \in Added /\ job[j].state = "dead"
  BY <1>2, <1>3 DEF RetriesHold
<1>5. s0 \in Signals
  BY <1>2, <1>4, JobFields
<1> HIDE DEF s0
<1>6. /\ Added = 1..n /\ job' \in [1..(n + 1) -> JobRecords] /\ n + 1 \in Nat
      /\ \A i \in 1..n : job'[i] = job[i]
      /\ job'[n + 1].signal = s0 /\ job'[n + 1].state = "waiting"
  BY <1>1, <1>3, <1>5, AddedJob
<1>7. Added' = 1..(n + 1) /\ 1..n \subseteq 1..(n + 1) /\ n + 1 \notin 1..n
  BY <1>6 DEF Added
<1>8. \A i \in 1..(n + 1) : i \in 1..n \/ i = n + 1
  OBVIOUS
<1>9. /\ retry = [q \in Retries |-> retry[q]]
      /\ retry' = [q \in Retries |-> retry'[q]]
      /\ \A q \in Retries : q # r => retry'[q] = retry[q]
      /\ retry'[r] = [retry[r] EXCEPT !.pc = "remove"]
  BY <1>2, <1>3 DEF QueueTyped
<1>10. retry'[r].job = j
  BY <1>9
<1>11. /\ repeated' \in [Signals -> Nat]
       /\ \A s \in Signals : repeated[s] <= repeated'[s]
       /\ j \in requeued => repeated'[s0] = repeated[s0] + 1
  BY <1>2, <1>3, <1>5 DEF QueueTyped
<1> HIDE DEF j
<1>12. QueueTyped'
  BY <1>2, <1>3, <1>4, <1>6, <1>7, <1>9, <1>11 DEF QueueTyped
<1>13. RetriesHold'
  <2> SUFFICES ASSUME NEW q \in Retries, retry'[q] # NoRetry
               PROVE  /\ retry'[q].job \in 1..(n + 1) /\ job'[retry'[q].job].state = "dead"
                      /\ retry'[q].pc = "remove" => retry'[q].job \in requeued'
    BY <1>7 DEF RetriesHold
  <2>1. CASE q = r
    BY <1>3, <1>4, <1>6, <1>7, <1>10, <2>1
  <2>2. CASE q # r
    <3>1. retry'[q] = retry[q] /\ retry[q] # NoRetry
      BY <1>9, <2>2
    <3>2. /\ retry[q].job \in 1..n /\ job[retry[q].job].state = "dead"
          /\ retry[q].pc = "remove" => retry[q].job \in requeued
      BY <1>2, <1>6, <3>1 DEF RetriesHold
    <3>3. job'[retry[q].job] = job[retry[q].job] /\ retry[q].job \in 1..(n + 1)
      BY <1>6, <1>7, <3>2
    <3>4. requeued \subseteq requeued'
      BY <1>3
    <3> QED BY <3>1, <3>2, <3>3, <3>4
  <2> QED BY <2>1, <2>2
<1>14. ChargedFirst'
  BY <1>2, <1>3, <1>6, <1>7, <1>8 DEF ChargedFirst
<1>15. EveryJobIsKept'
  BY <1>2, <1>3, <1>6, <1>7, <1>8 DEF EveryJobIsKept
<1>16. ASSUME NEW s \in Signals
       PROVE  /\ ~Sent(s)' => charges'[s] = 0
              /\ charges'[s] + Cardinality(Chargeable(s, job', requeued'))
                   <= 1 + crashes' + repeated'[s]
  <2> DEFINE S == Chargeable(s, job, requeued)
             T == Chargeable(s, job', requeued')
             M == S \ {j}
  <2>1. Of(s) \subseteq Of(s)'
    BY <1>6, <1>7 DEF Of
  <2>2. IsFiniteSet(S) /\ Cardinality(S) \in Nat
    BY <1>1, ChargeableSize
  <2>3. charges[s] + Cardinality(S) <= 1 + crashes + repeated[s]
    BY <1>2 DEF ChargesLeft
  <2>4. /\ charges[s] \in Nat /\ repeated[s] \in Nat /\ crashes \in Nat
        /\ repeated'[s] \in Nat /\ repeated[s] <= repeated'[s]
    BY <1>2, <1>11 DEF QueueTyped
  <2>5. ~Sent(s)' => charges'[s] = 0
    BY <1>2, <1>3, <2>1 DEF ChargesLeft, Sent
  <2>6. /\ T \subseteq M \cup {n + 1}
        /\ s # s0 => T \subseteq S
        /\ j \notin requeued /\ s = s0 => j \in S
    BY <1>3, <1>4, <1>6, <1>7, <1>8 DEF Chargeable, Added, s0
  <2>7. M \subseteq S
    OBVIOUS
  <2>8. j \in S => M \subseteq S \ {j}
    OBVIOUS
  <2> HIDE DEF S, T, M
  <2>9. Cardinality(M) <= Cardinality(S) /\ Cardinality(M) \in Nat /\ IsFiniteSet(M)
    BY <2>2, <2>7, SmallerSet, FS_Subset
  <2>10. Cardinality(T) <= Cardinality(M) + 1 /\ Cardinality(T) \in Nat
    BY <2>6, <2>9, OneMore
  <2>11. charges[s] + Cardinality(T) <= 1 + crashes + repeated'[s]
    <3>1. CASE s # s0
      <4>1. Cardinality(T) <= Cardinality(S) /\ Cardinality(T) \in Nat
        BY <2>2, <2>6, <3>1, SmallerSet
      <4> QED BY <2>2, <2>3, <2>4, <4>1
    <3>2. CASE s = s0 /\ j \in requeued
      BY <1>11, <2>2, <2>3, <2>4, <2>9, <2>10, <3>2
    <3>3. CASE s = s0 /\ j \notin requeued
      <4>1. Cardinality(M) <= Cardinality(S) - 1
        BY <2>2, <2>6, <2>8, <3>3, OneLess
      <4> QED BY <2>2, <2>3, <2>4, <2>9, <2>10, <4>1
    <3> QED BY <3>1, <3>2, <3>3
  <2> QED BY <1>3, <2>5, <2>11 DEF T
<1>17. ChargesLeft'
  BY <1>16 DEF ChargesLeft
<1> QED BY <1>12, <1>13, <1>14, <1>15, <1>17 DEF JobsInv

(* The other steps of a retry and the sweep leave the jobs as they are.    *)
LEMMA RetriesKeepJobs ==
  ASSUME JobsInv, NEW r \in Retries, RetryRead(r) \/ RetryRemove(r) \/ RetryFails(r)
  PROVE  JobsInv'
<1>1. /\ QueueTyped /\ RetriesHold /\ ChargesLeft /\ ChargedFirst /\ EveryJobIsKept
  BY DEF JobsInv
<1>2. /\ UNCHANGED <<job, charges, requeued, repeated, lost>>
      /\ dlq' = dlq \/ (dlq' = dlq \ {retry[r].job} /\ retry[r].pc = "remove")
      /\ crashes' \in Nat /\ crashes <= crashes'
  BY <1>1 DEF RetryRead, RetryRemove, RetryFails, queue, history, QueueTyped
<1>3. /\ Added' = Added
      /\ retry = [q \in Retries |-> retry[q]]
  BY <1>1, <1>2 DEF Added, QueueTyped
<1>4. /\ retry' = [q \in Retries |-> retry'[q]]
      /\ \A q \in Retries : q # r => retry'[q] = retry[q]
      /\ \/ retry'[r] = NoRetry
         \/ \E j \in dlq : retry'[r] = [pc |-> "add", job |-> j]
  BY <1>3 DEF RetryRead, RetryRemove, RetryFails
<1>5. QueueTyped'
  BY <1>1, <1>2, <1>3, <1>4 DEF QueueTyped
<1>6. RetriesHold'
  <2> SUFFICES ASSUME NEW q \in Retries, retry'[q] # NoRetry
               PROVE  /\ retry'[q].job \in Added /\ job[retry'[q].job].state = "dead"
                      /\ retry'[q].pc = "remove" => retry'[q].job \in requeued
    BY <1>2, <1>3 DEF RetriesHold
  <2>1. CASE q # r
    BY <1>1, <1>4, <2>1 DEF RetriesHold
  <2>2. CASE q = r
    <3>1. PICK j \in dlq : retry'[r] = [pc |-> "add", job |-> j]
      BY <1>4, <2>2
    <3> QED BY <1>1, <2>2, <3>1 DEF QueueTyped
  <2> QED BY <2>1, <2>2
<1>7. ChargedFirst'
  BY <1>1, <1>2, <1>3 DEF ChargedFirst
<1>8. EveryJobIsKept'
  <2>1. retry[r].pc = "remove" => retry[r].job \in requeued
    BY <1>1 DEF RetriesHold, NoRetry
  <2> QED BY <1>1, <1>2, <1>3, <2>1 DEF EveryJobIsKept
<1>9. ASSUME NEW s \in Signals
      PROVE  /\ ~Sent(s)' => charges'[s] = 0
             /\ charges'[s] + Cardinality(Chargeable(s, job', requeued'))
                  <= 1 + crashes' + repeated'[s]
  <2>1. PICK n \in Nat : job \in [1..n -> JobRecords]
    BY <1>1 DEF QueueTyped
  <2>2. Of(s)' = Of(s) /\ charges'[s] = charges[s] /\ repeated'[s] = repeated[s]
    BY <1>2, <1>3 DEF Of
  <2>3. Chargeable(s, job', requeued') = Chargeable(s, job, requeued)
    BY <1>2
  <2>4. Cardinality(Chargeable(s, job, requeued)) \in Nat
    BY <2>1, ChargeableSize
  <2>5. charges[s] \in Nat /\ repeated[s] \in Nat /\ crashes \in Nat
    BY <1>1 DEF QueueTyped
  <2>6. /\ ~Sent(s) => charges[s] = 0
        /\ charges[s] + Cardinality(Chargeable(s, job, requeued)) <= 1 + crashes + repeated[s]
    BY <1>1 DEF ChargesLeft
  <2>7. ~Sent(s)' => charges'[s] = 0
    BY <2>2, <2>6 DEF Sent
  <2>8. charges[s] + Cardinality(Chargeable(s, job, requeued)) <= 1 + crashes' + repeated[s]
    BY <1>2, <2>4, <2>5, <2>6
  <2> QED BY <2>2, <2>3, <2>7, <2>8
<1>10. ChargesLeft'
  BY <1>9 DEF ChargesLeft
<1> QED BY <1>5, <1>6, <1>7, <1>8, <1>10 DEF JobsInv

LEMMA PurgeKeepsJobs ==
  ASSUME JobsInv, NEW j \in Added, Purge(j)
  PROVE  JobsInv'
<1>1. /\ QueueTyped /\ RetriesHold /\ ChargesLeft /\ ChargedFirst /\ EveryJobIsKept
  BY DEF JobsInv
<1>2. /\ UNCHANGED <<job, retry, charges, crashes, requeued, repeated>>
      /\ dlq' = dlq \ {j} /\ lost' = lost \cup ({j} \ requeued)
  BY DEF Purge
<1>3. QueueTyped'
  BY <1>1, <1>2 DEF QueueTyped, Added
<1>4. RetriesHold'
  BY <1>1, <1>2 DEF RetriesHold, Added
<1>5. ChargesLeft'
  BY <1>1, <1>2 DEF ChargesLeft, Sent, Of, Added
<1>6. ChargedFirst'
  BY <1>1, <1>2 DEF ChargedFirst, Added
<1>7. EveryJobIsKept'
  BY <1>1, <1>2 DEF EveryJobIsKept, Added
<1> QED BY <1>3, <1>4, <1>5, <1>6, <1>7 DEF JobsInv

LEMMA JobsStart == JobsInit => JobsInv
<1> SUFFICES ASSUME JobsInit PROVE JobsInv
  OBVIOUS
<1>1. /\ job = << >> /\ dlq = {} /\ crashes = 0 /\ requeued = {} /\ lost = {}
      /\ retry = [r \in Retries |-> NoRetry]
      /\ charges = [s \in Signals |-> 0] /\ repeated = [s \in Signals |-> 0]
  BY DEF JobsInit
<1>2. Added = {} /\ job \in [1..0 -> JobRecords] /\ 0 \in Nat
  BY <1>1 DEF Added
<1>3. QueueTyped
  BY <1>1, <1>2 DEF QueueTyped
<1>4. RetriesHold
  BY <1>1 DEF RetriesHold
<1>5. ASSUME NEW s \in Signals
      PROVE  /\ charges[s] = 0 /\ repeated[s] = 0
             /\ Cardinality(Chargeable(s, job, requeued)) = 0
  <2>1. Chargeable(s, job, requeued) = {}
    BY <1>2 DEF Chargeable, Added
  <2> QED BY <1>1, <2>1, FS_EmptySet
<1>6. ChargesLeft
  BY <1>1, <1>5 DEF ChargesLeft
<1>7. ChargedFirst /\ EveryJobIsKept
  BY <1>2 DEF ChargedFirst, EveryJobIsKept
<1> QED BY <1>3, <1>4, <1>6, <1>7 DEF JobsInv

LEMMA JobsStep == JobsInv /\ [JobsNext]_jobVars => JobsInv'
<1> SUFFICES ASSUME JobsInv, [JobsNext]_jobVars PROVE JobsInv'
  OBVIOUS
<1>1. CASE \E s \in Signals : Send(s)
  BY <1>1, SendKeepsJobs
<1>2. CASE \E j \in Added : Worker(j) \/ WorkerDies(j)
  BY <1>2, WorkersKeepJobs, ChargeKeepsJobs
<1>3. CASE \E j \in Added : Purge(j)
  BY <1>3, PurgeKeepsJobs
<1>4. CASE \E r \in Retries : RetryRead(r) \/ RetryAdd(r) \/ RetryRemove(r) \/ RetryFails(r)
  BY <1>4, RetryAddKeepsJobs, RetriesKeepJobs
<1>5. CASE UNCHANGED jobVars
  BY <1>5 DEF jobVars, queue, history, JobsInv, QueueTyped, RetriesHold, ChargesLeft,
              ChargedFirst, EveryJobIsKept, Sent, Of, Added
<1> QED BY <1>1, <1>2, <1>3, <1>4, <1>5 DEF JobsNext

(* For every number of jobs, retries and crashes: a charge beyond the      *)
(* first has a crash or a repeated retry to its name, what is completed    *)
(* was charged, and an accepted job is only ever dropped by a crash of the *)
(* listener or by the retention of dead letters (setup-dlq.ts, the         *)
(* processors of workers/ and CreditConsumptionService).                   *)
THEOREM JobsKeepTheirCharges == JobsSpec => []JobsAreAccounted
<1>1. JobsInv => JobsAreAccounted
  <2> SUFFICES ASSUME JobsInv PROVE JobsAreAccounted
    OBVIOUS
  <2>1. PICK n \in Nat : job \in [1..n -> JobRecords]
    BY DEF JobsInv, QueueTyped
  <2>2. ASSUME NEW s \in Signals PROVE charges[s] <= 1 + crashes + repeated[s]
    <3>1. Cardinality(Chargeable(s, job, requeued)) \in Nat
      BY <2>1, ChargeableSize
    <3>2. charges[s] + Cardinality(Chargeable(s, job, requeued)) <= 1 + crashes + repeated[s]
      BY DEF JobsInv, ChargesLeft
    <3>3. charges[s] \in Nat /\ repeated[s] \in Nat /\ crashes \in Nat
      BY DEF JobsInv, QueueTyped
    <3> QED BY <3>1, <3>2, <3>3
  <2>3. CompletedIsCharged
    BY DEF JobsInv, ChargedFirst, CompletedIsCharged
  <2> QED BY <2>2, <2>3 DEF JobsInv, JobsAreAccounted, ChargesAreExplained
<1> QED BY <1>1, JobsStart, JobsStep, PTL DEF JobsSpec

=============================================================================
