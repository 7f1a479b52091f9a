\* Two attempts for each job, four jobs in all, one crash; a process with two
\* requests and two jobs; two replicas that may crash twice.
CONSTANTS
  Signals = {signal, cron}
  Exempt = {cron}
  Retries = {o1, o2}
  MaxAttempts = 2
  MaxJobs = 4
  MaxCrashes = 1
  Requests = {q1, q2}
  WorkerJobs = {w1, w2}
  Replicas = {r1, r2}
  Crons = {hourly}
  BaseCron = daily
  None = None
  MaxPuts = 1
  MaxReloads = 1
  MaxReplicaCrashes = 2
SPECIFICATION MCSpec
\* All jobs may be done and the process gone.
CHECK_DEADLOCK FALSE
INVARIANTS JobsAreAccounted ShutdownIsOrderly QuietMeansScheduled
PROPERTIES EveryJobEnds ShutdownEnds
