----------------------------- MODULE MCPlatform -----------------------------
(* The job queues, one backend process and the scheduler, each on its own:  *)
(* `focus` says which of them moves.                                        *)
EXTENDS Jobs, Lifecycle, Scheduler

VARIABLE focus

OnJobs == focus = "jobs" /\ UNCHANGED <<processVars, schedulerVars, focus>>
OnProcess == focus = "process" /\ UNCHANGED <<jobVars, schedulerVars, focus>>
OnScheduler == focus = "scheduler" /\ UNCHANGED <<jobVars, processVars, focus>>

MCInit == /\ JobsInit /\ ProcessInit /\ SchedulerInit
          /\ focus \in {"jobs", "process", "scheduler"}

MCNext == \/ JobsNext /\ OnJobs
          \/ ProcessNext /\ OnProcess
          \/ SchedulerNext /\ OnScheduler

MCVars == <<jobVars, processVars, schedulerVars, focus>>

MCFairness ==
  /\ \A j \in JobIds : WF_MCVars(j \in Added /\ Worker(j) /\ OnJobs)
  /\ WF_MCVars(ForceExit /\ OnProcess)

MCSpec == MCInit /\ [][MCNext]_MCVars /\ MCFairness
=============================================================================
