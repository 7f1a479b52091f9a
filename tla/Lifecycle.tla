----------------------------- MODULE Lifecycle -----------------------------
(***************************************************************************)
(* One backend process from start to exit: bootstrap opens connections,    *)
(* workers and the HTTP server one after the other; a signal runs the      *)
(* registered shutdown callbacks in order, under a timer that forces the   *)
(* exit.  Bootstrap does not look at the signal, so the two interleave.    *)
(***************************************************************************)
EXTENDS Integers, Sequences, FiniteSets

CONSTANTS
  Requests,        \* HTTP requests the process may be sent
  WorkerJobs       \* queue jobs its workers may take

VARIABLES
  boot,            \* index of the next step of bootstrap
  open,            \* what is open
  client,          \* the shared Redis client exists
  ready,           \* the readiness probe's last answer
  requests,        \* requests being handled
  working,         \* jobs being processed
  stop,            \* index of the shutdown callback under way, 0 before a signal
  early,           \* the signal came before bootstrap had finished
  failed,          \* a callback has thrown
  exited           \* "no", "clean" or "forced"

processVars == <<boot, open, client, ready, requests, working, stop, early, failed, exited>>

BootSteps == <<"mongo", "stores", "redis", "workers", "bridge", "http">>
Callbacks == <<"bridge", "http", "search", "mongo", "metrics", "workers", "redis">>

Alive == exited = "no"

ProcessInit ==
  /\ boot = 1 /\ open = {} /\ client = TRUE /\ ready = FALSE
  /\ requests = {} /\ working = {} /\ stop = 0
  /\ early = FALSE /\ failed = FALSE /\ exited = "no"

-----------------------------------------------------------------------------
(* Bootstrap                                                               *)
Booting(name) == Alive /\ boot <= Len(BootSteps) /\ BootSteps[boot] = name

Opens(name) == boot' = boot + 1 /\ open' = open \cup {name}
Skips == boot' = boot + 1 /\ UNCHANGED open

Unbooted == <<client, ready, requests, working, stop, early, failed, exited>>

(* Without MongoDB the rest of its block is skipped, up to Redis.          *)
ConnectMongo ==
  /\ Booting("mongo")
  /\ Opens("mongo") \/ (boot' = 3 /\ UNCHANGED open)
  /\ UNCHANGED Unbooted

(* Analytics, Timescale and OpenSearch are each optional and may each fail. *)
ConnectStores ==
  Booting("stores") /\ (Opens("search") \/ Skips) /\ UNCHANGED Unbooted

(* The shared client connects by itself; what is awaited here is its ping. *)
ConnectRedis ==
  Booting("redis") /\ (Opens("redis") \/ Skips) /\ UNCHANGED Unbooted

(* The queues created the client on import, so it is there even when the
   ping has failed: only quitRedis clears it.                              *)
StartWorkers ==
  Booting("workers") /\ (IF client THEN Opens("workers") ELSE Skips) /\ UNCHANGED Unbooted

StartBridge ==
  /\ Booting("bridge")
  /\ (client /\ Opens("bridge")) \/ Skips
  /\ UNCHANGED Unbooted

Listen == Booting("http") /\ Opens("http") /\ UNCHANGED Unbooted

Bootstrap ==
  ConnectMongo \/ ConnectStores \/ ConnectRedis \/ StartWorkers \/ StartBridge \/ Listen

-----------------------------------------------------------------------------
(* Readiness: MongoDB is connected and Redis answers a ping.               *)
Readiness == {"mongo", "redis"} \subseteq open

Probe ==
  /\ Alive /\ "http" \in open
  /\ ready' = Readiness
  /\ UNCHANGED <<boot, open, client, requests, working, stop, early, failed, exited>>

(* The balancer sends requests to a process that is ready.                 *)
Accept(r) ==
  /\ Alive /\ ready /\ "http" \in open /\ r \notin requests
  /\ requests' = requests \cup {r}
  /\ UNCHANGED <<boot, open, client, ready, working, stop, early, failed, exited>>

Answer(r) ==
  /\ Alive /\ r \in requests /\ requests' = requests \ {r}
  /\ UNCHANGED <<boot, open, client, ready, working, stop, early, failed, exited>>

TakeJob(j) ==
  /\ Alive /\ "workers" \in open /\ j \notin working
  /\ working' = working \cup {j}
  /\ UNCHANGED <<boot, open, client, ready, requests, stop, early, failed, exited>>

EndJob(j) ==
  /\ Alive /\ j \in working /\ working' = working \ {j}
  /\ UNCHANGED <<boot, open, client, ready, requests, stop, early, failed, exited>>

-----------------------------------------------------------------------------
(* Mutant: the databases are registered before the HTTP server.            *)
Callback_DatabaseFirst(k) ==
  IF k = 2 THEN "mongo" ELSE IF k = 4 THEN "http" ELSE Callbacks[k]

Callback(k) == Callbacks[k]

(* What the callback waits for.  server.close stops accepting and waits for
   the requests under way; closing a worker stops it from taking jobs and
   waits for those it has.                                                 *)
Awaited(name) == /\ name = "http" => requests = {}
                 /\ name = "workers" => working = {}

(* The callback with this index is called.                                 *)
Call(k) ==
  /\ stop' = k
  /\ open' = open \ {Callback(k)}
  /\ client' = (client /\ Callback(k) # "redis")

(* A second signal finds shuttingDown set.                                 *)
Signal ==
  /\ Alive /\ stop = 0 /\ Call(1)
  /\ early' = (boot <= Len(BootSteps))
  /\ UNCHANGED <<boot, ready, requests, working, failed, exited>>

NextCallback ==
  IF stop < Len(Callbacks) THEN Call(stop + 1) /\ UNCHANGED exited
  ELSE exited' = "clean" /\ UNCHANGED <<stop, open, client>>

Return ==
  /\ Alive /\ stop > 0 /\ Awaited(Callback(stop))
  /\ NextCallback
  /\ UNCHANGED <<boot, ready, requests, working, early, failed>>

(* A callback's error is logged and the next one runs.  The server's error
   also comes only once it has drained.                                    *)
Throw ==
  /\ Alive /\ stop > 0 /\ Callback(stop) \notin {"http", "metrics"}
  /\ failed' = TRUE /\ NextCallback
  /\ UNCHANGED <<boot, ready, requests, working, early>>

(* Mutant: the timer is cleared before the callbacks run.                  *)
ForceExit_Never == FALSE /\ UNCHANGED processVars

ForceExit ==
  /\ Alive /\ stop > 0 /\ exited' = "forced"
  /\ UNCHANGED <<boot, open, client, ready, requests, working, stop, early, failed>>

Shutdown == Return \/ Throw \/ ForceExit

Serve == \/ Probe
         \/ \E r \in Requests : Accept(r) \/ Answer(r)
         \/ \E j \in WorkerJobs : TakeJob(j) \/ EndJob(j)

ProcessNext == Bootstrap \/ Serve \/ Signal \/ Shutdown

(* The timer fires; nothing else is promised, a request may never end.     *)
ProcessSpec == ProcessInit /\ [][ProcessNext]_processVars /\ WF_processVars(ForceExit)

-----------------------------------------------------------------------------
(* A request the balancer sent is handled with MongoDB connected to the    *)
(* end, also while the process shuts down: the server drains first.  (Not  *)
(* when the signal overtook bootstrap, which then listens behind the back  *)
(* of the shutdown.)                                                       *)
HandlersKeepMongo == Alive /\ requests # {} /\ ~early => "mongo" \in open

(* Exit code 0 abandons no request and no job, unless a callback failed or *)
(* the signal overtook bootstrap; a job that is abandoned is run again.    *)
CleanExitLeavesNothing ==
  exited = "clean" /\ ~failed /\ ~early => requests = {} /\ working = {} /\ open = {}

(* The order of the callbacks is the order in which a process may let go.  *)
ShutdownIsOrderly == HandlersKeepMongo /\ CleanExitLeavesNothing

(* A signal ends the process, whatever the requests, jobs and callbacks do. *)
ShutdownEnds == stop > 0 ~> ~Alive

=============================================================================
