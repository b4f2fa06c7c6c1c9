----------------------------- MODULE Lifecycle -----------------------------
(***************************************************************************)
(* bootstrap() and shutdown() of index.ts around the workers: the process  *)
(* starts, is told to stop, perhaps twice, or crashes, and is started      *)
(* again.                                                                  *)
(*                                                                         *)
(* A signal is handled beside whatever is under way, the start-up as well  *)
(* as another shutdown.  What of the collectors and schedulers matters     *)
(* here is that handlers go on adding jobs after they were stopped.        *)
(***************************************************************************)
EXTENDS JobWorkers

CONSTANTS
    Signals,        \* bound: Signals[w], how many signals, rejections
                    \* included, there are with workload w
    MaxSignals      \* bound: the most there are with any workload

\* One shutdown for each signal and one, 0, that bootstrap() calls itself.
Shutdowns == 0..MaxSignals

ASSUME LifecycleAssumption ==
    /\ Workloads # {}
    /\ MaxSignals \in Nat
    /\ Signals \in [Workloads -> 0..MaxSignals]

VARIABLES
    boot,       \* how far the start-up is
    server,     \* the health API: none, listening or closing
    phase,      \* phase[p]: what shutdown p waits for
    clean,      \* clean[p]: no error has made p skip anything
    overtaken,  \* history: workers were started behind a shutdown's back
    signals     \* how many signals there were

lifeVars == <<boot, server, phase, clean, overtaken, signals>>
vars == <<workerVars, lifeVars>>

Boots == {"down", "database", "redis", "health", "services", "up", "failed"}
Phases == {"idle", "collectors", "workers", "queues", "health", "redis",
           "database", "exit"}

-----------------------------------------------------------------------------
Init ==
    /\ WorkerInit
    /\ boot = "down" /\ server = "none"
    /\ phase = [p \in Shutdowns |-> "idle"]
    /\ clean = [p \in Shutdowns |-> TRUE]
    /\ overtaken = FALSE
    /\ signals = 0

Up == boot # "down"

\* The process is started, after an exit or a crash too; a pool of database
\* connections is there from the beginning.
Start ==
    /\ ~Up
    /\ boot' = "database"
    /\ stores' = {"database"}
    /\ UNCHANGED <<queueVars, kind, workers, run, rows, server, phase, clean,
                   overtaken, signals>>

\* The next await of bootstrap() is over; when one fails, its catch shuts
\* down.
Advance(from, to) ==
    /\ boot = from /\ boot' = to
    /\ UNCHANGED <<job, queues, kind, run, rows, phase, clean, signals>>

ConnectDatabase ==
    /\ Advance("database", "redis")
    /\ Works("database")
    /\ UNCHANGED <<workers, stores, server, overtaken>>

\* Then startHealthApi is called, which listens.
ConnectRedis ==
    /\ Advance("redis", "health")
    /\ stores' = stores \cup {"redis"}
    /\ server' = "listening"
    /\ UNCHANGED <<faults, workers, overtaken>>

\* startAllWorkers, and the collectors are being started.
StartAllWorkers ==
    /\ Advance("health", "services")
    /\ workers' = IF workers = "none" THEN "running" ELSE workers
    /\ overtaken' = \E p \in Shutdowns : phase[p] \notin {"idle", "collectors"}
    /\ UNCHANGED <<faults, stores, server>>

ServicesStarted ==
    /\ Advance("services", "up")
    /\ UNCHANGED <<faults, workers, stores, server, overtaken>>

BootFails ==
    /\ \E stage \in {"database", "redis", "services"} : Advance(stage, "failed")
    /\ IF boot = "database" THEN Fails("database") ELSE Fault
    /\ UNCHANGED <<workers, stores, server, overtaken>>

Boot ==
    \/ ConnectDatabase \/ ConnectRedis \/ StartAllWorkers
    \/ ServicesStarted \/ BootFails

\* SIGINT, SIGTERM, an uncaught exception or an unhandled rejection; or the
\* catch of bootstrap().
BeginShutdown(p) ==
    /\ Up /\ phase[p] = "idle"
    /\ IF p = 0 THEN boot = "failed" /\ UNCHANGED signals
       ELSE signals < Signals[kind] /\ signals' = signals + 1 /\ p = signals'
    /\ phase' = [phase EXCEPT ![p] = "collectors"]
    /\ UNCHANGED <<workerVars, boot, server, clean, overtaken>>

\* shutdown() goes on to what comes next.
Proceed(p, next) ==
    /\ phase' = [phase EXCEPT ![p] = next]
    /\ UNCHANGED clean

\* Something throws: its catch leaves the rest out.
GiveUp(p) ==
    /\ phase' = [phase EXCEPT ![p] = "exit"]
    /\ clean' = [clean EXCEPT ![p] = FALSE]

\* Mutant: stopping forgets a worker before it has closed, so that a second
\* shutdown finds none to wait for.
StopCollectorsForgetting(p) ==
    /\ phase[p] = "collectors"
    /\ \/ /\ workers # "running"
          /\ queues' = "closing"
          /\ Proceed(p, "queues")
          /\ UNCHANGED workers
       \/ /\ workers = "running"
          /\ workers' = "closing"
          /\ Proceed(p, "workers")
          /\ UNCHANGED queues
    /\ UNCHANGED <<job, faults, kind, stores, run, rows, boot, server>>

\* The streamer, the pool monitor, the cleanup job and the scheduler are
\* stopped, and every worker there is is told to close.
StopCollectors(p) ==
    /\ phase[p] = "collectors"
    /\ \/ /\ workers = "none"
          /\ queues' = "closing"
          /\ Proceed(p, "queues")
          /\ UNCHANGED workers
       \/ /\ workers # "none"
          /\ workers' = "closing"
          /\ Proceed(p, "workers")
          /\ UNCHANGED queues
    /\ UNCHANGED <<job, faults, kind, stores, run, rows, boot, server>>

\* Mutant: the workers are not waited for.
WorkersClosedAtOnce(p) ==
    /\ phase[p] = "workers"
    /\ workers' = "none"
    /\ queues' = "closing"
    /\ Proceed(p, "queues")
    /\ UNCHANGED <<job, faults, kind, stores, run, rows, boot, server>>

\* stopAllWorkers: each waits for its runs, those without a lock too.  Then
\* closeAllQueues.
WorkersClosed(p) ==
    /\ phase[p] = "workers"
    /\ \/ /\ workers = "closing" => ~SomeRun
          /\ workers' = "none" /\ UNCHANGED faults
          /\ queues' = "closing"
          /\ Proceed(p, "queues")
       \/ /\ workers = "closing"
          /\ Fault
          /\ GiveUp(p)
          /\ UNCHANGED <<workers, queues>>
    /\ UNCHANGED <<job, kind, stores, run, rows, boot, server>>

\* closeAllQueues clears the map: the next addJob makes a queue again.
QueuesClosed(p) ==
    /\ phase[p] = "queues"
    /\ queues' = "open"
    /\ Proceed(p, "health")
    /\ UNCHANGED <<job, faults, kind, workers, stores, run, rows, boot, server>>

\* stopHealthApi: the first close waits for the connections there are; one
\* more close meanwhile is an error.
CloseHealth(p) ==
    /\ phase[p] = "health"
    /\ \/ server = "none" /\ Proceed(p, "redis") /\ UNCHANGED server
       \/ /\ server = "listening" /\ server' = "closing"
          /\ UNCHANGED <<phase, clean>>
       \/ /\ server = "closing"
          /\ \/ /\ server' = "none"
                /\ Proceed(p, "redis")
             \/ /\ \E q \in Shutdowns \ {p} : phase[q] = "health"
                /\ GiveUp(p) /\ UNCHANGED server
    /\ UNCHANGED <<workerVars, boot>>

\* disconnectRedis does nothing when the client is not open.
CloseRedis(p) ==
    /\ phase[p] = "redis"
    /\ stores' = stores \ {"redis"}
    /\ Proceed(p, "database")
    /\ UNCHANGED <<queueVars, kind, workers, run, rows, boot, server>>

\* disconnectDatabase: ending the pool a second time throws.
CloseDatabase(p) ==
    /\ phase[p] = "database"
    /\ \/ "database" \in stores /\ Proceed(p, "exit")
       \/ "database" \notin stores /\ GiveUp(p)
    /\ stores' = stores \ {"database"}
    /\ UNCHANGED <<queueVars, kind, workers, run, rows, boot, server>>

\* A worker or a queue fails to close, whereupon Promise.all rejects at once,
\* or Redis does.
StepFails(p) ==
    /\ phase[p] \in {"workers", "queues", "redis"}
    /\ Fault
    /\ GiveUp(p)
    /\ UNCHANGED <<job, queues, kind, workers, stores, run, rows, boot, server>>

\* Nothing of the process is left; what is in Redis and in the tables is.
Down ==
    /\ boot' = "down" /\ server' = "none"
    /\ workers' = "none" /\ stores' = {} /\ queues' = "open"
    /\ run' = [j \in Jobs |-> [s \in Slots |-> Free]]
    /\ phase' = [p \in Shutdowns |-> "idle"]
    /\ clean' = [p \in Shutdowns |-> TRUE]
    /\ overtaken' = FALSE
    /\ UNCHANGED <<job, kind, rows, signals>>

\* Mutant: the handler of a signal does not exit when the shutdown failed.
ExitUnlessFailed(p) ==
    /\ phase[p] = "exit" /\ clean[p]
    /\ Down /\ UNCHANGED faults

\* process.exit, whether the shutdown went well or not.
Exit(p) ==
    /\ phase[p] = "exit"
    /\ Down /\ UNCHANGED faults

Crash ==
    /\ Up
    /\ Fault
    /\ Down

ShutdownStep(p) ==
    \/ StopCollectors(p) \/ WorkersClosed(p) \/ QueuesClosed(p)
    \/ CloseHealth(p) \/ CloseRedis(p) \/ CloseDatabase(p)
    \/ StepFails(p)

\* Handlers and ticks add jobs as long as the process lives.
Handler == Up /\ \E j \in Jobs : AddJob(j) /\ UNCHANGED <<kind, workers, stores, run, rows>>

Next ==
    \/ Start \/ Boot \/ Crash
    \/ \E p \in Shutdowns :
          \/ BeginShutdown(p)
          \/ ShutdownStep(p) /\ UNCHANGED <<overtaken, signals>>
          \/ Exit(p)
    \/ (Handler \/ \E j \in Jobs : WorkerStep(j)) /\ UNCHANGED lifeVars
    \/ (\E j \in Jobs, s \in Slots : LoseLock(j, s)) /\ UNCHANGED lifeVars

\* Requests, statements and connections come to an end, though nothing in
\* the code bounds them; somebody starts the process again.
Fairness ==
    /\ WF_vars(Start) /\ WF_vars(Boot) /\ WF_vars(BeginShutdown(0))
    /\ \A p \in Shutdowns :
          WF_vars((ShutdownStep(p) /\ UNCHANGED <<overtaken, signals>>) \/ Exit(p))
    /\ \A j \in Jobs, s \in Slots :
          /\ WF_vars((Process(j, s) \/ Finish(j, s)) /\ UNCHANGED lifeVars)
    /\ \A j \in Jobs : WF_vars(WorkerStep(j) /\ UNCHANGED lifeVars)

Spec == Init /\ [][Next]_vars /\ Fairness

-----------------------------------------------------------------------------
TypeOK ==
    /\ job \in [Jobs -> [state : JobStates, tries : 0..Attempts, stalls : 0..MaxStalled + 1]]
    /\ queues \in {"open", "closing"}
    /\ faults \in 0..MaxFaults
    /\ kind \in Workloads
    /\ workers \in {"none", "running", "closing"}
    /\ stores \subseteq {"database", "redis"}
    /\ run \in [Jobs -> [Slots -> [at : Places, mint : 1..Batch, locked : BOOLEAN]]]
    /\ rows \in [Jobs -> [1..Batch -> [Tables -> Nat]]]
    /\ boot \in Boots /\ server \in {"none", "listening", "closing"}
    /\ phase \in [Shutdowns -> Phases] /\ clean \in [Shutdowns -> BOOLEAN]
    /\ overtaken \in BOOLEAN
    /\ signals \in 0..MaxSignals

\* However its attempts fail, a job appends to a table at most once for each
\* mint, and once more if it stalled: no processor throws after its first
\* statement, so that only a crash or a lost lock makes a second run repeat
\* what the first one wrote (HolderScanWorker.ts:51, PriceFetchWorker.ts:57).
RowsBounded ==
    \A j \in Jobs, n \in 1..Batch, t \in Tables : rows[j][n][t] <= 1 + job[j].stalls

\* A job that is given up after its attempts has written nothing, unless it
\* stalled on the way.
FailedLeavesNothing ==
    \A j \in Jobs : job[j].state = "failed" /\ job[j].stalls = 0 =>
        \A n \in 1..Batch, t \in Tables : rows[j][n][t] = 0

\* The connections outlive the jobs that use them: while a shutdown has closed
\* Redis or the database, no processor runs (index.ts:429).  But for a
\* start-up that is still connecting when the signal comes: it goes on beside
\* shutdown(), and makes workers that nobody closes.
StoresOutliveJobs ==
    ~overtaken /\ SomeRun => {"database", "redis"} \subseteq stores

\* A shutdown that ends without an error leaves no job under way, whatever
\* other shutdowns, handlers and lost locks do meanwhile.
GracefulExit ==
    ~overtaken /\ SomeRun => \A p \in Shutdowns : ~(phase[p] = "exit" /\ clean[p])

\* Once told to, the process ends: no shutdown waits for another one, and
\* none waits for a job that waits for what it closed.
ShutdownEnds == (\E p \in Shutdowns : phase[p] # "idle") ~> ~Up

\* A job that was added is completed or given up.
JobsSettle == \A j \in Jobs : job[j].state # "none" ~> Settled(j)
=============================================================================
