----------------------------- MODULE JobWorkers -----------------------------
(***************************************************************************)
(* The five workers, and what they append to the database.                 *)
(*                                                                         *)
(* A worker that takes a job runs its processor, each await of which is a  *)
(* step here.  When the lock of the job expires under it, the run goes on, *)
(* and BullMQ gives the job to a second run beside it.  The repositories   *)
(* swallow every error of the database and return null.                    *)
(***************************************************************************)
EXTENDS JobQueue

CONSTANTS
    Workloads,      \* for each workload w, w[j] is the kind of job j
    Batch           \* how many mints a price job has

Kinds == {"holders", "volume", "price", "token", "cleanup"}

\* The runs a job may have at once: each stall adds one.
Slots == 0..MaxStalled

\* The tables to which jobs append, once for each mint of a job:
\* holder_snapshots, top_holders, holder_snapshots once more (takeSnapshot),
\* volume_stats, price_history and market_cap_history.
Tables == {"snapshot", "topHolders", "history", "volume", "price", "marketCap"}

ASSUME JobWorkersAssumption ==
    /\ Workloads \subseteq [Jobs -> Kinds]
    /\ Batch \in Nat \ {0}

VARIABLES
    kind,       \* kind[j] of the workload at hand
    workers,    \* the process's workers: none, running or closing
    stores,     \* the process's connections that are open
    run,        \* run[j][s]: where a run is, at which mint, with the lock?
    rows        \* rows[j][n][t]: how often j appended to t for its mint n

workerVars == <<queueVars, kind, workers, stores, run, rows>>

\* The awaits of the processors.
Reading == {"analyze", "stats", "fetch", "reads", "marketCap"}
Writing == {"insertSnapshot", "insertTop", "takeSnapshot", "insertVolume",
            "cacheStats", "insertPrice", "insertCap", "updateCap"}
Cleaning == {"cleanHolders", "cleanRedis", "cleanVolume", "cleanPrices"}
Places == {"free"} \cup Reading \cup {"lookup", "upsert"} \cup Writing \cup Cleaning
            \cup {"done", "threw"}

Free == [at |-> "free", mint |-> 1, locked |-> FALSE]

Alive(j, s) == run[j][s].at # "free"
SomeRun == \E j \in Jobs, s \in Slots : Alive(j, s)
Held(j) == \E s \in Slots : run[j][s].locked

\* A write of a store that is not open fails.
Fails(store) == IF store \in stores THEN Fault ELSE UNCHANGED faults
Works(store) == store \in stores /\ UNCHANGED faults

At(j, s, k, place) == kind[j] = k /\ run[j][s].at = place
Goto(j, s, place) == run' = [run EXCEPT ![j][s].at = place]

-----------------------------------------------------------------------------
WorkerInit ==
    /\ QueueInit
    /\ kind \in Workloads
    /\ workers = "none"
    /\ stores = {}
    /\ run = [j \in Jobs |-> [s \in Slots |-> Free]]
    /\ rows = [j \in Jobs |-> [n \in 1..Batch |-> [t \in Tables |-> 0]]]

\* The first await of a processor.
First(k) ==
    CASE k = "holders" -> "analyze"
      [] k = "volume" -> "stats"
      [] k = "price" -> "fetch"
      [] k = "token" -> "reads"
      [] OTHER -> "cleanHolders"

\* A worker that is not closing takes the job.
Take(j, s) ==
    /\ workers = "running" /\ job[j].state = "waiting"
    /\ ~Alive(j, s)
    /\ SetState(j, "active")
    /\ run' = [run EXCEPT ![j][s] =
                  [at |-> First(kind[j]), mint |-> 1, locked |-> TRUE]]
    /\ UNCHANGED <<queues, faults, kind, workers, stores, rows>>

\* The lock expires under the run, which goes on.
LoseLock(j, s) ==
    /\ run[j][s].locked
    /\ Fault
    /\ run' = [run EXCEPT ![j][s].locked = FALSE]
    /\ UNCHANGED <<job, queues, kind, workers, stores, rows>>

\* Found by a worker.
Recover(j) ==
    /\ workers = "running" /\ job[j].state = "active" /\ ~Held(j)
    /\ Stalled(j)
    /\ UNCHANGED <<queues, faults, kind, workers, stores, run, rows>>

\* The processor has returned or thrown: BullMQ writes the outcome, unless
\* the lock is another one's by now, or Redis fails.
Finish(j, s) ==
    /\ run[j][s].at \in {"done", "threw"}
    /\ run' = [run EXCEPT ![j][s] = Free]
    /\ \/ /\ run[j][s].locked /\ UNCHANGED faults
          /\ IF run[j][s].at = "done" THEN SetState(j, "completed") ELSE AttemptFailed(j)
       \/ ~run[j][s].locked /\ UNCHANGED <<job, faults>>
       \/ run[j][s].locked /\ Fault /\ UNCHANGED job
    /\ UNCHANGED <<queues, kind, workers, stores, rows>>

-----------------------------------------------------------------------------
\* A job that has nothing more to do for this mint: the next one, if any.
Skip(j, s) ==
    IF kind[j] = "price" /\ run[j][s].mint < Batch
    THEN run' = [run EXCEPT ![j][s].at = "fetch", ![j][s].mint = @ + 1]
    ELSE Goto(j, s, "done")

\* analyzeHolders: an analysis, null, or an exception, which ends the attempt.
Analyze(j, s) ==
    /\ At(j, s, "holders", "analyze")
    /\ \/ Works("redis") /\ Goto(j, s, "lookup")
       \/ Fails("redis") /\ (Goto(j, s, "done") \/ Goto(j, s, "threw"))

\* getVolumeStats, which answers with zeros rather than throw.
Stats(j, s) == At(j, s, "volume", "stats") /\ Goto(j, s, "lookup")

\* getTokenPrice, for one mint of the batch, then getMarketCap: without an
\* answer, and when it throws, on to the next mint.
Fetch(j, s) ==
    /\ At(j, s, "price", "fetch")
    /\ \/ Works("redis") /\ Goto(j, s, "lookup")
       \/ Fails("redis") /\ Skip(j, s)

FetchMarketCap(j, s) ==
    /\ At(j, s, "price", "marketCap")
    /\ \/ Works("redis") /\ Goto(j, s, "insertCap")
       \/ Fails("redis") /\ Skip(j, s)

\* processTokenUpdate: Promise.all of reads, any of which may throw.
UpdateToken(j, s) ==
    /\ At(j, s, "token", "reads")
    /\ \/ Works("redis") /\ Goto(j, s, "done")
       \/ Fails("redis") /\ Goto(j, s, "threw")

\* What a processor appends once it has the id of the token.
FirstWrite(k) ==
    CASE k = "holders" -> "insertSnapshot"
      [] k = "volume" -> "insertVolume"
      [] OTHER -> "insertPrice"

\* A volume job appends nothing when there were no trades.
Identified(j, s) ==
    \/ Goto(j, s, FirstWrite(kind[j]))
    \/ kind[j] = "volume" /\ Skip(j, s)

\* getTokenIdByMint: null when there is no row, and when the query fails.
Lookup(j, s) ==
    /\ run[j][s].at = "lookup"
    /\ \/ Works("database") /\ Identified(j, s)
       \/ Fails("database") /\ Goto(j, s, "upsert")

\* upsertToken: without an id the job has nothing more to do.
Upsert(j, s) ==
    /\ run[j][s].at = "upsert"
    /\ \/ Works("database") /\ Identified(j, s)
       \/ Fails("database") /\ Skip(j, s)

-----------------------------------------------------------------------------
\* Mutant: the repository lets the error of a statement pass.
InsertThrowing(j, s, place, table, next) ==
    /\ run[j][s].at = place
    /\ \/ /\ Works("database") /\ Goto(j, s, next)
          /\ rows' = [rows EXCEPT ![j][run[j][s].mint][table] = @ + 1]
       \/ /\ Fails("database") /\ Goto(j, s, "threw")
          /\ UNCHANGED rows

\* One statement: it appends, or its error is swallowed, and the processor
\* goes on in either case.
Insert(j, s, place, table, next) ==
    /\ run[j][s].at = place
    /\ Goto(j, s, next)
    /\ \/ /\ Works("database")
          /\ rows' = [rows EXCEPT ![j][run[j][s].mint][table] = @ + 1]
       \/ Fails("database") /\ UNCHANGED rows

InsertHolderSnapshot(j, s) == Insert(j, s, "insertSnapshot", "snapshot", "insertTop")

\* Whether the job asks for takeSnapshot is left open.
InsertTopHolders(j, s) ==
    \E next \in {"takeSnapshot", "done"} : Insert(j, s, "insertTop", "topHolders", next)

\* One more row of holder_snapshots, without the token's id.
TakeSnapshot(j, s) == Insert(j, s, "takeSnapshot", "history", "done")

InsertVolumeStats(j, s) == Insert(j, s, "insertVolume", "volume", "cacheStats")

InsertPrice(j, s) == Insert(j, s, "insertPrice", "price", "marketCap")

InsertMarketCap(j, s) == Insert(j, s, "insertCap", "marketCap", "updateCap")

\* cacheVolumeStats and updateTokenMarketCap, which overwrite, and swallow
\* their errors too.
CacheVolumeStats(j, s) == run[j][s].at = "cacheStats" /\ Skip(j, s)
UpdateTokenMarketCap(j, s) == run[j][s].at = "updateCap" /\ Skip(j, s)

\* processCleanup: each part on its own, whatever becomes of the others.
Clean(j, s, place, next) == At(j, s, "cleanup", place) /\ Goto(j, s, next)

CleanupHolders(j, s) == Clean(j, s, "cleanHolders", "cleanRedis")
CleanupVolumeRedis(j, s) == Clean(j, s, "cleanRedis", "cleanVolume")
CleanupVolumeDb(j, s) == Clean(j, s, "cleanVolume", "cleanPrices")
CleanupPrices(j, s) == Clean(j, s, "cleanPrices", "done")

Process(j, s) ==
    /\ \/ InsertHolderSnapshot(j, s) \/ InsertTopHolders(j, s) \/ TakeSnapshot(j, s)
       \/ InsertVolumeStats(j, s) \/ InsertPrice(j, s) \/ InsertMarketCap(j, s)
       \/ /\ \/ Analyze(j, s) \/ Fetch(j, s) \/ FetchMarketCap(j, s)
             \/ UpdateToken(j, s) \/ Lookup(j, s) \/ Upsert(j, s)
          /\ UNCHANGED rows
       \/ /\ \/ Stats(j, s) \/ CacheVolumeStats(j, s) \/ UpdateTokenMarketCap(j, s)
             \/ CleanupHolders(j, s) \/ CleanupVolumeRedis(j, s)
             \/ CleanupVolumeDb(j, s) \/ CleanupPrices(j, s)
          /\ UNCHANGED <<rows, faults>>
    /\ UNCHANGED <<job, queues, kind, workers, stores>>

WorkerStep(j) ==
    \/ \E s \in Slots : Take(j, s) \/ Process(j, s) \/ Finish(j, s)
    \/ Recover(j)
    \/ Promote(j) /\ UNCHANGED <<kind, workers, stores, run, rows>>
=============================================================================
