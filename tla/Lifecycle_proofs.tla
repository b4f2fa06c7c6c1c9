-------------------------- MODULE Lifecycle_proofs --------------------------
(***************************************************************************)
(* What jobs append and what shutdowns leave, for every set of jobs and    *)
(* workloads, any number of attempts, stalls, mints, faults and signals.   *)
(*                                                                         *)
(* RowsBounded is not inductive: it says nothing of the runs under way.    *)
(* Counted adds, for each row a job may append, the runs that may still    *)
(* append it and the run the job is owed; a stall allows one more.         *)
(* StoresOutliveJobs and GracefulExit follow from what a shutdown past its *)
(* workers excludes (Guarded).                                             *)
(***************************************************************************)
EXTENDS Lifecycle, FiniteSetTheorems, TLAPS

RunRecord == [at : Places, mint : 1..Batch, locked : BOOLEAN]
JobRecord == [state : JobStates, tries : 0..Attempts, stalls : 0..MaxStalled + 1]

\* One run of a job holds its lock at most, while the job is active; a job that
\* is not given up has an attempt and a stall left.
LockOf(j) ==
    /\ \A s \in Slots : run[j][s].locked =>
          /\ job[j].state = "active"
          /\ \A u \in Slots : run[j][u].locked => u = s
    /\ job[j].state # "failed" =>
          job[j].tries < Attempts /\ job[j].stalls <= MaxStalled

\* Only the jobs of prices have more than one mint.
MintOf(j) == \A s \in Slots : kind[j] # "price" => run[j][s].mint = 1

-----------------------------------------------------------------------------
(***************************************************************************)
(* The rows a run may still append.                                        *)
(***************************************************************************)
BeforeWrites == {"analyze", "stats", "fetch", "reads", "lookup", "upsert"}

\* At this place the append to table t is still ahead, for the present mint.
Ahead(at, t) ==
    \/ at \in BeforeWrites
    \/ at = "insertSnapshot" /\ t \in {"snapshot", "topHolders", "history"}
    \/ at = "insertTop" /\ t \in {"topHolders", "history"}
    \/ at = "takeSnapshot" /\ t = "history"
    \/ at = "insertVolume" /\ t = "volume"
    \/ at = "insertPrice" /\ t \in {"price", "marketCap"}
    \/ at \in {"marketCap", "insertCap"} /\ t = "marketCap"

\* A run at r may still append to t for mint n; one that threw has written
\* nothing, so that the next attempt may, in its stead.
May(r, n, t) ==
    \/ r.at = "threw"
    \/ r.at \notin {"free", "done"} /\ r.mint < n
    \/ r.mint = n /\ Ahead(r.at, t)

Pending(j, n, t) == {s \in Slots : May(run[j][s], n, t)}

\* A job that waits is owed a run, and one that was given up did not use its.
Owed(j) == IF job[j].state \in {"active", "completed"} THEN 0 ELSE 1

CountOf(j) ==
    \A n \in 1..Batch, t \in Tables :
        rows[j][n][t] + Cardinality(Pending(j, n, t)) + Owed(j) <= 1 + job[j].stalls

LocksHeld == \A j \in Jobs : LockOf(j)
OneMint == \A j \in Jobs : MintOf(j)
Counted == \A j \in Jobs : CountOf(j)

-----------------------------------------------------------------------------
(***************************************************************************)
(* What a shutdown past its workers excludes.                              *)
(***************************************************************************)
Early == {"idle", "collectors"}

\* Shutdown p has found the workers closed, and no error has stopped it since.
PastWorkers(p) ==
    \/ phase[p] \in {"queues", "health", "redis", "database"}
    \/ phase[p] = "exit" /\ clean[p]

\* Before any shutdown has come to the workers, the start-up has the
\* connections it made.
Connected ==
    (\A p \in Shutdowns : phase[p] \in Early) =>
        /\ boot # "down" => "database" \in stores
        /\ boot = "health" => "redis" \in stores

Guarded ==
    ~overtaken =>
        /\ workers = "none" => ~SomeRun
        /\ workers # "none" => {"database", "redis"} \subseteq stores
        /\ \A p \in Shutdowns : PastWorkers(p) => workers = "none"
        /\ \A p \in Shutdowns : phase[p] = "workers" => workers # "running"

\* A start-up makes its workers after its connections.
Booting == boot \in {"down", "database", "redis", "health"} => workers = "none"

Control == Booting /\ Connected /\ Guarded

JobsOK == TypeOK /\ LocksHeld /\ OneMint /\ Counted

IInv == JobsOK /\ Control

-----------------------------------------------------------------------------
(***************************************************************************)
(* One run changes.                                                        *)
(***************************************************************************)
LEMMA OneRunChanges ==
    ASSUME TypeOK, NEW j \in Jobs, NEW s \in Slots, NEW r \in RunRecord,
           run' = [run EXCEPT ![j][s] = r]
    PROVE  /\ run' \in [Jobs -> [Slots -> RunRecord]]
           /\ run'[j][s] = r
           /\ \A u \in Slots : u # s => run'[j][u] = run[j][u]
           /\ \A i \in Jobs \ {j} : run'[i] = run[i]
<1>1. run \in [Jobs -> [Slots -> RunRecord]]
  BY DEF TypeOK, RunRecord
<1>2. run' = [run EXCEPT ![j] = [run[j] EXCEPT ![s] = r]]
  BY <1>1
<1>3. [run[j] EXCEPT ![s] = r] \in [Slots -> RunRecord]
  BY <1>1
<1> QED
  BY <1>1, <1>2, <1>3

\* What an await of a processor may do to its run, apart from writing: it goes
\* on, keeps its lock, and has no more to append than before.
RunMoves(j, s, r) ==
    /\ run' = [run EXCEPT ![j][s] = r]
    /\ r \in RunRecord
    /\ r.at # "free"
    /\ r.locked = run[j][s].locked
    /\ kind[j] # "price" => r.mint = run[j][s].mint
    /\ \A n \in 1..Batch, t \in Tables : May(r, n, t) => May(run[j][s], n, t)

\* The places a run goes to are as far as the one it leaves, or farther.
Farther(from, to) == \A t \in Tables : Ahead(to, t) => Ahead(from, t)

LEMMA GotoMoves ==
    ASSUME TypeOK, NEW j \in Jobs, NEW s \in Slots,
           NEW to \in Places \ {"free", "threw"}, Goto(j, s, to),
           run[j][s].at \notin {"free", "done", "threw"},
           Farther(run[j][s].at, to)
    PROVE  \E r : /\ RunMoves(j, s, r)
                  /\ r.at = to /\ r.mint = run[j][s].mint
<1> DEFINE q == run[j][s]
           r == [q EXCEPT !.at = to]
<1>1. q \in RunRecord
  BY DEF TypeOK, RunRecord
<1>2. /\ r \in RunRecord /\ r.at = to /\ r.mint = q.mint /\ r.locked = q.locked
  BY <1>1 DEF RunRecord
<1>3. run' = [run EXCEPT ![j][s] = r]
  BY DEF Goto
<1>4. q.at \notin {"free", "done", "threw"} /\ Farther(q.at, to)
  OBVIOUS
<1> HIDE DEF q, r
<1>5. ASSUME NEW n \in 1..Batch, NEW t \in Tables, May(r, n, t)
      PROVE  May(q, n, t)
  BY <1>2, <1>4, <1>5 DEF May, Farther
<1>6. RunMoves(j, s, r)
  BY <1>2, <1>3, <1>4, <1>5 DEF RunMoves, q
<1> QED
  BY <1>2, <1>6 DEF q

\* An exception, from a processor that has written nothing.
LEMMA ThrowMoves ==
    ASSUME TypeOK, OneMint, NEW j \in Jobs, NEW s \in Slots,
           Goto(j, s, "threw"), run[j][s].at \in BeforeWrites,
           kind[j] # "price"
    PROVE  \E r : RunMoves(j, s, r)
<1> DEFINE q == run[j][s]
           r == [q EXCEPT !.at = "threw"]
<1>1. q \in RunRecord /\ q.mint = 1
  BY DEF TypeOK, RunRecord, OneMint, MintOf
<1>2. "threw" \in Places
  BY DEF Places
<1>3. r \in RunRecord /\ r.at = "threw" /\ r.mint = q.mint /\ r.locked = q.locked
  BY <1>1, <1>2 DEF RunRecord
<1>4. run' = [run EXCEPT ![j][s] = r]
  BY DEF Goto
<1>5. q.at \in BeforeWrites /\ q.at \notin {"free", "done"}
  BY DEF BeforeWrites
<1> HIDE DEF q, r
<1>6. ASSUME NEW n \in 1..Batch, NEW t \in Tables
      PROVE  May(q, n, t)
  <2>1. CASE n = 1
    BY <1>1, <1>5, <2>1 DEF May, Ahead
  <2>2. CASE n # 1
    <3>1. q.mint < n
      BY <1>1, <2>2
    <3> QED
      BY <1>5, <3>1 DEF May
  <2> QED
    BY <2>1, <2>2
<1>7. RunMoves(j, s, r)
  BY <1>3, <1>4, <1>6 DEF RunMoves, q
<1> QED
  BY <1>7

\* On to the next mint, or done.
LEMMA SkipMoves ==
    ASSUME TypeOK, NEW j \in Jobs, NEW s \in Slots, Skip(j, s),
           run[j][s].at \notin {"free", "done", "threw"}
    PROVE  \E r : RunMoves(j, s, r)
<1> DEFINE q == run[j][s]
<1>1. q \in RunRecord /\ q.mint \in 1..Batch /\ Batch \in Nat
  BY JobWorkersAssumption DEF TypeOK, RunRecord
<1>2. CASE kind[j] = "price" /\ q.mint < Batch
  <2> DEFINE r == [q EXCEPT !.at = "fetch", !.mint = q.mint + 1]
  <2>1. run' = [run EXCEPT ![j][s] = r]
    <3>1. run' = [run EXCEPT ![j][s].at = "fetch", ![j][s].mint = q.mint + 1]
      BY <1>2 DEF Skip
    <3> QED
      BY <1>1, <3>1 DEF TypeOK, RunRecord
  <2>2. q.mint + 1 \in 1..Batch
    BY <1>1, <1>2
  <2>3. "fetch" \in Places
    BY DEF Places, Reading
  <2>4. /\ r \in RunRecord /\ r.at = "fetch" /\ r.mint = q.mint + 1
        /\ r.locked = q.locked
    BY <1>1, <2>2, <2>3 DEF RunRecord
  <2>5. q.at \notin {"free", "done"}
    OBVIOUS
  <2> HIDE DEF q, r
  <2>6. ASSUME NEW n \in 1..Batch, NEW t \in Tables, May(r, n, t)
        PROVE  May(q, n, t)
    <3>1. r.mint <= n
      BY <1>1, <2>4, <2>6 DEF May
    <3>2. q.mint < n
      BY <1>1, <2>4, <3>1
    <3> QED
      BY <2>5, <3>2 DEF May
  <2>7. RunMoves(j, s, r)
    BY <1>2, <2>1, <2>4, <2>6 DEF RunMoves, q
  <2> QED
    BY <2>7
<1>3. CASE ~(kind[j] = "price" /\ q.mint < Batch)
  <2>1. Goto(j, s, "done")
    BY <1>3 DEF Skip
  <2>2. "done" \in Places \ {"free", "threw"}
    BY DEF Places
  <2>3. Farther(q.at, "done")
    BY DEF Farther, Ahead, BeforeWrites
  <2> QED
    BY <2>1, <2>2, <2>3, GotoMoves
<1> QED
  BY <1>2, <1>3

-----------------------------------------------------------------------------
(***************************************************************************)
(* The awaits of the processors.                                           *)
(***************************************************************************)
\* What an await appends: nothing, or one row that was still ahead of it and
\* is no longer.
Appends(j, s, r) ==
    \/ rows' = rows
    \/ \E t \in Tables :
          /\ rows' = [rows EXCEPT ![j][run[j][s].mint][t] = @ + 1]
          /\ May(run[j][s], run[j][s].mint, t)
          /\ ~May(r, run[j][s].mint, t)

RunStep(j, s) ==
    /\ run[j][s].at # "free"
    /\ faults' \in 0..MaxFaults
    /\ \E r : RunMoves(j, s, r) /\ Appends(j, s, r)

LEMMA FaultsTyped ==
    ASSUME TypeOK, NEW store
    PROVE  /\ Fails(store) => faults' \in 0..MaxFaults
           /\ Works(store) => faults' \in 0..MaxFaults
BY JobQueueAssumption DEF TypeOK, Fails, Works, Fault

LEMMA InsertMoves ==
    ASSUME TypeOK, NEW j \in Jobs, NEW s \in Slots,
           NEW place, NEW next \in Places \ {"free", "threw"}, NEW table \in Tables,
           place \notin {"free", "done", "threw"},
           Farther(place, next), Ahead(place, table), ~Ahead(next, table),
           Insert(j, s, place, table, next)
    PROVE  RunStep(j, s)
<1>1. /\ run[j][s].at = place /\ Goto(j, s, next)
      /\ faults' \in 0..MaxFaults
  BY FaultsTyped DEF Insert
<1>2. PICK r : RunMoves(j, s, r) /\ r.at = next /\ r.mint = run[j][s].mint
  BY <1>1, GotoMoves
<1>3. May(run[j][s], run[j][s].mint, table)
  BY <1>1 DEF May
<1>4. ~May(r, run[j][s].mint, table)
  <2>1. run[j][s].mint \in 1..Batch
    BY DEF TypeOK
  <2>2. ~(r.mint < run[j][s].mint)
    BY <1>2, <2>1
  <2> QED
    BY <1>2, <2>2 DEF May
<1>5. Appends(j, s, r)
  BY <1>3, <1>4 DEF Insert, Appends
<1> QED
  BY <1>1, <1>2, <1>5 DEF RunStep

\* An await that reads, or that overwrites what is stored.
LEMMA QuietMoves ==
    ASSUME NEW j \in Jobs, NEW s \in Slots, run[j][s].at # "free",
           faults' \in 0..MaxFaults, rows' = rows,
           \E r : RunMoves(j, s, r)
    PROVE  RunStep(j, s)
BY DEF RunStep, Appends

LEMMA PlacesAre ==
    Places = {"free", "analyze", "stats", "fetch", "reads", "marketCap",
              "lookup", "upsert", "insertSnapshot", "insertTop", "takeSnapshot",
              "insertVolume", "cacheStats", "insertPrice", "insertCap",
              "updateCap", "cleanHolders", "cleanRedis", "cleanVolume",
              "cleanPrices", "done", "threw"}
BY DEF Places, Reading, Writing, Cleaning

\* From where it has all to append, a run may go anywhere but to an exception.
LEMMA EarlyMoves ==
    ASSUME TypeOK, NEW j \in Jobs, NEW s \in Slots,
           NEW to \in Places \ {"free", "threw"}, Goto(j, s, to),
           run[j][s].at \in BeforeWrites
    PROVE  \E r : RunMoves(j, s, r)
<1>1. run[j][s].at \notin {"free", "done", "threw"}
  BY DEF BeforeWrites
<1>2. Farther(run[j][s].at, to)
  BY DEF Farther, Ahead
<1> QED
  BY <1>1, <1>2, GotoMoves

LEMMA ReadMoves ==
    ASSUME TypeOK, OneMint, NEW j \in Jobs, NEW s \in Slots,
           \/ Analyze(j, s) \/ Fetch(j, s) \/ FetchMarketCap(j, s)
           \/ UpdateToken(j, s) \/ Lookup(j, s) \/ Upsert(j, s),
           rows' = rows
    PROVE  RunStep(j, s)
<1> DEFINE at == run[j][s].at
<1>1. faults' \in 0..MaxFaults
  BY FaultsTyped DEF Analyze, Fetch, FetchMarketCap, UpdateToken, Lookup, Upsert
<1>2. {"lookup", "upsert", "done", "insertCap", "insertSnapshot", "insertVolume",
       "insertPrice"} \subseteq Places \ {"free", "threw"}
  BY PlacesAre
<1>3. CASE Analyze(j, s)
  <2>1. at = "analyze" /\ kind[j] # "price"
    BY <1>3 DEF Analyze, At
  <2>2. at \in BeforeWrites /\ at # "free"
    BY <2>1 DEF BeforeWrites
  <2>3. Goto(j, s, "lookup") \/ Goto(j, s, "done") \/ Goto(j, s, "threw")
    BY <1>3 DEF Analyze
  <2>4. \E r : RunMoves(j, s, r)
    BY <1>2, <2>1, <2>2, <2>3, EarlyMoves, ThrowMoves
  <2> QED
    BY <1>1, <2>2, <2>4, QuietMoves
<1>4. CASE Fetch(j, s)
  <2>1. at = "fetch" /\ (Goto(j, s, "lookup") \/ Skip(j, s))
    BY <1>4 DEF Fetch, At
  <2>2. at \in BeforeWrites /\ at \notin {"free", "done", "threw"}
    BY <2>1 DEF BeforeWrites
  <2>3. \E r : RunMoves(j, s, r)
    BY <1>2, <2>1, <2>2, EarlyMoves, SkipMoves
  <2> QED
    BY <1>1, <2>2, <2>3, QuietMoves
<1>5. CASE FetchMarketCap(j, s)
  <2>1. at = "marketCap" /\ (Goto(j, s, "insertCap") \/ Skip(j, s))
    BY <1>5 DEF FetchMarketCap, At
  <2>2. at \notin {"free", "done", "threw"}
    BY <2>1
  <2>3. Farther(at, "insertCap")
    BY <2>1 DEF Farther, Ahead, BeforeWrites
  <2>4. \E r : RunMoves(j, s, r)
    BY <1>2, <2>1, <2>2, <2>3, GotoMoves, SkipMoves
  <2> QED
    BY <1>1, <2>2, <2>4, QuietMoves
<1>6. CASE UpdateToken(j, s)
  <2>1. at = "reads" /\ kind[j] # "price"
    BY <1>6 DEF UpdateToken, At
  <2>2. at \in BeforeWrites /\ at # "free"
    BY <2>1 DEF BeforeWrites
  <2>3. Goto(j, s, "done") \/ Goto(j, s, "threw")
    BY <1>6 DEF UpdateToken
  <2>4. \E r : RunMoves(j, s, r)
    BY <1>2, <2>1, <2>2, <2>3, EarlyMoves, ThrowMoves
  <2> QED
    BY <1>1, <2>2, <2>4, QuietMoves
<1>7. CASE Lookup(j, s) \/ Upsert(j, s)
  <2>1. at \in {"lookup", "upsert"}
    BY <1>7 DEF Lookup, Upsert
  <2>2. at \in BeforeWrites /\ at \notin {"free", "done", "threw"}
    BY <2>1 DEF BeforeWrites
  <2>3. FirstWrite(kind[j]) \in {"insertSnapshot", "insertVolume", "insertPrice"}
    BY Zenon DEF FirstWrite
  <2>4. \/ Goto(j, s, FirstWrite(kind[j])) \/ Goto(j, s, "upsert") \/ Skip(j, s)
    BY <1>7 DEF Lookup, Upsert, Identified
  <2>5. \E r : RunMoves(j, s, r)
    BY <1>2, <2>2, <2>3, <2>4, EarlyMoves, SkipMoves
  <2> QED
    BY <1>1, <2>2, <2>5, QuietMoves
<1> QED
  BY <1>3, <1>4, <1>5, <1>6, <1>7

LEMMA OverwriteMoves ==
    ASSUME TypeOK, NEW j \in Jobs, NEW s \in Slots,
           \/ Stats(j, s) \/ CacheVolumeStats(j, s) \/ UpdateTokenMarketCap(j, s)
           \/ CleanupHolders(j, s) \/ CleanupVolumeRedis(j, s)
           \/ CleanupVolumeDb(j, s) \/ CleanupPrices(j, s),
           UNCHANGED <<rows, faults>>
    PROVE  RunStep(j, s)
<1> DEFINE at == run[j][s].at
<1>1. faults' \in 0..MaxFaults
  BY DEF TypeOK
<1>2. {"lookup", "cleanRedis", "cleanVolume", "cleanPrices", "done"}
          \subseteq Places \ {"free", "threw"}
  BY PlacesAre
<1>3. CASE Stats(j, s)
  <2>1. at = "stats" /\ Goto(j, s, "lookup")
    BY <1>3 DEF Stats, At
  <2>2. at \in BeforeWrites /\ at # "free"
    BY <2>1 DEF BeforeWrites
  <2> QED
    BY <1>1, <1>2, <2>1, <2>2, EarlyMoves, QuietMoves
<1>4. CASE CacheVolumeStats(j, s) \/ UpdateTokenMarketCap(j, s)
  <2>1. at \notin {"free", "done", "threw"} /\ Skip(j, s)
    BY <1>4 DEF CacheVolumeStats, UpdateTokenMarketCap
  <2> QED
    BY <1>1, <2>1, SkipMoves, QuietMoves
<1>5. CASE \/ CleanupHolders(j, s) \/ CleanupVolumeRedis(j, s)
           \/ CleanupVolumeDb(j, s) \/ CleanupPrices(j, s)
  <2>1. /\ at \notin {"free", "done", "threw"}
        /\ \E to \in {"cleanRedis", "cleanVolume", "cleanPrices", "done"} :
              Goto(j, s, to)
    BY <1>5 DEF CleanupHolders, CleanupVolumeRedis, CleanupVolumeDb,
                CleanupPrices, Clean, At
  <2>2. PICK to \in {"cleanRedis", "cleanVolume", "cleanPrices", "done"} :
              Goto(j, s, to)
    BY <2>1
  <2>3. Farther(at, to)
    BY DEF Farther, Ahead, BeforeWrites
  <2> QED
    BY <1>1, <1>2, <2>1, <2>2, <2>3, GotoMoves, QuietMoves
<1> QED
  BY <1>3, <1>4, <1>5

LEMMA WriteMoves ==
    ASSUME TypeOK, NEW j \in Jobs, NEW s \in Slots,
           \/ InsertHolderSnapshot(j, s) \/ InsertTopHolders(j, s)
           \/ TakeSnapshot(j, s) \/ InsertVolumeStats(j, s)
           \/ InsertPrice(j, s) \/ InsertMarketCap(j, s)
    PROVE  RunStep(j, s)
<1> USE DEF Farther, Ahead, BeforeWrites
<1>1. /\ {"insertTop", "takeSnapshot", "done", "cacheStats", "marketCap", "updateCap"}
            \subseteq Places \ {"free", "threw"}
      /\ Tables = {"snapshot", "topHolders", "history", "volume", "price", "marketCap"}
  BY PlacesAre DEF Tables
<1>2. CASE InsertHolderSnapshot(j, s)
  <2>1. /\ Farther("insertSnapshot", "insertTop")
        /\ Ahead("insertSnapshot", "snapshot") /\ ~Ahead("insertTop", "snapshot")
    OBVIOUS
  <2> QED
    BY <1>1, <1>2, <2>1, InsertMoves DEF InsertHolderSnapshot
<1>3. CASE InsertTopHolders(j, s)
  <2>1. PICK next \in {"takeSnapshot", "done"} :
            Insert(j, s, "insertTop", "topHolders", next)
    BY <1>3 DEF InsertTopHolders
  <2>2. /\ Farther("insertTop", next)
        /\ Ahead("insertTop", "topHolders") /\ ~Ahead(next, "topHolders")
    OBVIOUS
  <2> QED
    BY <1>1, <2>1, <2>2, InsertMoves
<1>4. CASE TakeSnapshot(j, s)
  <2>1. /\ Farther("takeSnapshot", "done")
        /\ Ahead("takeSnapshot", "history") /\ ~Ahead("done", "history")
    OBVIOUS
  <2> QED
    BY <1>1, <1>4, <2>1, InsertMoves DEF TakeSnapshot
<1>5. CASE InsertVolumeStats(j, s)
  <2>1. /\ Farther("insertVolume", "cacheStats")
        /\ Ahead("insertVolume", "volume") /\ ~Ahead("cacheStats", "volume")
    OBVIOUS
  <2> QED
    BY <1>1, <1>5, <2>1, InsertMoves DEF InsertVolumeStats
<1>6. CASE InsertPrice(j, s)
  <2>1. /\ Farther("insertPrice", "marketCap")
        /\ Ahead("insertPrice", "price") /\ ~Ahead("marketCap", "price")
    OBVIOUS
  <2> QED
    BY <1>1, <1>6, <2>1, InsertMoves DEF InsertPrice
<1>7. CASE InsertMarketCap(j, s)
  <2>1. /\ Farther("insertCap", "updateCap")
        /\ Ahead("insertCap", "marketCap") /\ ~Ahead("updateCap", "marketCap")
    OBVIOUS
  <2> QED
    BY <1>1, <1>7, <2>1, InsertMoves DEF InsertMarketCap
<1> QED
  BY <1>2, <1>3, <1>4, <1>5, <1>6, <1>7

\* Every await of every processor is such a step.
LEMMA ProcessMoves ==
    ASSUME TypeOK, OneMint, NEW j \in Jobs, NEW s \in Slots, Process(j, s)
    PROVE  RunStep(j, s) /\ UNCHANGED <<job, queues, kind, workers, stores>>
BY ReadMoves, OverwriteMoves, WriteMoves DEF Process

-----------------------------------------------------------------------------
(***************************************************************************)
(* One job changes: what is known of the others stays.                     *)
(***************************************************************************)
LEMMA Counting ==
    ASSUME NEW A \in SUBSET Slots, NEW B \in SUBSET Slots, NEW s \in Slots
    PROVE  /\ Cardinality(A) \in Nat
           /\ A \subseteq B => Cardinality(A) <= Cardinality(B)
           /\ s \in B /\ A \subseteq B \ {s} => Cardinality(A) + 1 <= Cardinality(B)
           /\ A \subseteq B \cup {s} => Cardinality(A) <= Cardinality(B) + 1
<1>1. IsFiniteSet(Slots)
  BY JobQueueAssumption, FS_Interval DEF Slots
<1>2. IsFiniteSet(A) /\ IsFiniteSet(B)
  BY <1>1, FS_Subset
<1>3. Cardinality(A) \in Nat /\ Cardinality(B) \in Nat
  BY <1>2, FS_CardinalityType
<1>4. ASSUME A \subseteq B
      PROVE  Cardinality(A) <= Cardinality(B)
  BY <1>2, <1>4, FS_Subset
<1>5. ASSUME s \in B, A \subseteq B \ {s}
      PROVE  Cardinality(A) + 1 <= Cardinality(B)
  <2>1. IsFiniteSet(B \ {s}) /\ Cardinality(B \ {s}) = Cardinality(B) - 1
    BY <1>2, <1>5, FS_RemoveElement
  <2>2. Cardinality(A) <= Cardinality(B \ {s})
    BY <1>5, <2>1, FS_Subset
  <2> QED
    BY <1>3, <2>1, <2>2
<1>6. ASSUME A \subseteq B \cup {s}
      PROVE  Cardinality(A) <= Cardinality(B) + 1
  <2>1. /\ IsFiniteSet(B \cup {s})
        /\ \/ Cardinality(B \cup {s}) = Cardinality(B)
           \/ Cardinality(B \cup {s}) = Cardinality(B) + 1
    BY <1>2, FS_AddElement
  <2>2. Cardinality(A) <= Cardinality(B \cup {s})
    BY <1>6, <2>1, FS_Subset
  <2> QED
    BY <1>3, <2>1, <2>2
<1> QED
  BY <1>3, <1>4, <1>5, <1>6

LEMMA PendingAre ==
    ASSUME NEW j, NEW n, NEW t
    PROVE  /\ Pending(j, n, t) \in SUBSET Slots
           /\ Pending(j, n, t)' \in SUBSET Slots
           /\ Pending(j, n, t)' = {s \in Slots : May(run'[j][s], n, t)}
BY DEF Pending, May, Ahead

JobOK(j) == LockOf(j) /\ MintOf(j) /\ CountOf(j)

\* Jobs other than j are as they were.
OthersStay(j) ==
    \A i \in Jobs \ {j} : job'[i] = job[i] /\ run'[i] = run[i] /\ rows'[i] = rows[i]

LEMMA JobByJob ==
    ASSUME LocksHeld, OneMint, Counted, NEW j \in Jobs,
           OthersStay(j), kind' = kind, JobOK(j)'
    PROVE  (LocksHeld /\ OneMint /\ Counted)'
<1>1. ASSUME NEW i \in Jobs, i # j
      PROVE  JobOK(i)'
  <2>1. job'[i] = job[i] /\ run'[i] = run[i] /\ rows'[i] = rows[i]
    BY <1>1 DEF OthersStay
  <2>2. LockOf(i) /\ MintOf(i) /\ CountOf(i)
    BY DEF LocksHeld, OneMint, Counted
  <2>3. LockOf(i)' /\ MintOf(i)'
    BY <2>1, <2>2 DEF LockOf, MintOf
  <2>4. ASSUME NEW n, NEW t
        PROVE  Pending(i, n, t)' = Pending(i, n, t)
    BY <2>1 DEF Pending, May, Ahead
  <2>5. Owed(i)' = Owed(i)
    BY <2>1 DEF Owed
  <2>6. CountOf(i)'
    BY <2>1, <2>2, <2>4, <2>5 DEF CountOf
  <2> QED
    BY <2>3, <2>6 DEF JobOK
<1> QED
  BY <1>1 DEF JobOK, LocksHeld, OneMint, Counted

LEMMA OneJobChanges ==
    ASSUME TypeOK, NEW j \in Jobs, NEW v \in JobRecord,
           job' = [job EXCEPT ![j] = v]
    PROVE  /\ job' \in [Jobs -> JobRecord]
           /\ job'[j] = v
           /\ \A i \in Jobs \ {j} : job'[i] = job[i]
BY DEF TypeOK, JobRecord

\* A step of the workers is typed when what it changes is.
LEMMA StepTyped ==
    ASSUME TypeOK, job' \in [Jobs -> JobRecord],
           run' \in [Jobs -> [Slots -> RunRecord]],
           rows' \in [Jobs -> [1..Batch -> [Tables -> Nat]]],
           faults' \in 0..MaxFaults,
           UNCHANGED <<queues, kind, workers, stores>>, UNCHANGED lifeVars
    PROVE  TypeOK'
BY DEF TypeOK, JobRecord, RunRecord, lifeVars

-----------------------------------------------------------------------------
(***************************************************************************)
(* The steps of the workers keep what is known of the jobs.                *)
(***************************************************************************)
LEMMA FreeHasNothing ==
    /\ Free \in RunRecord
    /\ \A n \in 1..Batch, t \in Tables : ~May(Free, n, t)
BY JobWorkersAssumption, PlacesAre DEF Free, RunRecord, May, Ahead, BeforeWrites

\* What each proof below uses of one job and one of its runs.
LEMMA JobFacts ==
    ASSUME JobsOK, NEW j \in Jobs, NEW s \in Slots
    PROVE  /\ TypeOK
           /\ job[j] \in JobRecord
           /\ run[j][s] \in RunRecord
           /\ LockOf(j) /\ MintOf(j) /\ CountOf(j)
           /\ MaxStalled \in Nat /\ Attempts \in Nat /\ Batch \in Nat
           /\ job[j].tries \in Nat /\ job[j].stalls \in Nat
           /\ \A n \in 1..Batch, t \in Tables : rows[j][n][t] \in Nat
<1>1. TypeOK /\ LockOf(j) /\ MintOf(j) /\ CountOf(j)
  BY DEF JobsOK, LocksHeld, OneMint, Counted
<1>2. MaxStalled \in Nat /\ Attempts \in Nat /\ Batch \in Nat
  BY JobQueueAssumption, JobWorkersAssumption
<1>3. job[j] \in JobRecord /\ run[j][s] \in RunRecord
  BY <1>1 DEF TypeOK, JobRecord, RunRecord
<1>4. job[j].tries \in Nat /\ job[j].stalls \in Nat
  <2>1. job[j].tries \in 0..Attempts /\ job[j].stalls \in 0..MaxStalled + 1
    BY <1>3 DEF JobRecord
  <2> QED
    BY <1>2, <2>1
<1>5. \A n \in 1..Batch, t \in Tables : rows[j][n][t] \in Nat
  <2>1. rows \in [Jobs -> [1..Batch -> [Tables -> Nat]]]
    BY <1>1 DEF TypeOK
  <2> QED
    BY <2>1
<1> QED
  BY <1>1, <1>2, <1>3, <1>4, <1>5

LEMMA NewState ==
    ASSUME JobsOK, NEW j \in Jobs, NEW state \in JobStates, SetState(j, state)
    PROVE  /\ job' \in [Jobs -> JobRecord]
           /\ job'[j].state = state
           /\ job'[j].tries = job[j].tries /\ job'[j].stalls = job[j].stalls
           /\ \A i \in Jobs \ {j} : job'[i] = job[i]
<1> DEFINE v == [job[j] EXCEPT !.state = state]
<1>1. job[j] \in JobRecord
  BY DEF JobsOK, TypeOK, JobRecord
<1>2. /\ v \in JobRecord /\ v.state = state
      /\ v.tries = job[j].tries /\ v.stalls = job[j].stalls
  BY <1>1 DEF JobRecord
<1>3. job' = [job EXCEPT ![j] = v]
  BY DEF SetState
<1> HIDE DEF v
<1> QED
  BY <1>2, <1>3, OneJobChanges DEF JobsOK

\* The queue gives a job that waits to a run: the run it was owed.
LEMMA TakeKeeps ==
    ASSUME JobsOK, NEW j \in Jobs, NEW s \in Slots, Take(j, s), UNCHANGED lifeVars
    PROVE  JobsOK'
<1> DEFINE r == [at |-> First(kind[j]), mint |-> 1, locked |-> TRUE]
<1>1. /\ TypeOK /\ job[j] \in JobRecord /\ LockOf(j) /\ MintOf(j) /\ CountOf(j)
      /\ MaxStalled \in Nat /\ Attempts \in Nat /\ Batch \in Nat
      /\ job[j].tries \in Nat /\ job[j].stalls \in Nat
      /\ \A n \in 1..Batch, t \in Tables : rows[j][n][t] \in Nat
  BY JobFacts
<1>2. First(kind[j]) \in Places
  <2>1. First(kind[j]) \in {"analyze", "stats", "fetch", "reads", "cleanHolders"}
    BY Zenon DEF First
  <2> QED
    BY <2>1, PlacesAre
<1>3. r \in RunRecord /\ r.mint = 1 /\ r.locked = TRUE
  BY <1>2, JobWorkersAssumption DEF RunRecord
<1>4. run' = [run EXCEPT ![j][s] = r]
  BY DEF Take
<1> HIDE DEF r
<1>5. /\ run' \in [Jobs -> [Slots -> RunRecord]]
      /\ run'[j][s] = r
      /\ \A u \in Slots : u # s => run'[j][u] = run[j][u]
      /\ \A i \in Jobs \ {j} : run'[i] = run[i]
  BY <1>1, <1>3, <1>4, OneRunChanges
<1>6. /\ job[j].state = "waiting" /\ SetState(j, "active")
      /\ UNCHANGED <<queues, faults, kind, workers, stores, rows>>
  BY DEF Take
<1>7. /\ job' \in [Jobs -> JobRecord]
      /\ job'[j].state = "active"
      /\ job'[j].tries = job[j].tries /\ job'[j].stalls = job[j].stalls
      /\ \A i \in Jobs \ {j} : job'[i] = job[i]
  BY <1>6, NewState DEF JobStates
<1>8. TypeOK'
  BY <1>5, <1>6, <1>7, StepTyped DEF JobsOK, TypeOK, RunRecord, JobRecord
<1>9. OthersStay(j)
  BY <1>5, <1>6, <1>7 DEF OthersStay
<1>10. LockOf(j)'
  <2>1. \A u \in Slots : ~run[j][u].locked
    BY <1>1, <1>6 DEF LockOf
  <2>2. \A u \in Slots : run'[j][u].locked => u = s
    BY <1>5, <2>1
  <2> QED
    BY <1>1, <1>6, <1>7, <2>2 DEF LockOf
<1>11. MintOf(j)'
  BY <1>1, <1>3, <1>5, <1>6 DEF MintOf
<1>12. CountOf(j)'
  <2>1. Owed(j) = 1 /\ Owed(j)' = 0
    BY <1>6, <1>7 DEF Owed
  <2>2. SUFFICES ASSUME NEW n \in 1..Batch, NEW t \in Tables
                 PROVE  (rows[j][n][t] + Cardinality(Pending(j, n, t)) + Owed(j)
                            <= 1 + job[j].stalls)'
    BY DEF CountOf
  <2>3. Pending(j, n, t)' \subseteq Pending(j, n, t) \cup {s}
    BY <1>5, PendingAre DEF Pending
  <2>4. /\ Cardinality(Pending(j, n, t)') <= Cardinality(Pending(j, n, t)) + 1
        /\ Cardinality(Pending(j, n, t)) \in Nat /\ Cardinality(Pending(j, n, t)') \in Nat
    BY <2>3, PendingAre, Counting
  <2>5. rows[j][n][t] + Cardinality(Pending(j, n, t)) + Owed(j) <= 1 + job[j].stalls
    BY <1>1 DEF CountOf
  <2> QED
    BY <1>1, <1>6, <1>7, <2>1, <2>4, <2>5
<1> QED
  BY <1>6, <1>8, <1>9, <1>10, <1>11, <1>12, JobByJob DEF JobsOK, JobOK

\* An await of a processor: the row it appends was counted as ahead of it.
LEMMA ProcessKeeps ==
    ASSUME JobsOK, NEW j \in Jobs, NEW s \in Slots, Process(j, s), UNCHANGED lifeVars
    PROVE  JobsOK'
<1>1. /\ TypeOK /\ job[j] \in JobRecord /\ LockOf(j) /\ MintOf(j) /\ CountOf(j)
      /\ MaxStalled \in Nat /\ Attempts \in Nat /\ Batch \in Nat
      /\ job[j].tries \in Nat /\ job[j].stalls \in Nat
      /\ run[j][s] \in RunRecord
      /\ \A n \in 1..Batch, t \in Tables : rows[j][n][t] \in Nat
  BY JobFacts
<1>2. RunStep(j, s) /\ UNCHANGED <<job, queues, kind, workers, stores>>
  BY ProcessMoves DEF JobsOK
<1>3. PICK r : RunMoves(j, s, r) /\ Appends(j, s, r)
  BY <1>2 DEF RunStep
<1>4. /\ run' = [run EXCEPT ![j][s] = r] /\ r \in RunRecord
      /\ r.locked = run[j][s].locked
      /\ kind[j] # "price" => r.mint = run[j][s].mint
      /\ \A n \in 1..Batch, t \in Tables : May(r, n, t) => May(run[j][s], n, t)
  BY <1>3 DEF RunMoves
<1>5. /\ run' \in [Jobs -> [Slots -> RunRecord]]
      /\ run'[j][s] = r
      /\ \A u \in Slots : u # s => run'[j][u] = run[j][u]
      /\ \A i \in Jobs \ {j} : run'[i] = run[i]
  BY <1>1, <1>4, OneRunChanges
<1> DEFINE m == run[j][s].mint
<1>6. m \in 1..Batch
  BY <1>1 DEF RunRecord
<1> HIDE DEF m
<1>7. \/ rows' = rows
      \/ \E t \in Tables : /\ rows' = [rows EXCEPT ![j][m][t] = @ + 1]
                           /\ May(run[j][s], m, t) /\ ~May(r, m, t)
  BY <1>3 DEF Appends, m
<1>8. rows' \in [Jobs -> [1..Batch -> [Tables -> Nat]]] /\ \A i \in Jobs \ {j} : rows'[i] = rows[i]
  <2>1. CASE rows' = rows
    BY <2>1 DEF JobsOK, TypeOK
  <2>2. CASE rows' # rows
    <3>1. PICK t \in Tables : rows' = [rows EXCEPT ![j][m][t] = @ + 1]
      BY <1>7, <2>2
    <3>2. rows[j][m][t] + 1 \in Nat
      BY <1>1, <1>6
    <3> QED
      BY <1>6, <3>1, <3>2 DEF JobsOK, TypeOK
  <2> QED
    BY <2>1, <2>2
<1>9. TypeOK'
  <2>1. faults' \in 0..MaxFaults
    BY <1>2 DEF RunStep
  <2>2. job' \in [Jobs -> JobRecord]
    BY <1>2 DEF JobsOK, TypeOK, JobRecord
  <2> QED
    BY <1>2, <1>5, <1>8, <2>1, <2>2, StepTyped DEF JobsOK
<1>10. OthersStay(j)
  BY <1>2, <1>5, <1>8 DEF OthersStay
<1>11. LockOf(j)'
  <2>1. \A u \in Slots : run'[j][u].locked = run[j][u].locked
    BY <1>4, <1>5
  <2> QED
    BY <1>1, <1>2, <2>1 DEF LockOf
<1>12. MintOf(j)'
  BY <1>1, <1>2, <1>4, <1>5 DEF MintOf
<1>13. CountOf(j)'
  <2>1. Owed(j)' = Owed(j) /\ Owed(j) \in Nat
    BY <1>2 DEF Owed
  <2>2. SUFFICES ASSUME NEW n \in 1..Batch, NEW t \in Tables
                 PROVE  (rows[j][n][t] + Cardinality(Pending(j, n, t)) + Owed(j)
                            <= 1 + job[j].stalls)'
    BY DEF CountOf
  <2>3. rows[j][n][t] + Cardinality(Pending(j, n, t)) + Owed(j) <= 1 + job[j].stalls
    BY <1>1 DEF CountOf
  <2>4. Pending(j, n, t)' \subseteq Pending(j, n, t)
    BY <1>4, <1>5, PendingAre DEF Pending
  <2>5. Cardinality(Pending(j, n, t)) \in Nat /\ Cardinality(Pending(j, n, t)') \in Nat
    BY PendingAre, Counting
  <2>6. CASE rows'[j][n][t] = rows[j][n][t]
    <3>1. Cardinality(Pending(j, n, t)') <= Cardinality(Pending(j, n, t))
      BY <2>4, PendingAre, Counting
    <3> QED
      BY <1>1, <1>2, <2>1, <2>3, <2>5, <2>6, <3>1
  <2>7. CASE rows'[j][n][t] # rows[j][n][t]
    <3>1. PICK x \in Tables : /\ rows' = [rows EXCEPT ![j][m][x] = @ + 1]
                              /\ May(run[j][s], m, x) /\ ~May(r, m, x)
      BY <1>7, <2>7
    <3>2. n = m /\ t = x /\ rows'[j][n][t] = rows[j][n][t] + 1
      BY <1>6, <2>7, <3>1 DEF JobsOK, TypeOK
    <3>3. s \in Pending(j, n, t) /\ Pending(j, n, t)' \subseteq Pending(j, n, t) \ {s}
      BY <1>5, <2>4, <3>1, <3>2, PendingAre DEF Pending
    <3>4. Cardinality(Pending(j, n, t)') + 1 <= Cardinality(Pending(j, n, t))
      BY <3>3, PendingAre, Counting
    <3> QED
      BY <1>1, <1>2, <2>1, <2>3, <2>5, <3>2, <3>4
  <2> QED
    BY <2>6, <2>7
<1> QED
  BY <1>2, <1>9, <1>10, <1>11, <1>12, <1>13, JobByJob DEF JobsOK, JobOK

\* A failed attempt has written nothing: it is still owed, also when it was the
\* last; one that was completed is owed no more.
LEMMA FinishKeeps ==
    ASSUME JobsOK, NEW j \in Jobs, NEW s \in Slots, Finish(j, s), UNCHANGED lifeVars
    PROVE  JobsOK'
<1>1. /\ TypeOK /\ job[j] \in JobRecord /\ LockOf(j) /\ MintOf(j) /\ CountOf(j)
      /\ MaxStalled \in Nat /\ Attempts \in Nat /\ Batch \in Nat
      /\ job[j].tries \in Nat /\ job[j].stalls \in Nat
      /\ run[j][s] \in RunRecord
      /\ \A n \in 1..Batch, t \in Tables : rows[j][n][t] \in Nat
  BY JobFacts
<1>2. /\ run' = [run EXCEPT ![j][s] = Free]
      /\ UNCHANGED <<queues, kind, workers, stores, rows>>
  BY DEF Finish
<1>3. Free \in RunRecord /\ Free.mint = 1 /\ Free.locked = FALSE
  BY FreeHasNothing DEF Free
<1>4. /\ run' \in [Jobs -> [Slots -> RunRecord]]
      /\ run'[j][s] = Free
      /\ \A u \in Slots : u # s => run'[j][u] = run[j][u]
      /\ \A i \in Jobs \ {j} : run'[i] = run[i]
  BY <1>1, <1>2, <1>3, OneRunChanges
<1>5. faults' \in 0..MaxFaults
  BY JobQueueAssumption DEF Finish, Fault, JobsOK, TypeOK
<1>6. ASSUME NEW n \in 1..Batch, NEW t \in Tables
      PROVE  Pending(j, n, t)' \subseteq Pending(j, n, t) \ {s}
  BY <1>4, FreeHasNothing, PendingAre DEF Pending
<1>7. /\ MintOf(j)'
      /\ \A u \in Slots : run'[j][u].locked => run[j][u].locked /\ u # s
  BY <1>1, <1>2, <1>3, <1>4 DEF MintOf
<1>8. CASE UNCHANGED job
  <2>1. TypeOK'
    BY <1>2, <1>4, <1>5, <1>8, StepTyped DEF JobsOK, TypeOK, RunRecord, JobRecord
  <2>2. OthersStay(j)
    BY <1>2, <1>4, <1>8 DEF OthersStay
  <2>3. LockOf(j)'
    BY <1>1, <1>7, <1>8 DEF LockOf
  <2>4. CountOf(j)'
    <3>1. Owed(j)' = Owed(j) /\ Owed(j) \in Nat
      BY <1>8 DEF Owed
    <3>2. SUFFICES ASSUME NEW n \in 1..Batch, NEW t \in Tables
                   PROVE  (rows[j][n][t] + Cardinality(Pending(j, n, t)) + Owed(j)
                              <= 1 + job[j].stalls)'
      BY DEF CountOf
    <3>3. rows[j][n][t] + Cardinality(Pending(j, n, t)) + Owed(j) <= 1 + job[j].stalls
      BY <1>1 DEF CountOf
    <3>4. /\ Cardinality(Pending(j, n, t)') <= Cardinality(Pending(j, n, t))
          /\ Cardinality(Pending(j, n, t)) \in Nat /\ Cardinality(Pending(j, n, t)') \in Nat
      BY <1>6, PendingAre, Counting
    <3> QED
      BY <1>1, <1>2, <1>8, <3>1, <3>3, <3>4
  <2> QED
    BY <1>2, <1>7, <2>1, <2>2, <2>3, <2>4, JobByJob DEF JobsOK, JobOK
<1>9. CASE job' # job
  <2>1. /\ run[j][s].locked /\ run[j][s].at \in {"done", "threw"}
        /\ IF run[j][s].at = "done" THEN SetState(j, "completed") ELSE AttemptFailed(j)
    BY <1>9 DEF Finish
  <2>2. /\ job[j].state = "active" /\ Owed(j) = 0
        /\ job[j].tries < Attempts /\ job[j].stalls <= MaxStalled
        /\ \A u \in Slots : ~run'[j][u].locked
    BY <1>1, <1>7, <2>1 DEF LockOf, Owed
  <2>3. /\ job' \in [Jobs -> JobRecord]
        /\ \A i \in Jobs \ {j} : job'[i] = job[i]
        /\ job'[j].stalls = job[j].stalls
        /\ job'[j].state # "failed" => job'[j].tries < Attempts
        /\ job'[j].state # "completed" => run[j][s].at = "threw"
    <3>1. CASE run[j][s].at = "done"
      <4>1. SetState(j, "completed")
        BY <2>1, <3>1
      <4>2. "completed" \in JobStates
        BY DEF JobStates
      <4> QED
        BY <2>2, <4>1, <4>2, NewState
    <3>2. CASE run[j][s].at = "threw"
      <4> DEFINE state == IF job[j].tries + 1 < Attempts THEN "delayed" ELSE "failed"
                 v == [job[j] EXCEPT !.tries = job[j].tries + 1, !.state = state]
      <4>1. job' = [job EXCEPT ![j] = v]
        BY <2>1, <3>2 DEF AttemptFailed, JobsOK, TypeOK
      <4>2. state \in JobStates /\ job[j].tries + 1 \in 0..Attempts
        BY <1>1, <2>2 DEF JobStates
      <4>3. state # "failed" => job[j].tries + 1 < Attempts
        OBVIOUS
      <4> HIDE DEF state
      <4>4. /\ v \in JobRecord /\ v.stalls = job[j].stalls /\ v.state = state
            /\ v.tries = job[j].tries + 1
        BY <1>1, <4>2 DEF JobRecord
      <4> HIDE DEF v
      <4>5. /\ job' \in [Jobs -> JobRecord] /\ job'[j] = v
            /\ \A i \in Jobs \ {j} : job'[i] = job[i]
        BY <4>1, <4>4, OneJobChanges DEF JobsOK
      <4> QED
        BY <3>2, <4>3, <4>4, <4>5
    <3> QED
      BY <2>1, <3>1, <3>2
  <2>4. TypeOK'
    BY <1>2, <1>4, <1>5, <2>3, StepTyped DEF JobsOK, TypeOK
  <2>5. OthersStay(j)
    BY <1>2, <1>4, <2>3 DEF OthersStay
  <2>6. LockOf(j)'
    BY <2>2, <2>3 DEF LockOf
  <2>7. CountOf(j)'
    <3>1. Owed(j)' \in {0, 1}
      BY DEF Owed
    <3>2. SUFFICES ASSUME NEW n \in 1..Batch, NEW t \in Tables
                   PROVE  (rows[j][n][t] + Cardinality(Pending(j, n, t)) + Owed(j)
                              <= 1 + job[j].stalls)'
      BY DEF CountOf
    <3>3. rows[j][n][t] + Cardinality(Pending(j, n, t)) <= 1 + job[j].stalls
      <4>1. rows[j][n][t] + Cardinality(Pending(j, n, t)) + Owed(j) <= 1 + job[j].stalls
        BY <1>1 DEF CountOf
      <4>2. Cardinality(Pending(j, n, t)) \in Nat
        BY PendingAre, Counting
      <4> QED
        BY <1>1, <2>2, <4>1, <4>2
    <3>4. /\ Cardinality(Pending(j, n, t)') <= Cardinality(Pending(j, n, t))
          /\ Cardinality(Pending(j, n, t)) \in Nat /\ Cardinality(Pending(j, n, t)') \in Nat
      BY <1>6, PendingAre, Counting
    <3>5. CASE run[j][s].at = "threw"
      <4>1. s \in Pending(j, n, t)
        BY <3>5 DEF Pending, May
      <4>2. Cardinality(Pending(j, n, t)') + 1 <= Cardinality(Pending(j, n, t))
        BY <1>6, <4>1, PendingAre, Counting
      <4> QED
        BY <1>1, <1>2, <2>3, <3>1, <3>3, <3>4, <4>2
    <3>6. CASE run[j][s].at # "threw"
      <4>1. Owed(j)' = 0
        BY <2>3, <3>6 DEF Owed
      <4> QED
        BY <1>1, <1>2, <2>3, <3>3, <3>4, <4>1
    <3> QED
      BY <3>5, <3>6
  <2> QED
    BY <1>2, <1>7, <2>4, <2>5, <2>6, <2>7, JobByJob DEF JobsOK, JobOK
<1> QED
  BY <1>8, <1>9

\* A job that waits comes from one that was owed its run.
LEMMA QueueKeeps ==
    ASSUME JobsOK, NEW j \in Jobs, NEW state \in {"waiting"},
           job[j].state \in {"none", "delayed"}, SetState(j, state),
           UNCHANGED <<queues, faults, kind, workers, stores, run, rows>>,
           UNCHANGED lifeVars
    PROVE  JobsOK'
<1>1. /\ LockOf(j) /\ MintOf(j) /\ CountOf(j)
  BY DEF JobsOK, LocksHeld, OneMint, Counted
<1>2. /\ job' \in [Jobs -> JobRecord]
      /\ job'[j].state = "waiting"
      /\ job'[j].tries = job[j].tries /\ job'[j].stalls = job[j].stalls
      /\ \A i \in Jobs \ {j} : job'[i] = job[i]
  BY NewState DEF JobStates
<1>3. TypeOK'
  BY <1>2, StepTyped DEF JobsOK, TypeOK, RunRecord
<1>4. OthersStay(j)
  BY <1>2 DEF OthersStay
<1>5. LockOf(j)'
  <2>1. \A u \in Slots : ~run[j][u].locked
    BY <1>1 DEF LockOf
  <2> QED
    BY <1>1, <1>2, <2>1 DEF LockOf
<1>6. MintOf(j)'
  BY <1>1 DEF MintOf
<1>7. CountOf(j)'
  <2>1. Owed(j)' = Owed(j)
    BY <1>2 DEF Owed
  <2>2. ASSUME NEW n, NEW t
        PROVE  Pending(j, n, t)' = Pending(j, n, t)
    BY DEF Pending, May, Ahead
  <2> QED
    BY <1>1, <1>2, <2>1, <2>2 DEF CountOf
<1> QED
  BY <1>3, <1>4, <1>5, <1>6, <1>7, JobByJob DEF JobsOK, JobOK

\* A stall gives the job one more run, and allows it one more row.
LEMMA RecoverKeeps ==
    ASSUME JobsOK, NEW j \in Jobs, Recover(j), UNCHANGED lifeVars
    PROVE  JobsOK'
<1>1. /\ TypeOK /\ job[j] \in JobRecord /\ LockOf(j) /\ MintOf(j) /\ CountOf(j)
      /\ MaxStalled \in Nat /\ Attempts \in Nat /\ Batch \in Nat
      /\ job[j].tries \in Nat /\ job[j].stalls \in Nat
      /\ \A n \in 1..Batch, t \in Tables : rows[j][n][t] \in Nat
  <2>1. 0 \in Slots
    BY JobQueueAssumption DEF Slots
  <2> QED
    BY <2>1, JobFacts
<1>2. /\ job[j].state = "active" /\ ~Held(j) /\ Stalled(j)
      /\ UNCHANGED <<queues, faults, kind, workers, stores, run, rows>>
  BY DEF Recover
<1> DEFINE state == IF job[j].stalls < MaxStalled THEN "waiting" ELSE "failed"
           v == [job[j] EXCEPT !.state = state, !.stalls = job[j].stalls + 1]
<1>3. job' = [job EXCEPT ![j] = v]
  BY <1>2 DEF Stalled, JobsOK, TypeOK
<1>4. /\ state \in JobStates /\ state \in {"waiting", "failed"}
      /\ state # "failed" => job[j].stalls < MaxStalled
  BY DEF JobStates
<1>5. job[j].stalls <= MaxStalled /\ job[j].tries < Attempts
  BY <1>1, <1>2 DEF LockOf
<1>6. job[j].stalls + 1 \in 0..MaxStalled + 1
  BY <1>1, <1>5
<1> HIDE DEF state
<1>7. /\ v \in JobRecord /\ v.state = state
      /\ v.stalls = job[j].stalls + 1 /\ v.tries = job[j].tries
  BY <1>1, <1>4, <1>6 DEF JobRecord
<1> HIDE DEF v
<1>8. /\ job' \in [Jobs -> JobRecord] /\ job'[j] = v
      /\ \A i \in Jobs \ {j} : job'[i] = job[i]
  BY <1>3, <1>7, OneJobChanges DEF JobsOK
<1>9. TypeOK'
  BY <1>2, <1>8, StepTyped DEF JobsOK, TypeOK, RunRecord
<1>10. OthersStay(j)
  BY <1>2, <1>8 DEF OthersStay
<1>11. LockOf(j)'
  <2>1. \A u \in Slots : ~run[j][u].locked
    BY <1>2 DEF Held
  <2>2. job'[j].state # "failed" => job'[j].tries < Attempts /\ job'[j].stalls <= MaxStalled
    BY <1>1, <1>4, <1>5, <1>7, <1>8
  <2> QED
    BY <1>2, <2>1, <2>2 DEF LockOf
<1>12. MintOf(j)'
  BY <1>1, <1>2 DEF MintOf
<1>13. CountOf(j)'
  <2>1. Owed(j)' = 1 /\ Owed(j) = 0
    BY <1>2, <1>4, <1>7, <1>8 DEF Owed
  <2>2. SUFFICES ASSUME NEW n \in 1..Batch, NEW t \in Tables
                 PROVE  (rows[j][n][t] + Cardinality(Pending(j, n, t)) + Owed(j)
                            <= 1 + job[j].stalls)'
    BY DEF CountOf
  <2>3. Pending(j, n, t)' = Pending(j, n, t)
    BY <1>2 DEF Pending, May, Ahead
  <2>4. Cardinality(Pending(j, n, t)) \in Nat
    <3>1. 0 \in Slots
      BY JobQueueAssumption DEF Slots
    <3> QED
      BY <3>1, PendingAre, Counting
  <2>5. rows[j][n][t] + Cardinality(Pending(j, n, t)) + Owed(j) <= 1 + job[j].stalls
    BY <1>1 DEF CountOf
  <2> QED
    BY <1>1, <1>2, <1>7, <1>8, <2>1, <2>3, <2>4, <2>5
<1> QED
  BY <1>2, <1>9, <1>10, <1>11, <1>12, <1>13, JobByJob DEF JobsOK, JobOK

\* A lock that is lost stops no run.
LEMMA LoseLockKeeps ==
    ASSUME JobsOK, NEW j \in Jobs, NEW s \in Slots, LoseLock(j, s), UNCHANGED lifeVars
    PROVE  JobsOK'
<1> DEFINE r == [run[j][s] EXCEPT !.locked = FALSE]
<1>1. TypeOK /\ run[j][s] \in RunRecord /\ LockOf(j) /\ MintOf(j) /\ CountOf(j)
  BY JobFacts
<1>2. /\ run' = [run EXCEPT ![j][s] = r]
      /\ UNCHANGED <<job, queues, kind, workers, stores, rows>>
      /\ faults' \in 0..MaxFaults
  BY JobQueueAssumption DEF LoseLock, Fault, JobsOK, TypeOK
<1>3. /\ r \in RunRecord /\ r.locked = FALSE
      /\ r.at = run[j][s].at /\ r.mint = run[j][s].mint
  BY <1>1 DEF RunRecord
<1> HIDE DEF r
<1>4. /\ run' \in [Jobs -> [Slots -> RunRecord]]
      /\ run'[j][s] = r
      /\ \A u \in Slots : u # s => run'[j][u] = run[j][u]
      /\ \A i \in Jobs \ {j} : run'[i] = run[i]
  BY <1>1, <1>2, <1>3, OneRunChanges
<1>5. /\ TypeOK'
      /\ OthersStay(j)
  BY <1>2, <1>4, StepTyped DEF OthersStay, JobsOK, TypeOK, JobRecord
<1>6. \A u \in Slots : /\ run'[j][u].locked => run[j][u].locked
                       /\ run'[j][u].at = run[j][u].at
                       /\ run'[j][u].mint = run[j][u].mint
  BY <1>3, <1>4
<1>7. LockOf(j)' /\ MintOf(j)'
  BY <1>1, <1>2, <1>6 DEF LockOf, MintOf
<1>8. CountOf(j)'
  <2>1. ASSUME NEW n, NEW t
        PROVE  Pending(j, n, t)' = Pending(j, n, t)
    BY <1>6 DEF Pending, May, Ahead
  <2>2. Owed(j)' = Owed(j)
    BY <1>2 DEF Owed
  <2> QED
    BY <1>1, <1>2, <2>1, <2>2 DEF CountOf
<1> QED
  BY <1>2, <1>5, <1>7, <1>8, JobByJob DEF JobsOK, JobOK

\* A process that is gone has no runs.
LEMMA DownKeeps ==
    ASSUME JobsOK, Down, faults' \in 0..MaxFaults
    PROVE  JobsOK'
<1>1. /\ run' = [j \in Jobs |-> [s \in Slots |-> Free]]
      /\ UNCHANGED <<job, kind, rows, signals>>
  BY DEF Down
<1>2. /\ \A j \in Jobs, s \in Slots : run'[j][s] = Free
      /\ run' \in [Jobs -> [Slots -> RunRecord]]
      /\ Free.mint = 1 /\ Free.locked = FALSE
  BY <1>1, FreeHasNothing DEF Free
<1>3. TypeOK'
  BY <1>1, <1>2 DEF Down, JobsOK, TypeOK, RunRecord, Boots, Phases
<1>4. ASSUME NEW j \in Jobs
      PROVE  JobOK(j)'
  <2>1. LockOf(j) /\ CountOf(j)
    BY DEF JobsOK, LocksHeld, Counted
  <2>2. LockOf(j)' /\ MintOf(j)'
    BY <1>1, <1>2, <2>1 DEF LockOf, MintOf
  <2>3. CountOf(j)'
    <3>1. SUFFICES ASSUME NEW n \in 1..Batch, NEW t \in Tables
                   PROVE  (rows[j][n][t] + Cardinality(Pending(j, n, t)) + Owed(j)
                              <= 1 + job[j].stalls)'
      BY DEF CountOf
    <3>2. Pending(j, n, t)' \subseteq Pending(j, n, t)
      BY <1>2, FreeHasNothing, PendingAre DEF Pending
    <3>3. 0 \in Slots
      BY JobQueueAssumption DEF Slots
    <3>4. /\ Cardinality(Pending(j, n, t)') <= Cardinality(Pending(j, n, t))
          /\ Cardinality(Pending(j, n, t)) \in Nat /\ Cardinality(Pending(j, n, t)') \in Nat
      BY <3>2, <3>3, PendingAre, Counting
    <3>5. rows[j][n][t] + Cardinality(Pending(j, n, t)) + Owed(j) <= 1 + job[j].stalls
      BY <2>1 DEF CountOf
    <3>6. Owed(j)' = Owed(j) /\ Owed(j) \in Nat
      BY <1>1 DEF Owed
    <3>7. rows[j][n][t] \in Nat /\ job[j].stalls \in Nat
      BY <3>3, JobFacts
    <3> QED
      BY <1>1, <3>4, <3>5, <3>6, <3>7
  <2> QED
    BY <2>2, <2>3 DEF JobOK
<1> QED
  BY <1>3, <1>4 DEF JobsOK, JobOK, LocksHeld, OneMint, Counted

\* What leaves the jobs, their runs and their rows alone.
LEMMA JobsUnchanged ==
    ASSUME JobsOK, UNCHANGED <<job, kind, run, rows>>, TypeOK'
    PROVE  JobsOK'
<1>1. ASSUME NEW j \in Jobs
      PROVE  JobOK(j)'
  <2>1. LockOf(j) /\ MintOf(j) /\ CountOf(j)
    BY DEF JobsOK, LocksHeld, OneMint, Counted
  <2>2. LockOf(j)' /\ MintOf(j)'
    BY <2>1 DEF LockOf, MintOf
  <2>3. ASSUME NEW n, NEW t
        PROVE  Pending(j, n, t)' = Pending(j, n, t)
    BY DEF Pending, May, Ahead
  <2>4. Owed(j)' = Owed(j)
    BY DEF Owed
  <2> QED
    BY <2>1, <2>2, <2>3, <2>4 DEF JobOK, CountOf
<1> QED
  BY <1>1 DEF JobsOK, JobOK, LocksHeld, OneMint, Counted

-----------------------------------------------------------------------------
(***************************************************************************)
(* The process around the workers.                                         *)
(***************************************************************************)
\* No step of a worker makes a run where there are no workers.
LEMMA WorkersControlled ==
    ASSUME Control, UNCHANGED lifeVars, UNCHANGED <<workers, stores>>,
           SomeRun' => SomeRun \/ workers = "running"
    PROVE  Control'
<1>1. Booting' /\ Connected'
  BY DEF Control, Booting, Connected, lifeVars, Early
<1>2. Guarded'
  <2>1. SUFFICES ASSUME ~overtaken
                 PROVE  Guarded'
    BY DEF Guarded, lifeVars
  <2>2. workers' = "none" => ~SomeRun'
    BY <2>1 DEF Control, Guarded
  <2>3. \A p \in Shutdowns : PastWorkers(p)' = PastWorkers(p)
    BY DEF PastWorkers, lifeVars
  <2> QED
    BY <2>1, <2>2, <2>3 DEF Control, Guarded, lifeVars
<1> QED
  BY <1>1, <1>2 DEF Control

LEMMA WorkerStepKeeps ==
    ASSUME IInv, NEW j \in Jobs, WorkerStep(j), UNCHANGED lifeVars
    PROVE  IInv'
<1>1. CASE \E s \in Slots : Take(j, s)
  <2>1. PICK s \in Slots : Take(j, s)
    BY <1>1
  <2>2. JobsOK'
    BY <2>1, TakeKeeps DEF IInv
  <2>3. workers = "running" /\ UNCHANGED <<workers, stores>>
    BY <2>1 DEF Take
  <2> QED
    BY <2>2, <2>3, WorkersControlled DEF IInv
<1>2. CASE \E s \in Slots : Process(j, s)
  <2>1. PICK s \in Slots : Process(j, s)
    BY <1>2
  <2>2. JobsOK'
    BY <2>1, ProcessKeeps DEF IInv
  <2>3. /\ run[j][s].at # "free" /\ UNCHANGED <<workers, stores>>
    BY <2>1, ProcessMoves DEF IInv, JobsOK, RunStep
  <2>4. SomeRun
    BY <2>3 DEF SomeRun, Alive
  <2> QED
    BY <2>2, <2>3, <2>4, WorkersControlled DEF IInv
<1>3. CASE \E s \in Slots : Finish(j, s)
  <2>1. PICK s \in Slots : Finish(j, s)
    BY <1>3
  <2>2. JobsOK'
    BY <2>1, FinishKeeps DEF IInv
  <2>3. run[j][s].at \in {"done", "threw"} /\ UNCHANGED <<workers, stores>>
    BY <2>1 DEF Finish
  <2>4. SomeRun
    BY <2>3 DEF SomeRun, Alive
  <2> QED
    BY <2>2, <2>3, <2>4, WorkersControlled DEF IInv
<1>4. CASE Recover(j)
  <2>1. JobsOK'
    BY <1>4, RecoverKeeps DEF IInv
  <2>2. UNCHANGED <<workers, stores, run>>
    BY <1>4 DEF Recover
  <2>3. SomeRun' => SomeRun
    BY <2>2 DEF SomeRun, Alive
  <2> QED
    BY <2>1, <2>2, <2>3, WorkersControlled DEF IInv
<1>5. CASE Promote(j) /\ UNCHANGED <<kind, workers, stores, run, rows>>
  <2>1. JobsOK'
    BY <1>5, QueueKeeps DEF IInv, Promote
  <2>2. SomeRun' => SomeRun
    BY <1>5 DEF SomeRun, Alive
  <2> QED
    BY <1>5, <2>1, <2>2, WorkersControlled DEF IInv
<1> QED
  BY <1>1, <1>2, <1>3, <1>4, <1>5 DEF WorkerStep

LEMMA HandlerKeeps ==
    ASSUME IInv, Handler, UNCHANGED lifeVars
    PROVE  IInv'
<1>1. PICK j \in Jobs : AddJob(j) /\ UNCHANGED <<kind, workers, stores, run, rows>>
  BY DEF Handler
<1>2. JobsOK'
  BY <1>1, QueueKeeps DEF IInv, AddJob
<1>3. SomeRun' => SomeRun
  BY <1>1 DEF SomeRun, Alive
<1> QED
  BY <1>1, <1>2, <1>3, WorkersControlled DEF IInv

LEMMA LockLossKeeps ==
    ASSUME IInv, NEW j \in Jobs, NEW s \in Slots, LoseLock(j, s), UNCHANGED lifeVars
    PROVE  IInv'
<1>1. JobsOK'
  BY LoseLockKeeps DEF IInv
<1>2. UNCHANGED <<workers, stores>>
  BY DEF LoseLock
<1>3. SomeRun' => SomeRun
  <2>1. \A i \in Jobs, u \in Slots : run'[i][u].at = run[i][u].at
    BY DEF LoseLock, IInv, JobsOK, TypeOK
  <2> QED
    BY <2>1 DEF SomeRun, Alive
<1> QED
  BY <1>1, <1>2, <1>3, WorkersControlled DEF IInv

\* An exit or a crash leaves no run and no connection.
LEMMA DownControlled ==
    ASSUME IInv, Down, faults' \in 0..MaxFaults
    PROVE  IInv'
<1>1. JobsOK'
  BY DownKeeps DEF IInv
<1>2. ~SomeRun'
  BY DEF Down, SomeRun, Alive, Free
<1>3. Control'
  BY <1>2 DEF Down, Control, Booting, Connected, Guarded, PastWorkers, Early
<1> QED
  BY <1>1, <1>3 DEF IInv

\* A start-up makes the workers when it has both connections, unless a
\* shutdown has come to them before.
LEMMA StartKeeps ==
    ASSUME IInv, Start \/ Boot
    PROVE  IInv'
<1>1. /\ UNCHANGED <<job, queues, kind, run, rows, phase, clean, signals>>
      /\ faults' \in 0..MaxFaults
  <2>1. UNCHANGED <<job, queues, kind, run, rows, phase, clean, signals>>
    BY DEF Start, Boot, Advance, ConnectDatabase, ConnectRedis, StartAllWorkers,
           ServicesStarted, BootFails, queueVars
  <2>2. faults \in 0..MaxFaults /\ MaxFaults \in Nat
    BY JobQueueAssumption DEF IInv, JobsOK, TypeOK
  <2>3. CASE Start \/ ConnectRedis \/ StartAllWorkers \/ ServicesStarted
    BY <2>1, <2>2, <2>3 DEF Start, ConnectRedis, StartAllWorkers, ServicesStarted, queueVars
  <2>4. CASE ConnectDatabase
    BY <2>1, <2>2, <2>4 DEF ConnectDatabase, Works
  <2>5. CASE BootFails
    BY <2>1, <2>2, <2>5 DEF BootFails, Fails, Fault
  <2> QED
    BY <2>1, <2>3, <2>4, <2>5 DEF Boot
<1>2. /\ stores' \subseteq {"database", "redis"}
      /\ workers' \in {"none", "running", "closing"}
      /\ boot' \in Boots /\ server' \in {"none", "listening", "closing"}
      /\ overtaken' \in BOOLEAN
  BY DEF IInv, JobsOK, TypeOK, Start, Boot, Boots, Advance, ConnectDatabase, ConnectRedis,
         StartAllWorkers, ServicesStarted, BootFails, Works, Fails, Fault
<1>3. TypeOK'
  BY <1>1, <1>2 DEF IInv, JobsOK, TypeOK
<1>4. JobsOK'
  BY <1>1, <1>3, JobsUnchanged DEF IInv
<1>5. SomeRun' = SomeRun /\ \A p \in Shutdowns : PastWorkers(p)' = PastWorkers(p)
  BY <1>1 DEF SomeRun, Alive, PastWorkers
<1>6. CASE Start
  <2>1. /\ boot = "down" /\ boot' = "database" /\ stores' = {"database"}
        /\ workers = "none" /\ workers' = "none" /\ overtaken' = overtaken
    BY <1>6 DEF Start, Up, IInv, Control, Booting
  <2>2. Booting' /\ Connected'
    BY <2>1 DEF Booting, Connected
  <2>3. Guarded'
    BY <1>1, <1>5, <2>1 DEF IInv, Control, Guarded
  <2> QED
    BY <1>4, <2>2, <2>3 DEF IInv, Control
<1>7. CASE ConnectDatabase \/ ServicesStarted \/ BootFails
  <2>1. /\ UNCHANGED <<workers, stores, overtaken>> /\ boot # "down"
        /\ boot' \in {"redis", "up", "failed"}
        /\ boot' = "redis" => boot = "database"
    BY <1>7 DEF ConnectDatabase, ServicesStarted, BootFails, Advance
  <2>2. Booting' /\ Connected'
    BY <1>1, <2>1 DEF Booting, Connected, IInv, Control
  <2>3. Guarded'
    BY <1>1, <1>5, <2>1 DEF IInv, Control, Guarded
  <2> QED
    BY <1>4, <2>2, <2>3 DEF IInv, Control
<1>8. CASE ConnectRedis
  <2>1. /\ UNCHANGED <<workers, overtaken>> /\ boot = "redis" /\ boot' = "health"
        /\ stores' = stores \cup {"redis"}
    BY <1>8 DEF ConnectRedis, Advance
  <2>2. Booting' /\ Connected'
    BY <1>1, <2>1 DEF Booting, Connected, IInv, Control
  <2>3. Guarded'
    BY <1>1, <1>5, <2>1 DEF IInv, Control, Guarded
  <2> QED
    BY <1>4, <2>2, <2>3 DEF IInv, Control
<1>9. CASE StartAllWorkers
  <2>1. /\ boot = "health" /\ boot' = "services" /\ workers = "none"
        /\ workers' = "running" /\ stores' = stores
        /\ overtaken' = \E p \in Shutdowns : phase[p] \notin Early
    BY <1>9 DEF StartAllWorkers, Advance, IInv, Control, Booting, Early
  <2>2. Booting' /\ Connected'
    BY <1>1, <2>1 DEF Booting, Connected, IInv, Control
  <2>3. Guarded'
    <3>1. SUFFICES ASSUME ~overtaken'
                   PROVE  Guarded'
      BY DEF Guarded
    <3>2. \A p \in Shutdowns : phase[p] \in Early
      BY <2>1, <3>1
    <3>3. {"database", "redis"} \subseteq stores
      BY <2>1, <3>2 DEF IInv, Control, Connected
    <3>4. \A p \in Shutdowns : ~PastWorkers(p)' /\ phase'[p] # "workers"
      BY <1>1, <1>5, <3>2 DEF PastWorkers, Early
    <3> QED
      BY <2>1, <3>3, <3>4 DEF Guarded
  <2> QED
    BY <1>4, <2>2, <2>3 DEF IInv, Control
<1> QED
  BY <1>6, <1>7, <1>8, <1>9 DEF Boot

LEMMA BeginKeeps ==
    ASSUME IInv, NEW p \in Shutdowns, BeginShutdown(p)
    PROVE  IInv'
<1>1. /\ phase[p] = "idle" /\ phase' = [phase EXCEPT ![p] = "collectors"]
      /\ UNCHANGED <<job, queues, faults, kind, workers, stores, run, rows>>
      /\ UNCHANGED <<boot, server, clean, overtaken>>
  BY DEF BeginShutdown, workerVars, queueVars
<1>2. signals' \in 0..MaxSignals
  <2>1. CASE p = 0
    BY <2>1 DEF BeginShutdown, IInv, JobsOK, TypeOK
  <2>2. CASE p # 0
    <3>1. signals' = p
      BY <2>2 DEF BeginShutdown
    <3> QED
      BY <3>1 DEF Shutdowns
  <2> QED
    BY <2>1, <2>2
<1>3. phase' \in [Shutdowns -> Phases]
  BY <1>1 DEF IInv, JobsOK, TypeOK, Phases
<1>4. JobsOK'
  <2>1. TypeOK'
    BY <1>1, <1>2, <1>3 DEF IInv, JobsOK, TypeOK
  <2> QED
    BY <1>1, <2>1, JobsUnchanged DEF IInv
<1>5. \A q \in Shutdowns : /\ phase'[q] \in Early => phase[q] \in Early
                           /\ PastWorkers(q)' => PastWorkers(q)
                           /\ phase'[q] = "workers" => phase[q] = "workers"
  BY <1>1 DEF PastWorkers, Early, IInv, JobsOK, TypeOK
<1>6. SomeRun' = SomeRun
  BY <1>1 DEF SomeRun, Alive
<1>7. Booting' /\ Connected' /\ Guarded'
  BY <1>1, <1>5, <1>6 DEF IInv, Control, Booting, Connected, Guarded
<1> QED
  BY <1>4, <1>7 DEF IInv, Control

\* A shutdown that gives up has not got past its workers; the others stay where
\* they are.
LEMMA PhaseMoves ==
    ASSUME IInv, NEW p \in Shutdowns, phase[p] \notin Early,
           NEW next \in Phases \ Early, Proceed(p, next) \/ (GiveUp(p) /\ next = "exit")
    PROVE  /\ phase' \in [Shutdowns -> Phases] /\ clean' \in [Shutdowns -> BOOLEAN]
           /\ phase'[p] = next /\ phase'[p] \notin Early
           /\ \A q \in Shutdowns \ {p} : phase'[q] = phase[q] /\ clean'[q] = clean[q]
           /\ GiveUp(p) => clean'[p] = FALSE
           /\ Proceed(p, next) => clean'[p] = clean[p]
BY DEF Proceed, GiveUp, IInv, JobsOK, TypeOK, Phases

\* A step of a shutdown that is past its collectors: what has to be shown of it.
LEMMA ShutdownControlled ==
    ASSUME IInv, NEW p \in Shutdowns,
           UNCHANGED <<boot, overtaken>>, run' = run,
           phase'[p] \notin Early,
           \A q \in Shutdowns \ {p} : phase'[q] = phase[q] /\ clean'[q] = clean[q],
           workers' # "running" \/ workers' = workers,
           workers = "none" => workers' = "none",
           ~overtaken =>
              /\ workers' = "none" => workers = "none" \/ ~SomeRun
              /\ workers' # "none" => stores' = stores
              /\ PastWorkers(p)' => workers' = "none"
              /\ phase'[p] = "workers" => workers' # "running"
    PROVE  Control'
<1>1. Booting' /\ Connected'
  BY DEF IInv, Control, Booting, Connected
<1>2. Guarded'
  <2>1. SUFFICES ASSUME ~overtaken
                 PROVE  Guarded'
    BY DEF Guarded
  <2>2. SomeRun' = SomeRun
    BY DEF SomeRun, Alive
  <2>3. ASSUME NEW q \in Shutdowns, q # p
        PROVE  PastWorkers(q)' = PastWorkers(q)
    BY <2>3 DEF PastWorkers
  <2>4. Guarded
    BY DEF IInv, Control
  <2>5. workers' = "none" => ~SomeRun'
    BY <2>1, <2>2, <2>4 DEF Guarded
  <2>6. workers' # "none" => {"database", "redis"} \subseteq stores'
    BY <2>1, <2>4 DEF Guarded
  <2>7. \A q \in Shutdowns : PastWorkers(q)' => workers' = "none"
    BY <2>1, <2>3, <2>4 DEF Guarded
  <2>8. \A q \in Shutdowns : phase'[q] = "workers" => workers' # "running"
    BY <2>1, <2>4 DEF Guarded
  <2> QED
    BY <2>5, <2>6, <2>7, <2>8 DEF Guarded
<1> QED
  BY <1>1, <1>2 DEF Control

LEMMA ShutdownTyped ==
    ASSUME IInv, UNCHANGED <<job, kind, run, rows, boot>>, UNCHANGED <<overtaken, signals>>,
           faults' \in 0..MaxFaults, queues' \in {"open", "closing"},
           workers' \in {"none", "running", "closing"}, stores' \subseteq stores,
           server' \in {"none", "listening", "closing"},
           phase' \in [Shutdowns -> Phases], clean' \in [Shutdowns -> BOOLEAN]
    PROVE  JobsOK'
<1>1. TypeOK'
  BY DEF IInv, JobsOK, TypeOK
<1> QED
  BY <1>1, JobsUnchanged DEF IInv

\* The collectors are stopped, and the workers told to close.
LEMMA StopCollectorsKeeps ==
    ASSUME IInv, NEW p \in Shutdowns, StopCollectors(p), UNCHANGED <<overtaken, signals>>
    PROVE  IInv'
<1>1. /\ phase[p] = "collectors"
      /\ UNCHANGED <<job, faults, kind, stores, run, rows, boot, server>>
      /\ queues' \in {"open", "closing"} /\ clean' = clean
      /\ \/ workers = "none" /\ workers' = "none" /\ Proceed(p, "queues")
         \/ workers # "none" /\ workers' = "closing" /\ Proceed(p, "workers")
  BY DEF StopCollectors, IInv, JobsOK, TypeOK, Proceed
<1>2. /\ phase' \in [Shutdowns -> Phases]
      /\ phase'[p] = IF workers = "none" THEN "queues" ELSE "workers"
      /\ \A q \in Shutdowns \ {p} : phase'[q] = phase[q]
  BY <1>1 DEF Proceed, IInv, JobsOK, TypeOK, Phases
<1>3. JobsOK'
  BY <1>1, <1>2, ShutdownTyped DEF IInv, JobsOK, TypeOK
<1>4. Control'
  BY <1>1, <1>2, ShutdownControlled DEF PastWorkers, Early
<1> QED
  BY <1>3, <1>4 DEF IInv

\* Workers that are closing are closed when no run is left.
LEMMA WorkersClosedKeeps ==
    ASSUME IInv, NEW p \in Shutdowns, WorkersClosed(p), UNCHANGED <<overtaken, signals>>
    PROVE  IInv'
<1>1. /\ phase[p] = "workers"
      /\ UNCHANGED <<job, kind, stores, run, rows, boot, server>>
      /\ \/ /\ workers = "closing" => ~SomeRun
            /\ workers' = "none" /\ queues' = "closing" /\ Proceed(p, "queues")
         \/ /\ workers' = workers /\ queues' = queues /\ GiveUp(p)
  BY DEF WorkersClosed
<1>2. faults' \in 0..MaxFaults
  BY JobQueueAssumption DEF WorkersClosed, Fault, IInv, JobsOK, TypeOK
<1>3. "queues" \in Phases \ Early /\ "exit" \in Phases \ Early /\ "workers" \notin Early
  BY DEF Phases, Early
<1>4. ~overtaken => workers # "running"
  BY <1>1 DEF IInv, Control, Guarded
<1>5. workers \in {"none", "running", "closing"}
  BY DEF IInv, JobsOK, TypeOK
<1>6. CASE workers' = "none" /\ queues' = "closing" /\ Proceed(p, "queues")
           /\ (workers = "closing" => ~SomeRun)
  <2>1. /\ phase' \in [Shutdowns -> Phases] /\ clean' \in [Shutdowns -> BOOLEAN]
        /\ phase'[p] = "queues" /\ phase'[p] \notin Early
        /\ \A q \in Shutdowns \ {p} : phase'[q] = phase[q] /\ clean'[q] = clean[q]
    BY <1>1, <1>3, <1>6, PhaseMoves
  <2>2. JobsOK'
    BY <1>1, <1>2, <1>6, <2>1, ShutdownTyped DEF IInv, JobsOK, TypeOK
  <2>3. Control'
    BY <1>1, <1>4, <1>5, <1>6, <2>1, ShutdownControlled
  <2> QED
    BY <2>2, <2>3 DEF IInv
<1>7. CASE workers' = workers /\ queues' = queues /\ GiveUp(p)
  <2>1. /\ phase' \in [Shutdowns -> Phases] /\ clean' \in [Shutdowns -> BOOLEAN]
        /\ phase'[p] = "exit" /\ phase'[p] \notin Early /\ clean'[p] = FALSE
        /\ \A q \in Shutdowns \ {p} : phase'[q] = phase[q] /\ clean'[q] = clean[q]
    BY <1>1, <1>3, <1>7, PhaseMoves
  <2>2. JobsOK'
    BY <1>1, <1>2, <1>7, <2>1, ShutdownTyped DEF IInv, JobsOK, TypeOK
  <2>3. ~PastWorkers(p)'
    BY <2>1 DEF PastWorkers
  <2>4. Control'
    BY <1>1, <1>7, <2>1, <2>3, ShutdownControlled
  <2> QED
    BY <2>2, <2>4 DEF IInv
<1> QED
  BY <1>1, <1>6, <1>7

\* Past the workers, the queues, the health API and the connections are closed;
\* no worker is left to miss them.
LEMMA ClosingKeeps ==
    ASSUME IInv, NEW p \in Shutdowns, UNCHANGED <<overtaken, signals>>,
           QueuesClosed(p) \/ CloseHealth(p) \/ CloseRedis(p) \/ CloseDatabase(p)
    PROVE  IInv'
<1>1. /\ phase[p] \in {"queues", "health", "redis", "database"}
      /\ UNCHANGED <<job, faults, kind, workers, run, rows, boot>>
  BY DEF QueuesClosed, CloseHealth, CloseRedis, CloseDatabase, workerVars, queueVars
<1>2. ~overtaken => workers = "none"
  BY <1>1 DEF PastWorkers, IInv, Control, Guarded
<1>3. /\ queues' \in {"open", "closing"} /\ stores' \subseteq stores
      /\ server' \in {"none", "listening", "closing"}
  BY DEF QueuesClosed, CloseHealth, CloseRedis, CloseDatabase, workerVars, queueVars,
         IInv, JobsOK, TypeOK
<1>4. stores' = stores \/ workers' = "none" \/ overtaken
  BY <1>1, <1>2
<1>5. \/ UNCHANGED <<phase, clean>>
      \/ \E next \in {"health", "redis", "database", "exit"} : Proceed(p, next)
      \/ GiveUp(p)
  BY DEF QueuesClosed, CloseHealth, CloseRedis, CloseDatabase
<1>6. /\ phase' \in [Shutdowns -> Phases] /\ clean' \in [Shutdowns -> BOOLEAN]
      /\ phase'[p] \notin Early /\ phase'[p] # "workers"
      /\ \A q \in Shutdowns \ {p} : phase'[q] = phase[q] /\ clean'[q] = clean[q]
  <2>1. phase[p] \notin Early /\ phase[p] # "workers"
    BY <1>1 DEF Early
  <2>2. CASE UNCHANGED <<phase, clean>>
    BY <2>1, <2>2 DEF IInv, JobsOK, TypeOK
  <2>3. CASE \E next \in {"health", "redis", "database", "exit"} : Proceed(p, next)
    <3>1. PICK next \in {"health", "redis", "database", "exit"} : Proceed(p, next)
      BY <2>3
    <3>2. next \in Phases \ Early /\ next # "workers"
      BY DEF Phases, Early
    <3> QED
      BY <2>1, <3>1, <3>2, PhaseMoves
  <2>4. CASE GiveUp(p)
    <3>1. "exit" \in Phases \ Early
      BY DEF Phases, Early
    <3> QED
      BY <2>1, <2>4, <3>1, PhaseMoves
  <2> QED
    BY <1>5, <2>2, <2>3, <2>4
<1>7. JobsOK'
  BY <1>1, <1>3, <1>6, ShutdownTyped DEF IInv, JobsOK, TypeOK
<1>8. Control'
  BY <1>1, <1>2, <1>4, <1>6, ShutdownControlled
<1> QED
  BY <1>7, <1>8 DEF IInv

\* An error ends a shutdown where it is.
LEMMA StepFailsKeeps ==
    ASSUME IInv, NEW p \in Shutdowns, StepFails(p), UNCHANGED <<overtaken, signals>>
    PROVE  IInv'
<1>1. /\ phase[p] \in {"workers", "queues", "redis"} /\ GiveUp(p)
      /\ UNCHANGED <<job, queues, kind, workers, stores, run, rows, boot, server>>
  BY DEF StepFails
<1>2. faults' \in 0..MaxFaults
  BY JobQueueAssumption DEF StepFails, Fault, IInv, JobsOK, TypeOK
<1>3. "exit" \in Phases \ Early /\ phase[p] \notin Early
  BY <1>1 DEF Phases, Early
<1>4. /\ phase' \in [Shutdowns -> Phases] /\ clean' \in [Shutdowns -> BOOLEAN]
      /\ phase'[p] = "exit" /\ phase'[p] \notin Early /\ clean'[p] = FALSE
      /\ \A q \in Shutdowns \ {p} : phase'[q] = phase[q] /\ clean'[q] = clean[q]
  BY <1>1, <1>3, PhaseMoves
<1>5. JobsOK'
  BY <1>1, <1>2, <1>4, ShutdownTyped DEF IInv, JobsOK, TypeOK
<1>6. ~PastWorkers(p)'
  BY <1>4 DEF PastWorkers
<1>7. Control'
  BY <1>1, <1>4, <1>6, ShutdownControlled
<1> QED
  BY <1>5, <1>7 DEF IInv

LEMMA ExitKeeps ==
    ASSUME IInv, Crash \/ \E p \in Shutdowns : Exit(p)
    PROVE  IInv'
<1>1. Down /\ faults' \in 0..MaxFaults
  BY JobQueueAssumption DEF Crash, Exit, Fault, IInv, JobsOK, TypeOK
<1> QED
  BY <1>1, DownControlled

-----------------------------------------------------------------------------
(***************************************************************************)
(* The invariant.                                                          *)
(***************************************************************************)
LEMMA InitInvariant ==
    ASSUME Init
    PROVE  IInv
<1>1. /\ job = [j \in Jobs |-> [state |-> "none", tries |-> 0, stalls |-> 0]]
      /\ queues = "open" /\ faults = 0
      /\ kind \in Workloads /\ workers = "none" /\ stores = {}
      /\ run = [j \in Jobs |-> [s \in Slots |-> Free]]
      /\ rows = [j \in Jobs |-> [n \in 1..Batch |-> [t \in Tables |-> 0]]]
  BY DEF Init, WorkerInit, QueueInit
<1>2. /\ boot = "down" /\ server = "none"
      /\ phase = [p \in Shutdowns |-> "idle"]
      /\ clean = [p \in Shutdowns |-> TRUE]
      /\ overtaken = FALSE /\ signals = 0
  BY DEF Init
<1>3. /\ Attempts \in Nat \ {0} /\ MaxStalled \in Nat /\ MaxFaults \in Nat
      /\ MaxSignals \in Nat
  BY JobQueueAssumption, LifecycleAssumption
<1>4. job \in [Jobs -> JobRecord]
  BY <1>1, <1>3 DEF JobRecord, JobStates
<1>5. run \in [Jobs -> [Slots -> RunRecord]]
  BY <1>1, FreeHasNothing
<1>6. TypeOK
  <2>1. rows \in [Jobs -> [1..Batch -> [Tables -> Nat]]]
    BY <1>1
  <2>2. phase \in [Shutdowns -> Phases] /\ clean \in [Shutdowns -> BOOLEAN]
    BY <1>2 DEF Phases
  <2>3. faults \in 0..MaxFaults /\ signals \in 0..MaxSignals
    BY <1>1, <1>2, <1>3
  <2> QED
    BY <1>1, <1>2, <1>4, <1>5, <2>1, <2>2, <2>3 DEF TypeOK, Boots, JobRecord, RunRecord
<1>7. \A j \in Jobs, s \in Slots : run[j][s] = Free
  BY <1>1
<1>8. LocksHeld /\ OneMint
  BY <1>1, <1>3, <1>7 DEF LocksHeld, OneMint, LockOf, MintOf, Free
<1>9. Counted
  <2>1. SUFFICES ASSUME NEW j \in Jobs, NEW n \in 1..Batch, NEW t \in Tables
                 PROVE  rows[j][n][t] + Cardinality(Pending(j, n, t)) + Owed(j)
                            <= 1 + job[j].stalls
    BY DEF Counted, CountOf
  <2>2. Cardinality(Pending(j, n, t)) = 0
    <3>1. Pending(j, n, t) = {}
      BY <1>7, FreeHasNothing DEF Pending
    <3> QED
      BY <3>1, FS_EmptySet
  <2>3. Owed(j) = 1 /\ rows[j][n][t] = 0 /\ job[j].stalls = 0
    BY <1>1 DEF Owed
  <2> QED
    BY <2>2, <2>3
<1>10. Control
  BY <1>1, <1>2, <1>7 DEF Control, Booting, Connected, Guarded, PastWorkers, Early,
                          SomeRun, Alive, Free
<1> QED
  BY <1>6, <1>8, <1>9, <1>10 DEF IInv, JobsOK

LEMMA NextKeepsInvariant ==
    ASSUME IInv, [Next]_vars
    PROVE  IInv'
<1>1. CASE Start \/ Boot
  BY <1>1, StartKeeps
<1>2. CASE Crash \/ \E p \in Shutdowns : Exit(p)
  BY <1>2, ExitKeeps
<1>3. CASE \E p \in Shutdowns : BeginShutdown(p)
  BY <1>3, BeginKeeps
<1>4. CASE \E p \in Shutdowns : ShutdownStep(p) /\ UNCHANGED <<overtaken, signals>>
  <2>1. PICK p \in Shutdowns : ShutdownStep(p) /\ UNCHANGED <<overtaken, signals>>
    BY <1>4
  <2> QED
    BY <2>1, StopCollectorsKeeps, WorkersClosedKeeps, ClosingKeeps, StepFailsKeeps
       DEF ShutdownStep
<1>5. CASE Handler /\ UNCHANGED lifeVars
  BY <1>5, HandlerKeeps
<1>6. CASE (\E j \in Jobs : WorkerStep(j)) /\ UNCHANGED lifeVars
  BY <1>6, WorkerStepKeeps
<1>7. CASE (\E j \in Jobs, s \in Slots : LoseLock(j, s)) /\ UNCHANGED lifeVars
  BY <1>7, LockLossKeeps
<1>8. CASE UNCHANGED vars
  <2>1. /\ UNCHANGED <<job, queues, faults, kind, workers, stores, run, rows>>
        /\ UNCHANGED lifeVars
    BY <1>8 DEF vars, workerVars, queueVars
  <2>2. TypeOK'
    BY <2>1 DEF IInv, JobsOK, TypeOK, lifeVars
  <2>3. JobsOK'
    BY <2>1, <2>2, JobsUnchanged DEF IInv
  <2>4. SomeRun' => SomeRun
    BY <2>1 DEF SomeRun, Alive
  <2> QED
    BY <2>1, <2>3, <2>4, WorkersControlled DEF IInv
<1> QED
  BY <1>1, <1>2, <1>3, <1>4, <1>5, <1>6, <1>7, <1>8 DEF Next

LEMMA Invariance == Spec => []IInv
<1>1. Init => IInv
  BY InitInvariant
<1>2. IInv /\ [Next]_vars => IInv'
  BY NextKeepsInvariant
<1> QED
  BY <1>1, <1>2, PTL DEF Spec

-----------------------------------------------------------------------------
(***************************************************************************)
(* The theorems.                                                           *)
(***************************************************************************)
\* The types of all variables: a job is in a state BullMQ knows, with at most
\* Attempts failed attempts and MaxStalled + 1 stalls (QueueManager.ts:98-111);
\* the shutdowns are in phases of shutdown() (index.ts:405-468).
THEOREM TypeCorrect == Spec => []TypeOK
<1>1. IInv => TypeOK
  BY DEF IInv, JobsOK
<1> QED
  BY <1>1, Invariance, PTL

\* Whatever attempts fail, locks expire and processes crash, a job appends to
\* a table at most once for each of its mints, and once more for each stall: a
\* processor throws only before its first statement (HolderScanWorker.ts:51,
\* PriceFetchWorker.ts:57).
THEOREM RowsAreBounded == Spec => []RowsBounded
<1>1. ASSUME IInv
      PROVE  RowsBounded
  <2>1. SUFFICES ASSUME NEW j \in Jobs, NEW n \in 1..Batch, NEW t \in Tables
                 PROVE  rows[j][n][t] <= 1 + job[j].stalls
    BY DEF RowsBounded
  <2>2. 0 \in Slots
    BY JobQueueAssumption DEF Slots
  <2>3. CountOf(j) /\ rows[j][n][t] \in Nat /\ job[j].stalls \in Nat
    BY <1>1, <2>2, JobFacts DEF IInv
  <2>4. Cardinality(Pending(j, n, t)) \in Nat
    BY <2>2, PendingAre, Counting
  <2>5. Owed(j) \in {0, 1}
    BY DEF Owed
  <2>6. rows[j][n][t] + Cardinality(Pending(j, n, t)) + Owed(j) <= 1 + job[j].stalls
    BY <2>3 DEF CountOf
  <2> QED
    BY <2>3, <2>4, <2>5, <2>6
<1> QED
  BY <1>1, Invariance, PTL

\* A job that is given up after its attempts, without a stall, has appended
\* nothing to any table: the attempts that DEFAULT_JOB_OPTIONS allows
\* (QueueManager.ts:98-111) leave nothing half written.
THEOREM FailedLeaveNothing == Spec => []FailedLeavesNothing
<1>1. ASSUME IInv
      PROVE  FailedLeavesNothing
  <2>1. SUFFICES ASSUME NEW j \in Jobs, job[j].state = "failed", job[j].stalls = 0,
                        NEW n \in 1..Batch, NEW t \in Tables
                 PROVE  rows[j][n][t] = 0
    BY DEF FailedLeavesNothing
  <2>2. 0 \in Slots
    BY JobQueueAssumption DEF Slots
  <2>3. CountOf(j) /\ rows[j][n][t] \in Nat
    BY <1>1, <2>2, JobFacts DEF IInv
  <2>4. Cardinality(Pending(j, n, t)) \in Nat
    BY <2>2, PendingAre, Counting
  <2>5. Owed(j) = 1
    BY <2>1 DEF Owed
  <2>6. rows[j][n][t] + Cardinality(Pending(j, n, t)) + Owed(j) <= 1 + job[j].stalls
    BY <2>3 DEF CountOf
  <2> QED
    BY <2>1, <2>3, <2>4, <2>5, <2>6
<1> QED
  BY <1>1, Invariance, PTL

\* While a processor runs, Redis and the database are connected, whatever
\* shutdowns, start-ups and lost locks there are: shutdown() waits for the
\* workers (index.ts:429) before it disconnects.  Only a start-up that makes
\* its workers after a shutdown had come to them is excepted.
THEOREM StoresOutlive == Spec => []StoresOutliveJobs
<1>1. IInv => StoresOutliveJobs
  BY DEF IInv, Control, Guarded, StoresOutliveJobs
<1> QED
  BY <1>1, Invariance, PTL

\* A shutdown that comes to its exit without an error leaves no job under way
\* (index.ts:405-468), though other shutdowns run beside it.
THEOREM ExitIsGraceful == Spec => []GracefulExit
<1>1. IInv => GracefulExit
  BY DEF IInv, Control, Guarded, GracefulExit, PastWorkers
<1> QED
  BY <1>1, Invariance, PTL
=============================================================================
