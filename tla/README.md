# Formal specification of the Solana memecoin collector

TLA+ modules, TLC runs and TLAPS proofs for the data collector in `src/src/`: a
Node.js process that listens to a Yellowstone gRPC stream, polls pools, schedules
jobs and writes to Redis and PostgreSQL. Source paths are relative to `src/src/`.

Contents: [the system](#1-the-system), [modules and code](#2-modules-and-code),
[runs](#3-runs), [proofs](#4-proofs), [findings](#5-findings),
[what is not modelled](#6-what-is-not-modelled), [plan](#7-plan),
[how to run](#8-how-to-run).

## 1. The system

Everything runs in one Node.js process. Nothing is parallel, but every `await` lets
other activities in: event handlers nobody waits for, intervals that fire although
the last round still waits, timers nobody cancels. Redis and PostgreSQL survive a
restart; the state of objects does not.

```
Yellowstone ─► GrpcClient ─► TransactionStreamer ──newToken, swap, liquidity──► index.ts handlers
                                                                                 │  │  │
              ShyftClient ◄── PoolMonitor ◄──────────── addPool ─────────────────┘  │  └► QueueManager ─► workers
                 │                └── poolUpdate ─► cache, liquidity_pools           │          ▲
              RateLimiter                                                            ▼          │
                 │                                              VolumeAggregator, repositories  │
               Redis ◄──────────────────────────────────────────────┘   │                       │
                                              PostgreSQL ◄──────────────┴──── TokenScheduler ───┘
```

| component | state | operations | what makes it hard | correct when |
|---|---|---|---|---|
| `RateLimiter` | a Redis sorted set per limiter | `checkLimit`, `getStatus`, `reset` | two round trips per check, concurrent callers, errors let calls through | no window holds more grants than the limit; the wait it tells is not in vain |
| `ShyftClient` | none of its own | `withRetry` around every REST call | retries, a denied attempt sleeps and then runs | each request has a check of its own, denials are honoured, calls end |
| `GrpcClient` | `isConnectedFlag`, `reconnectAttempt` | `connect`, `disconnect`, `subscribe`, `handleReconnect` | several subscriptions share one counter | attempts stay bounded |
| `TransactionStreamer` | `isRunning`, timers, `processedSignatures` | `start`, `stop`, `runSubscriptionLoop`, `handleUpdate` | timers that outlive `stop()`, a memory of bounded size | one loop per start, errors are retried, recent signatures are remembered |
| handlers of `index.ts` | the activities in flight | `on('newToken')`, `on('swap')`, `on('liquidity')`, `on('poolUpdate')` | duplicates, two stores written one after the other | one effect per signature, rows follow trades |
| `TokenScheduler` | rows of `monitored_tokens`, intervals | ticks, tier updates, add, remove | overlapping ticks, failure between queueing and stamping | no job is lost, few are extra, nobody starves |
| `PoolMonitor` | `monitoredPools`, cache, `liquidity_pools` | `addPool`, polls, refreshes, `start`, `stop` | overlapping polls, answers out of order | nothing is taken over in silence; it ends with the reserves of the chain |
| `VolumeAggregator` | a Redis sorted set per token | `recordTrade`, `getVolumeStats`, `cleanup` | two commands per trade, a time to live of the key, stale cutoffs | what the window holds is counted, and the rest leaves |
| `QueueManager`, workers | BullMQ queues in Redis | `addJob`, `process*`, `closeAllQueues` | jobs run again after a failure, an expired lock or a crash half way | no job is lost, a run appends its rows once |
| price services, `MarketCapCalculator` | a dozen keys in Redis | `getTokenPrice`, `getSolUsdRate`, `getMarketCap`, ... | caches built from caches, callers that compute side by side, sources tried one after the other | the age of an answer is bounded, no failure escapes or leaves a call waiting |
| `HolderScanner`, `HolderSnapshot` | two caches, snapshot rows | scan, analysis, snapshot | pages that move while they are read | few holders are missed or repeated, an analysis is not too old |
| repositories | PostgreSQL rows | upserts, inserts, queries | swallowed errors, COALESCE | an upsert does not lose what is stored |
| bootstrap, shutdown | flags, connections | `bootstrap`, `shutdown` | work in flight, a second signal, a signal during start-up | no job loses its connections, the process ends |
| HTTP API | the server | read-only handlers, `stopHealthApi` | a second close | |
| `NewTokenDetector`, `JupiterPriceClient`, `MockTransactionStreamer`, types, utilities, scripts | | not used by `bootstrap()` in production, or stateless | | |

`PROJECT.json` lists every component with its files and status, and under `hazards`
each line where something can go wrong that a test would hardly reach, with the
properties that watch it.

## 2. Modules and code

One module per component. Variables and actions carry the names of the source where
TLA+ allows it; each operator's source lines are under `map` in `PROJECT.json`. An
`await` is where an action ends: what the code does between two awaits is one step.
An operator whose comment begins with "Mutant:" is a plausible bug and is used by no
specification.

**`RateLimiter`** (`services/queue/RateLimiter.ts`, `config/redis.ts`). `requests` is
the sorted set; `check[c]` the call that caller `c` is inside. `CheckLimit` is the
`MULTI` (prune, count, add), one step because Redis runs it as one; `ReadOldest` is the
`ZRANGE` after it. `CheckError` and `OldestError` are the `catch` ("allow on error"),
`CheckThrows` is `getRedisClient()` throwing outside the `try`. `StatusPrune` and
`StatusCount` are the two commands of `getStatus`. `KeyExpires`, `RedisCloses`,
`Restart` and `Tick` are the surroundings. `granted` is history. A check is placed at
the time it read the clock, because Redis runs the commands of one connection in the
order in which they were sent.

**`ShyftClient`** (`services/external/ShyftClient.ts:96-157`) extends `RateLimiter` with
`withRetry`: its steps are the limiter's, taken inside a call. `call[c]` holds the stage, the attempt and the time of
the next wake-up. Denials, 429, 417 and other errors each go their own way, as in the
`catch`. `paid` is history: the checks that an
operation has gone ahead under, ever since the start.

**`SignatureMemory`** (`TransactionStreamer.ts:93-97, 269-285, 739-755`) is
`processedSignatures`: an insertion-ordered set with the counter of the periodic
cleanup. `age` (history) counts the acceptances since.

**`TransactionPipeline`** extends it with the handlers of `index.ts:243-351`. `Deliver`
is `handleUpdate` up to the emission; each emission makes `handler[e]`, which moves
through its awaits (`SolUsdRate`, `RecordTrade`, `LookupToken`, `InsertTransaction`,
or `UpsertToken`, `EnsureToken`, `AddTokenToMonitoring`, `QueueNewToken`). Every await
may fail, and a write may have been applied although it failed. `Restart` loses the
memory and the handlers.

**`TradeLedger`** is the abstract specification of the pipeline: each signature has one
credit; taking effect spends it; only losing the memory gives one back; a row is stored
only for what took effect. `KeepsLedger` is the refinement mapping: a signature's credit
is the number of its handlers that have not yet taken effect, plus one if it is not
remembered.

**`GrpcClient`** and **`TransactionStreamer`** (`GrpcClient.ts:94-148, 278-324`,
`TransactionStreamer.ts:111-181`). Every call of `subscribe()` is a member of
`Subscriptions` that is opening, streaming or sleeping in `handleReconnect`; all share
the client's flag and attempts. `startTimers` and `loopTimers` count the pending
`setTimeout`s, which `stop()` does not cancel.

**`MonitoredTokens`** and **`TokenScheduler`** (`TokenScheduler.ts:23-667`). The table
with its tiers, intervals, `WHERE`, `ORDER BY` and `LIMIT`; a tick is a member of
`Ticks` that goes through `runSchedulerTick`: two queries that are answered in either
order, jobs queued one by one in order of priority, one `UPDATE` of the time stamps,
the scans. A tick of the interval has a `catch`, the first tick of `start()` has none:
`Throws` ends the process there. Ages stand for time stamps, capped at `Horizon`,
beyond which every interval has passed.

**`PoolMonitor`** (`PoolMonitor.ts:159-214, 429-672`). One pool whose reserves are
versions, so that "older" means something. A reader is a poll, a refresh or an
`addPool()`; `Visit` reads `previousInfo` and asks Shyft; the answer is what the chain
had at some moment of the call; then come `Emit`, `CacheUpdate`, `SavePool` and `Store`,
with other readers in between.

**`VolumeAggregator`** (`VolumeAggregator.ts:46-97, 326-369`). The trades of one token as ages;
`entries` and `ttl` are its key. `ZAdd` and `Expire` are two commands, between which the
key may expire (`Tick`); `Expire` then does nothing and the trade counts as recorded, as in
the code. `overtaken` is history: the trades this happened to. A cleanup takes its cutoff in
`BeginCleanup` and uses it in `CleanKey` later.

**`PriceCaches`** (`PriceService.ts`, `ShyftPriceCalculator.ts`,
`OnchainPriceCalculator.ts`, `SolUsdOracle.ts`, `MarketCapCalculator.ts`). `cache[k]` is a
key of Redis; `frame[c][f]` the call of function `f` that caller `c` is inside, which goes
from `called` (`cache.get`: `Hit`, `Miss`, `LookFails`) through its questions to other
functions or services (`FetchPools`, `PriceInSol`, `SolUsdRate`, `FullPrice`, `FetchPyth`,
`Fallback`, `Rate`, `ShyftPrice`, `FindPools`, `OnchainPrice`, `FetchSupply`, `MarketCap`)
to `cache.set` (`Stored`, `StoreFails`). `Promise.all` is two frames at once; when it
rejects, the other one goes on. Data is abstracted to `born`, when its oldest part was
fetched: this is what the program's own time stamps do not say.

**`JobQueue`**, **`JobWorkers`** and **`Lifecycle`** (`QueueManager.ts`, `queue/workers/`,
the repositories they write to, `HolderSnapshot.ts:32-75`, `index.ts:33-152, 405-468`,
`config/`). `JobQueue` is what BullMQ, which is external, does with a job under the options
of `QueueManager.ts:98-111`: attempts, backoff, stalls. `JobWorkers` has the five processors,
one step per await; `run[j][s]` is one run of a job, and a job has several when a lock
expired under the first. `rows[j][n][t]` counts what a job appended to a table. The
repositories swallow the errors of statements, so that `Insert` goes on either way.
`Lifecycle` puts the process around them: `Start` and the awaits of `bootstrap()`, each of
which may fail; `phase[p]` is how far the `p`-th `shutdown()` is, since each signal starts
one beside those that are under way; `Crash`, `Exit` and `Start` again. `overtaken` is
history: start-up made workers while a shutdown had already passed them.

**`HolderScan`** (`HolderScanner.ts:63-365`, `ShyftClient.ts:214-265`). `ledger` is the
token's list of holders as the service returns it, `Move` one transfer that changes it;
`scan[c]` reads it page by page at growing offsets (`ReadPage`), or at once from the RPC node
when Shyft fails or has nothing (`ReadRpc`), through the caches of the list and of the
analysis. `moves` and `steady` are history: how often the list has moved since the scan
began, and who was in it all the time.

What the models share: wording, logging, sums and parsing are left out; a transaction,
token or pool is a model value with the few attributes the control depends on; the
clock is discrete.

## 3. Runs

| run | question | bounds |
|---|---|---|
| `limiter` | Does a window ever hold more grants than the limit, is the wait ever in vain? | 2 callers, 2 requests per 2 units, 5 units, 4 checks |
| `shyft` | Is a denial honoured, each operation paid for, does every call end; do the calls keep to the limiter? | 2 callers, 2 calls of 2 attempts, limit 1 per 2 units, backoff of 1 unit, Redis may fail |
| `pipeline` | Do duplicates, handlers, partial writes and restarts keep one effect per memory, rows after trades, and the ledger? | a creation, a swap, a failed swap of one mint; memory of 1, cleanup every 2; 4 emissions |
| `streamer` | Is there one loop per start; are errors retried; does it recover? | 3 starts, 2 attempts, 8 errors, 2 ends |
| `streamer_end` | Is a running streamer always served? (violated) | as above, 1 error, 1 end |
| `scheduler` | How many extra jobs come from overlapping ticks and faults; does each stamp follow a job of its tick? | 2 tokens, 2 ticks, a batch of 1, 1 fault or crash |
| `scheduler_live` | Does every due token get its scan? | a new and an active token, always due; 1 tick, a batch of 2 (1 for scans), 1 fault, 2 starts |
| `pools` | Does the monitor take over anything in silence; does it end right? | 2 readers, 2 changes, 1 failed call, 1 restart |
| `volume` | Is what the window holds counted, and does the rest leave? | 3 trades, window 2 of 3 ticks, 2 cleanups, 1 fault |
| `prices` | How old may the data behind a price or a market cap be; does any failure escape or block a call? | 2 callers; 3 calls in 2 ticks with 2 faults (market caps) or 1 (prices); 5 calls of prices in 9 ticks; the pools live 2 ticks, three other keys 1, the rest none |
| `workers` | What may jobs leave behind when they fail, stall or die; do they and the shutdowns end, in the right order? | 1 job of each kind, 2 attempts, a batch of 2, 2 faults, up to 2 signals |
| `holders` | What does a scan of a moving list miss or repeat; how old is an analysis? | 5 wallets, 2 pages of 2, 3 moves; or 2 callers, 3 calls, 5 ticks; 2 faults |

### Why the bounds are enough

- *limiter*: a wait can be wrong only if another caller prunes or adds between the count
  and the read, which takes two callers; a window overflows at its edge, which takes one
  check more than twice the limit allows and a clock that passes two windows.
- *shyft*: the second attempt is at once "an attempt is left" of the first and the last
  one. `MaxTime` is beyond the last instant any call of that instance can sleep to, so
  the end of the clock never hides a call that does not end; the same goes for
  `MaxChecks` and the checks of two calls. The window is longer than the first
  backoff, so that a retry comes while the operation before it still counts; `paid` never
  forgets, so that `EveryOperationPaid` compares each operation with all before it.
- *pipeline*: a memory of one with a cleanup on every second insertion has every phase of
  the real one (10,000 and 1,000): below its size, above it, cut back. Two handlers of
  the same signature need it to be forgotten in between, which three signatures and four
  emissions allow; the mint is shared so that a creation and a swap meet.
- *streamer*: eight errors exhaust two attempts more than twice over; three starts give a
  stop and a start while timers of the first are pending, and once more.
- *scheduler*: two ticks are enough for each to select what the other has not yet
  written, and to tell the tick that queued a token from the one that stamps its row. The
  intervals keep the order and the ties of the code's (`MCPriceInterval`).
- *scheduler_live*: what could starve a token is another one that comes first each time. Both
  tokens are due at every tick (`AlwaysDue`), which is the most demand there can be, and
  there is one place. The new token comes first by its class while it is new. If an update
  of the tiers raises its priority to 5 meanwhile, it comes first by that after it has aged,
  until the next update gives it the 3 of its tier; then the oldest scan decides. A tier update that never lowers a
  priority (`UpdateTiersRaising`) starves the other token, and the run shows it. Rows are made
  and deleted twice, and the process starts twice, so that a tick that throws unhandled is
  followed by a new process. Both tokens end in the tier `ACTIVE`: older tiers are of the
  same class for scans and differ in their priority only.
- *pools*: an older answer overtakes a newer one with two readers; the second change
  makes a difference between "changed" and "changed back to what is cached".
- *volume*: the third trade comes while one is in the window and one has left it; the
  second cleanup overtakes the first. The key of one trade expires between the commands of
  another.
- *prices*: what a behaviour may use up is part of the roster (`MCRosters`). Two short ones
  have the failures: market caps with two faults, so that the first source of a price may
  fail and the second one too, and prices beside the SOL/USD rate with one. Three calls let
  one caller read what the other one stored; a key with a time to live of zero is one that
  Redis evicts at once, so that every path of misses is taken. The third has a clock that
  runs past every bound: `poolsUsdc`, `solUsd` and `full` feed one another on the way to the
  price and live 2, 1 and 1 ticks, the pools longest as in the code, so that the rate is made
  anew from pools that are not. With a latency of one the bounds of the three and of the
  price are 3, 5, 7 and 8 ticks, and the clock goes on to 9. Data gets as old as 3, 4 and 5
  ticks in the three keys before they expire, and a price rests on data of 4: a discrete
  clock and one latency for a whole call keep the chain from its sum, so that the sums are
  upper bounds and only the first is met. A key that renews its time to live when it is read
  (`HitRenewing`), or has none (`EntryForGood`), breaks them within this clock. The theorems
  below hold for all times to live, any number of failures at any time, and every chain, the
  oracle's fallback included.
- *workers*: a job of two attempts has a first one that is retried and a last one; two
  faults are a failure and a crash, or an expired lock and the failure of the second run; a
  batch of two has a mint before and one after the failure. Two signals are the second
  shutdown beside the first; they are combined with the shortest processor, and the longest
  one (a batch of prices) runs without a signal: processors differ in their awaits, not in
  how the shutdown waits for them. Jobs do not interact but through the shutdown that waits
  for all, so one at a time is enough.
- *holders*: with a limit of four of five wallets the scan can end by the limit, by a page
  that is not full, and by an empty one; three moves are more than one per page boundary.

Counters are part of the state where they bound a behaviour (`MaxErrors`, `MaxFaults`,
...), so that a run that has used them up goes on without errors: this is what lets
`Recovers` say "when the errors are over". `CHECK_DEADLOCK FALSE` stands where these
bounds (or the end of the calls) really stop the instance; in `scheduler*` and `volume`
there is always a next step and deadlock is checked. `prices` checks instead
(`NobodyIsStuck`) that whoever is inside a call can go on.

### Fairness

Weak fairness only, and only of what the surroundings do: timers and intervals fire
(`LoopTimer`, `StartTimer`, `Interval`, `FiveMinutes`, `BeginCleanup`), a call that was
sent is answered or fails (`Progress`, `Continue`, `TickStep`, `CleanKey`, `Opened`, `Process`, `Finish`,
`ShutdownStep`), BullMQ hands out waiting, delayed and stalled jobs (`WorkerStep`),
the clock goes on, and in `scheduler_live` and `workers` an operator starts a process that
is down (weak fairness of `Start`; `docker-compose` states no restart policy). In
`scheduler_live` a shutdown that has begun ends with the exit (weak fairness of `Exit` while
`stopping`), which `ShutdownEnds` of `workers` shows of the shutdown itself. The properties of
`prices` and `holders` are safety. Nothing is assumed of users, of
the server ending streams, of errors, of deliveries, of `addPool()` or of the expiry of
keys.

### What the properties say

- `SlidingWindow`, `ResetInSound`: no window grants more than `maxRequests` by counting,
  and a denied caller who waits `resetIn` outlives an entry it was denied for, even
  though that entry is read in a second round trip.
- `DenialHonoured`, `EveryOperationPaid`, `CallsSettle`, `LimiterSpec`: the same
  guarantee seen by `withRetry`; no operation, a retry included, goes ahead under a check
  that another one went ahead under; calls end; and what the calls do to the limiter is a
  behaviour of `RateLimiter`, so its theorems hold of them.
- `OncePerMemory`: a signature takes effect at most once more than it was forgotten.
  `RowHasTrade`: no row without its trade in Redis (it says nothing of a trade without its
  row, which a swap that overtakes the creation of its token leaves, `index.ts:325`).
  `RecentRemembered` and `MemoryBounded`: the two sides of the cleanup. `KeepsLedger`: the refinement.
- `LoopsBounded`: subscription loops never multiply. `ErrorsAreRetried`: as long as the
  server ends no stream, a running streamer has a subscription or a timer. `Recovers`:
  and receives transactions again.
- `ExtraJobsBounded`: while a token's price is fresh it has fewer extra jobs than there
  are ticks. `StampsFollowJobs`: no row says it was updated without a job of the very tick
  whose `UPDATE` wrote it. `HoldersUpdated`: a due token is scanned in the end, whatever comes
  before it and although a process stops and another one starts; only a process that is not
  started again excuses it. It speaks of finitely many tokens: new ones that came for ever,
  faster than they are scanned, might keep the others waiting.
- `HeldIsReported`: what is kept, cached or saved was in an event. `Settles`: once the
  reserves stay, the monitor has them in memory, whatever came late; of the cache and the row
  it says nothing, nor `HeldIsReported` of what `addPool()` stores.
- `TradesStayCounted`: neither the time to live nor a stale cutoff removes a trade the
  window still counts, with one exception: a trade whose key expired between its `ZADD` and
  its `EXPIRE` (a finding, below). `OldTradesLeave`: even a trade whose `EXPIRE` failed leaves.

- `StoredBounded`, `AnswersBounded`: the age of what is stored under a key, and of what a
  caller is given, is at most the sum of the times to live and latencies on the longest way
  to it. With the times to live of the code a market cap may rest on data 510 s old although
  it is stamped with the time of the call. `FailuresAreContained`: once there is a
  rate, no failure of a source or of a cache write escapes `getTokenPrice`. `NobodyIsStuck`.
- `RowsBounded`: a job appends to a table once, and once more for each stall, since no
  processor throws after its first row. `FailedLeavesNothing`: a job given up without a
  stall wrote nothing. `StoresOutliveJobs`, `GracefulExit`: no processor runs without its
  connections, nor when a shutdown ends without an error, unless that shutdown was overtaken
  by the start-up. `ShutdownEnds`, `JobsSettle`: shutdowns do not wait for each other for
  good, and what was queued is completed or given up, across restarts.
- `MissesBounded`, `RepeatsBounded`: a scan misses, and repeats, no more wallets than the
  list moved while it was read. `AgeBounded`: a cached analysis is no older than the two
  caches and two latencies.

`TypeOK` of each module is its type invariant; several relate variables (a tick holds
only rows it selected, a key that is gone has no time to live). The runs of `ShyftClient`,
`PriceCaches`, `Lifecycle` and `HolderScan` spend their time on the other properties and do
not list it; theirs (`ClientTypeOK` in `ShyftClient`) are proved below.

Every property is broken by a mutant of a mapped definition (`mutants` in
`PROJECT.json`), under the run's own configuration.

## 4. Proofs

TLAPS checks the theorems below for every value of the constants that satisfies the named
assumptions of the modules. Most of these say no more than that a constant is a natural
number or a finite set, or that the workloads name kinds of jobs (`ClientAssumption`,
`MemoryAssumption`, `PipelineAssumption`, `StreamerAssumption`, `PoolAssumption`,
`TableAssumption`, `SchedulerAssumption`, `PriceAssumption`, `JobQueueAssumption`,
`JobWorkersAssumption`, `LifecycleAssumption`, `HolderScanAssumption`). Three carry a fact
of the code:

- `LimiterAssumption`: the time to live of the limiter's key is at least its window
  (`RateLimiter.ts:73` rounds up and adds a second).
- `WindowAssumption`: `maxTradeAge` is longer than the window (`VolumeAggregator.ts:52-57`).
- `IntervalAssumption`: no tier is updated more often than `NEW` (`TokenScheduler.ts:23-56`).
  `ExtraJobsBounded` needs it: a tier with a shorter interval could select a token that is
  still fresh. TLC evaluates it on the runs, as it does the other assumptions.

| module | theorem | argument |
|---|---|---|
| `ShyftClient_proofs` | `LimiterTypeCorrect` | inductive as it stands |
| | `LimiterIsSafe`: `[]SlidingWindow` | the number of grants alone is not inductive: a check is granted by the size of the set, not of the grants. `GrantsRecorded` adds that every grant of the window is an entry of the set; then a count below the limit leaves room for one more (`OneMoreFits`) |
| | `WaitingIsNeverInVain`: `[]ResetInSound` | `CountedStable`: whatever was added since has a score not below the members that were counted, so the oldest entry read later is not older than the oldest counted one unless that one has left |
| | `ClientKeepsToLimiter`: `LimiterSpec` | refinement: each step of the client is a step of the limiter or leaves it alone, so what was proved of the limiter holds inside the client |
| | `DenialsAreHonoured` | `WaitsLongEnough`: a denied caller sleeps beyond the time at which one of the entries it counted leaves the window; that entry comes from `ResetInSound`, taken over from the limiter |
| | `OperationsArePaid` | `ChecksBelong`: a call of the limiter belongs to the caller that is checking; `TicketsFresh`: the checks that callers hold, inside the limiter or asleep after a denial, are all different and none has paid yet |
| | `ClientTypeCorrect` | part of the same invariant (`ClientInv`) |
| `TransactionPipeline_proofs` | `RecentAreRemembered`, `MemoryIsBounded`, `MemoryTypeCorrect` | of the memory by itself. `RecentAtTheEnd`: the order of insertion is the order of age; `CountedExcess`: what is above `MaxProcessed` is at most the cleanup counter |
| | `PipelineRemembers` | the same two facts inside the pipeline, where a restart empties the memory |
| | `EffectsOncePerMemory` | `Accounted`: effects plus credit never exceed one plus the times forgotten; the credit is the number of handlers that may still take effect, which makes the sum inductive |
| | `RowsFollowTrades` | `RecordedBeforeRow`: a handler past its trade has recorded it |
| | `PipelineKeepsLedger` | refinement of `TradeLedger`: one lemma per action, each a step of the ledger or a stutter |
| | `TypeCorrect` | the types of the handlers beside those of the memory |
| | of `TransactionStreamer`: `LoopsAreBounded`, `FailuresAreRetried`, `StreamTypeCorrect` | how the set of loops changes by one member, and its cardinality with it (`LoopAdded`, `LoopKept`, `LoopRemoved`) |
| `TokenScheduler_proofs` | `ExtraJobsAreBounded` | the jobs since the stamp alone are not inductive: a tick queues what it selected earlier. `Spared` counts the ticks that still hold the token beside them: together fewer than the ticks. A token that is fresh is selected by none, and the tick that stamps it holds it no more |
| | `StampsHaveJobs`: `StampsFollowJobs` | `TicksOrderly`: what a tick selected is queued or still to be queued, and at the `UPDATE` nothing is left to queue; the tick named is the one that takes the step, whatever the others have queued |
| | `TypeCorrect` | needs `TicksOrderly` for what a tick may hold at each stage |
| `PoolMonitor_proofs` | `NothingIsTakenOverInSilence`, `TypeCorrect` | `CarriedIsTold`: what a reader carries past its emission was emitted, and `previousInfo` was held, hence told |
| `VolumeAggregator_proofs` | `RecordedTradesAreCounted`, `TypeCorrect` | `KeyOutlives`: the key lives at least as long as any of its recorded trades is in the window, and a trade between its two commands is in the set unless it was overtaken. With the exception of `TradesStayCounted`, so that this gap is the only one |
| `PriceCaches_proofs` | `StoredDataIsBounded`, `AnswersAreBounded` | `Holdings`: what a function is about to store was at most `Source(f)` old when it was called; `Clock`: a call lasts at most `MaxLatency`; `Rates`: the same of the SOL/USD rate `getTokenPrice` holds while it tries its sources. A store then adds one time to live and one latency, which is what `Bound` adds to `Source` (`BoundIsSource`) |
| | `FailuresStayInside`: `FailuresAreContained` | a step of another function never puts the frame of `getTokenPrice` at `threw` (`OthersContain`); of its own steps only the look into the cache and the rate of the pools do (`OwnContains`) |
| | `SomebodyGoesOn`: `[]SomebodyCanGoOn` | `Asked`: what a function waits for (`Awaited`) was asked for and has not been dropped. The two functions that ask for the same rate could drop it for each other; they never run side by side (`SharedFunctions`), as `full` is only pending while `unified` waits for it. Then somebody can go on: from the functions that ask nobody up to `cap`, each has ended if those it asks have (`SomebodyIsReady`) |
| | `GoingOnIsAStep` | `GoOn(c, f)` gives every variable its next value and needs no more than `CanGoOn(c, f)`; case by case of where `f` is and what it was answered, it is one of the steps of the code. With `SomebodyGoesOn` this says what `NobodyIsStuck` says |
| | `TypeCorrect` | `Typed` and `Cached` of the same invariant, and that a step fails at most once (`StepFailsOnce`) |
| `Lifecycle_proofs` | `RowsAreBounded`, `FailedLeaveNothing` | the rows alone say nothing of the runs under way. `Counted`: for each mint and table, the rows, the runs that may still append one, and the run a waiting job is owed are together at most one plus the stalls. A processor that throws has written nothing, so that its run stays counted, and `LocksHeld` makes it the one whose failure decides about the job |
| | `StoresOutlive`, `ExitIsGraceful` | `Guarded`: unless start-up overtook a shutdown, a process without workers has no run, one with workers has its connections, and a shutdown past its workers means there are none; it rests on `Connected` (before any shutdown has come that far, the start-up has what it opened) and `Booting` (workers are made last). Both hold for any number of shutdowns side by side |
| | `TypeCorrect` | with `OneMint` and `LocksHeld`, which bound the attempts and stalls |
| `HolderScan_proofs` | `MissesAreBounded`, `RepeatsAreBounded` | both counts are of what was read in the end; in the middle of a scan `Missed` counts the wallets that were there all the time and stand at a place the scan has passed without being read, `Again` the repetitions so far and the wallets read that stand ahead. One transfer takes a wallet out of the list and puts it elsewhere, which shifts places by one and makes each count larger by one at most (`RemovedPlaces`, `InsertedPlaces`, `MovedPlaces`); a page leaves both as they are (`PageRead`). A scan that ends with a short page has passed all places; one that ends at the limit has missed no more than it has repeated wallets |
| | `AgesAreBounded` | `Timely`, `Fresh`: a call began at most `MaxLatency` ago, what it reads from the network is born after that, and what it finds in a cache had not expired when it began or later |
| | `TypeCorrect` | moving a wallet within a list without repetitions leaves none |

Each inductive invariant is proved action by action: one lemma or step per action, one
leaf per conjunct the action can disturb. The strengthening was checked with TLC on the
instances of the runs before it was proved.

Only model-checked:

- everything about fairness (`CallsSettle`, `Recovers`, `HoldersUpdated`, `Settles`,
  `OldTradesLeave`, `ShutdownEnds`, `JobsSettle`): beyond the prover;
- `NobodyIsStuck` as it is stated, since the prover knows nothing of `ENABLED`;
  `SomebodyGoesOn` and `GoingOnIsAStep` are its two halves in other words;
- `RunningIsServed`, which is false.

## 5. Findings

Shown by a run:

- `streamer_end`: when the server ends a stream without an error, `subscribe()` resolves
  and nothing subscribes again, while `isRunning` stays true
  (`TransactionStreamer.ts:150-168`); `docs/PRD.md:106` promises automatic reconnection.

Seen while modelling, without a run of their own:

- When a token has had no trade for 25 hours, its key may expire after the `ZADD` of a new
  trade and before the `EXPIRE`, with the new trade in it. `EXPIRE` finds no key, nobody looks
  at its answer, and `recordTrade()` logs "Trade recorded" (`VolumeAggregator.ts:76-85`) for a
  trade that no window counts; the comment at line 79 says "25 hours to be safe". The model
  takes this step (`Tick`, `overtaken`) and `TradesStayCounted` excepts just these trades: the
  invariant without the exception is violated. One `MULTI` of both commands would close the
  gap.
- A denied attempt sleeps `resetIn + 100` ms and runs without asking again
  (`ShyftClient.ts:106-114`). Its own entry was added when it was denied and is old by
  then, so that one sequential caller exceeds what `RateLimiter.ts:27` calls "100 requests
  per minute".
- `stop()` ends no stream and does not reach a subscription that is being opened or sleeps
  in `handleReconnect`: it streams after `stop()` has returned
  (`TransactionStreamer.ts:172`, `GrpcClient.ts:140`).
- Overlapping polls save answers of different age in either order; the older reserves may
  stay in the database for good (`PoolMonitor.ts:577`).
- A signal that comes while `bootstrap()` still connects is overtaken: `shutdown()` closes
  what there is, `bootstrap()` goes on and makes workers that nobody closes, whose
  connections are closed under them (`index.ts:33-60, 405-438`). `StoresOutliveJobs` and
  `GracefulExit` exclude just this case (`overtaken`).
- The repositories swallow failed statements, so that a holder scan completes with nothing
  in the database and is never tried again (`HolderScanWorker.ts:19` says "persists to
  database").
- The cleanup job is queued with 30 days for every table (`TokenScheduler.ts:501`), which
  overrides the 90 days of `CleanupWorker.ts:21`; `deleteOldMarketCaps` has no caller.
- `api/data.ts`: `/tokens/:mint` (26) is registered before `/tokens/recent` (55) and
  `/tokens/search` (72), which are never reached.
- `VolumeRepository.getTopByVolume` ignores its `hours` (165); `HolderRepository.getTopHolders`
  (206) also returns wallets that are no longer among the holders, at their old ranks;
  `HolderSnapshot.compareWithPrevious` parses JSONB that is parsed already (151, 155) and so
  always answers null.
- The RPC fallback of the holder scan lists accounts where Shyft lists owners
  (`HolderScanner.ts:225-311`).

## 6. What is not modelled

- The parsers of instructions, balances and accounts, the arithmetic of prices, supplies,
  shares and volumes: pure functions of what the modelled steps read.
- `waitForLimit` and `execute` of the limiter, `recordTrades`, `removePool`, the list
  `pools:active`, pausing and draining of queues, `NewTokenDetector`,
  `JupiterPriceClient`: nothing in the program calls or reads them.
- The read-only handlers of the HTTP API, the mock streamer, configuration, logging,
  migration and seeding.
- Two processes at once: the deployment has one.
- Memory and time: nothing bounds the latency of a request, so that `MaxLatency` is a
  parameter of the bounds on age and not a fact about the code.
- The parts of the plan below that are still to come.

## 7. Plan

The order was: what every request goes through (limiter, client); the path of a
transaction (memory, pipeline, ledger, stream); the scheduler; pools; volumes; then the
caches of prices, jobs and the life of the process, and the holder scan. Next:

1. The five-minute schedule of volume jobs, whose batch leaves out tokens that it says are
   all included (`TokenScheduler.ts:356-366`), within `TokenScheduler`.
2. The modes of `PoolMonitor`: the stream, the debounced resubscription, polling started
   twice (`PoolMonitor.ts:103, 239`).
3. Rows of `tokens` by column, and the age of the rows that a cleanup deletes.

## 8. How to run

```
tlasany M.tla                                  # parse
tlc -workers 2 -config RateLimiter.cfg MCRateLimiter
tlapm ShyftClient_proofs.tla
```

Each `.cfg` belongs to the `MC` module of the same component (`PROJECT.json`, `runs`).
The modules use the TLA+ community modules and the library of TLAPS.
