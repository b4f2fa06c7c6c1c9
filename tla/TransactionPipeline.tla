------------------------ MODULE TransactionPipeline ------------------------
(***************************************************************************)
(* From a delivered transaction to its effects: TransactionStreamer emits  *)
(* an event once per signature it does not remember, and the handlers of   *)
(* index.ts, which nobody awaits, record the trade in Redis and the row in *)
(* PostgreSQL, or create the token and queue its first job.                *)
(*                                                                         *)
(* Each emission runs its handler as an activity of its own, between the   *)
(* awaits of every other one.  Each await may fail; a write may also fail  *)
(* after it was applied, when only its reply was lost.  Redis and          *)
(* PostgreSQL survive a restart of the process; the memory of signatures   *)
(* and the handlers in flight do not.                                      *)
(***************************************************************************)
EXTENDS SignatureMemory, FiniteSets

CONSTANTS
    Mints,          \* token mints
    NoSignature,    \* of a handler that was not started
    Tx,             \* Tx[s]: what parseTransaction makes of s
    MaxEmissions    \* bound: how many events a behaviour emits

Kinds == {"create", "swap", "other"}

ASSUME PipelineAssumption ==
    /\ Tx \in [Signatures -> [kind : Kinds, mint : Mints, success : BOOLEAN]]
    /\ NoSignature \notin Signatures
    /\ MaxEmissions \in Nat

VARIABLES
    emissions,      \* how many events were emitted
    handler,        \* handler[e]: the activity started by the e-th emission
    tokens,         \* PostgreSQL: mints with a row in tokens
    monitored,      \* PostgreSQL: mints with a row in monitored_tokens
    transactions,   \* PostgreSQL: signatures with a row in transactions
    trades,         \* Redis: trades[s], members recorded for s
    jobs,           \* Redis: jobs[s], "new-token" jobs queued for s
    forgotten       \* history: forgotten[s], how often the memory lost s

storeVars == <<tokens, monitored, transactions, trades, jobs>>
vars == <<memoryVars, emissions, handler, storeVars, forgotten>>

(***************************************************************************)
(* A handler: the signature it works on and the await it has reached.      *)
(***************************************************************************)
Emissions == 1..MaxEmissions

SwapStages == {"rate", "trade", "lookup", "insert"}
CreateStages == {"upsert", "ensure", "monitor", "queue"}
Stages == SwapStages \cup CreateStages \cup {"done"}

Idle == [signature |-> NoSignature, stage |-> "done"]

\* Mutant: a failed swap is counted as well.
FirstStageUnfiltered(s) ==
    CASE Tx[s].kind = "create" -> "upsert"
      [] Tx[s].kind = "swap" -> "rate"
      [] OTHER -> "done"

\* Where the handler of s starts: "if (!tx.tokenMint || !tx.success) return"
\* for a swap; creations are not filtered.
FirstStage(s) ==
    CASE Tx[s].kind = "create" -> "upsert"
      [] Tx[s].kind = "swap" /\ Tx[s].success -> "rate"
      [] OTHER -> "done"

MintOf(e) == Tx[handler[e].signature].mint

Goto(e, stage) == handler' = [handler EXCEPT ![e].stage = stage]

-----------------------------------------------------------------------------
Init ==
    /\ MemoryInit
    /\ emissions = 0
    /\ handler = [e \in Emissions |-> Idle]
    /\ tokens = {}
    /\ monitored = {}
    /\ transactions = {}
    /\ trades = [s \in Signatures |-> 0]
    /\ jobs = [s \in Signatures |-> 0]
    /\ forgotten = [s \in Signatures |-> 0]

\* Whoever was remembered, or is accepted now, and is not remembered
\* afterwards.
ForgottenAfter(candidates) ==
    [s \in Signatures |->
        IF s \in candidates /\ s \notin Remembered'
        THEN forgotten[s] + 1 ELSE forgotten[s]]

\* Mutant: the signature is only remembered if its handler has nothing to
\* await.
DeliverUnmarked(s) ==
    /\ emissions < MaxEmissions
    /\ s \notin Remembered
    /\ IF FirstStage(s) = "done" THEN Accept(s) ELSE UNCHANGED memoryVars
    /\ emissions' = emissions + 1
    /\ handler' = [handler EXCEPT ![emissions + 1] =
                      [signature |-> s, stage |-> FirstStage(s)]]
    /\ UNCHANGED <<storeVars, forgotten>>

\* Mutant: the event overwrites the handler of the event before it.
DeliverOverwriting(s) ==
    /\ emissions < MaxEmissions
    /\ Accept(s)
    /\ emissions' = emissions + 1
    /\ handler' = [handler EXCEPT ![emissions] =
                      [signature |-> s, stage |-> FirstStage(s)]]
    /\ forgotten' = ForgottenAfter(Remembered \cup {s})
    /\ UNCHANGED storeVars

\* handleUpdate: a signature that is not remembered is marked before its
\* event is emitted, and the handler of index.ts runs up to its first await.
Deliver(s) ==
    /\ emissions < MaxEmissions
    /\ Accept(s)
    /\ emissions' = emissions + 1
    /\ handler' = [handler EXCEPT ![emissions + 1] =
                      [signature |-> s, stage |-> FirstStage(s)]]
    /\ forgotten' = ForgottenAfter(Remembered \cup {s})
    /\ UNCHANGED storeVars

\* handleUpdate: a signature that is remembered is dropped.
DeliverAgain(s) ==
    /\ Skip(s)
    /\ UNCHANGED <<emissions, handler, storeVars, forgotten>>

(***************************************************************************)
(* on('swap').                                                             *)
(***************************************************************************)
\* getSolUsdRate: a rate, or an exception that the handler's catch logs.
SolUsdRate(e) ==
    /\ handler[e].stage = "rate"
    /\ Goto(e, "trade") \/ Goto(e, "done")
    /\ UNCHANGED <<memoryVars, emissions, storeVars, forgotten>>

\* Mutant: the row is stored although the trade was not recorded.
RecordTradeSwallowing(e) ==
    /\ handler[e].stage = "trade"
    /\ LET s == handler[e].signature
       IN  \/ /\ trades' = [trades EXCEPT ![s] = @ + 1]
              /\ Goto(e, "lookup")
           \/ /\ UNCHANGED trades
              /\ Goto(e, "lookup")
    /\ UNCHANGED <<memoryVars, emissions, tokens, monitored, transactions,
                   jobs, forgotten>>

\* Mutant: recordTrade is retried after an error whose write was applied.
RecordTradeRetrying(e) ==
    /\ handler[e].stage = "trade"
    /\ LET s == handler[e].signature
       IN  \/ /\ trades' = [trades EXCEPT ![s] = @ + 1]
              /\ Goto(e, "lookup") \/ Goto(e, "trade")
           \/ /\ UNCHANGED trades
              /\ Goto(e, "done")
    /\ UNCHANGED <<memoryVars, emissions, tokens, monitored, transactions,
                   jobs, forgotten>>

\* recordTrade: ZADD, then EXPIRE.  It throws when either fails, and then
\* the trade may be recorded although the handler goes no further.
RecordTrade(e) ==
    /\ handler[e].stage = "trade"
    /\ LET s == handler[e].signature
       IN  \/ /\ trades' = [trades EXCEPT ![s] = @ + 1]
              /\ Goto(e, "lookup") \/ Goto(e, "done")
           \/ /\ UNCHANGED trades
              /\ Goto(e, "done")
    /\ UNCHANGED <<memoryVars, emissions, tokens, monitored, transactions,
                   jobs, forgotten>>

\* getTokenIdByMint: null when there is no row, and on a database error.
LookupToken(e) ==
    /\ handler[e].stage = "lookup"
    /\ \/ MintOf(e) \in tokens /\ Goto(e, "insert")
       \/ Goto(e, "done")
    /\ UNCHANGED <<memoryVars, emissions, storeVars, forgotten>>

\* insertTransaction: ON CONFLICT (signature) DO NOTHING; an error is logged.
InsertTransaction(e) ==
    /\ handler[e].stage = "insert"
    /\ \/ transactions' = transactions \cup {handler[e].signature}
       \/ UNCHANGED transactions
    /\ Goto(e, "done")
    /\ UNCHANGED <<memoryVars, emissions, tokens, monitored, trades, jobs,
                   forgotten>>

(***************************************************************************)
(* on('newToken').                                                         *)
(***************************************************************************)
\* upsertToken: null on an error, which skips the monitoring but not the job.
UpsertToken(e) ==
    /\ handler[e].stage = "upsert"
    /\ \/ tokens' = tokens \cup {MintOf(e)} /\ Goto(e, "ensure")
       \/ tokens' = tokens \cup {MintOf(e)} /\ Goto(e, "queue")
       \/ UNCHANGED tokens /\ Goto(e, "queue")
    /\ UNCHANGED <<memoryVars, emissions, monitored, transactions, trades, jobs,
                   forgotten>>

\* addTokenToMonitoring: first the token, once more ...
EnsureToken(e) ==
    /\ handler[e].stage = "ensure"
    /\ \/ tokens' = tokens \cup {MintOf(e)} /\ Goto(e, "monitor")
       \/ tokens' = tokens \cup {MintOf(e)} /\ Goto(e, "queue")
       \/ UNCHANGED tokens /\ Goto(e, "queue")
    /\ UNCHANGED <<memoryVars, emissions, monitored, transactions, trades, jobs,
                   forgotten>>

\* ... then its schedule; the handler ignores the Boolean it returns.
AddTokenToMonitoring(e) ==
    /\ handler[e].stage = "monitor"
    /\ \/ monitored' = monitored \cup {MintOf(e)}
       \/ UNCHANGED monitored
    /\ Goto(e, "queue")
    /\ UNCHANGED <<memoryVars, emissions, tokens, transactions, trades, jobs,
                   forgotten>>

\* Mutant: a failed queue.add is tried again.
QueueNewTokenRetrying(e) ==
    /\ handler[e].stage = "queue"
    /\ LET s == handler[e].signature
       IN  \/ jobs' = [jobs EXCEPT ![s] = @ + 1] /\ (Goto(e, "done") \/ Goto(e, "queue"))
           \/ UNCHANGED jobs /\ Goto(e, "queue")
    /\ UNCHANGED <<memoryVars, emissions, tokens, monitored, transactions,
                   trades, forgotten>>

\* addJob(TOKEN_UPDATE, 'new-token').  When it throws the handler is over;
\* otherwise it goes on to PoolMonitor.addPoolsByToken, which never throws
\* and touches nothing of this module.
QueueNewToken(e) ==
    /\ handler[e].stage = "queue"
    /\ LET s == handler[e].signature
       IN  \/ jobs' = [jobs EXCEPT ![s] = @ + 1]
           \/ UNCHANGED jobs
    /\ Goto(e, "done")
    /\ UNCHANGED <<memoryVars, emissions, tokens, monitored, transactions,
                   trades, forgotten>>

\* The process dies and starts again.
Restart ==
    /\ ForgetAll
    /\ handler' = [e \in Emissions |->
                      [signature |-> handler[e].signature, stage |-> "done"]]
    /\ forgotten' = ForgottenAfter(Remembered)
    /\ UNCHANGED <<emissions, storeVars>>

SwapStep(e) ==
    SolUsdRate(e) \/ RecordTrade(e) \/ LookupToken(e) \/ InsertTransaction(e)

CreateStep(e) ==
    UpsertToken(e) \/ EnsureToken(e) \/ AddTokenToMonitoring(e) \/ QueueNewToken(e)

Next ==
    \/ \E s \in Signatures : Deliver(s) \/ DeliverAgain(s)
    \/ \E e \in Emissions : SwapStep(e) \/ CreateStep(e)
    \/ Restart

Spec == Init /\ [][Next]_vars

-----------------------------------------------------------------------------
\* The types of the handlers and the stores: emissions and handlers go
\* together, one handler for each event that was emitted (index.ts:243-351).
PipelineTypeOK ==
    /\ emissions \in 0..MaxEmissions
    /\ handler \in [Emissions -> [signature : Signatures \cup {NoSignature},
                                  stage : Stages]]
    /\ \A e \in Emissions :
          IF e <= emissions THEN handler[e].signature \in Signatures
                            ELSE handler[e] = Idle
    /\ tokens \in SUBSET Mints
    /\ monitored \in SUBSET Mints
    /\ transactions \in SUBSET Signatures
    /\ trades \in [Signatures -> Nat]
    /\ jobs \in [Signatures -> Nat]
    /\ forgotten \in [Signatures -> Nat]

\* Every variable has its type.
TypeOK == MemoryTypeOK /\ PipelineTypeOK

\* A trade recorded, or a job queued: what a signature is emitted for.
Effects(s) == trades[s] + jobs[s]

\* One delivery, one effect, as long as the signature is remembered: however
\* deliveries, duplicates, handlers, failures with and without effect and
\* restarts interleave, a signature is counted in the volume, or queued, at
\* most once more than the memory lost it (TransactionStreamer.ts:269-288,
\* index.ts:243-351).
OncePerMemory == \A s \in Signatures : Effects(s) <= 1 + forgotten[s]

\* The two stores agree in one direction: a row of transactions is only
\* written after its trade is in the volume of Redis, across failures of
\* either and restarts between the two writes (index.ts:322-340).
RowHasTrade == \A s \in transactions : trades[s] > 0

(***************************************************************************)
(* The ledger this implements.  A signature that is not remembered has a   *)
(* credit, and so has each handler that has not yet taken effect.          *)
(***************************************************************************)
BeforeEffect == {"rate", "trade"} \cup CreateStages

Pending(s) == {e \in Emissions : handler[e].signature = s
                                 /\ handler[e].stage \in BeforeEffect}

Credit(s) == Cardinality(Pending(s)) + (IF s \in Remembered THEN 0 ELSE 1)

Ledger == INSTANCE TradeLedger WITH
    credit <- [s \in Signatures |-> Credit(s)],
    effects <- [s \in Signatures |-> Effects(s)],
    stored <- transactions

\* The pipeline keeps the ledger: every step of it is a step of TradeLedger
\* or changes nothing there (index.ts:243-351, TransactionStreamer.ts:260-312).
KeepsLedger == Ledger!LedgerSpec

=============================================================================
