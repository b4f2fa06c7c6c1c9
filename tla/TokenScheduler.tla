--------------------------- MODULE TokenScheduler ---------------------------
(***************************************************************************)
(* TokenScheduler.ts: every ten seconds a tick selects the tokens that are *)
(* due for a price and those due for a holder scan, queues jobs for them,  *)
(* and then writes to their rows that they were updated.                   *)
(*                                                                         *)
(* Nothing keeps a tick from starting while an earlier one waits for the   *)
(* database or for the queue, so several are under way at a time, each     *)
(* with the rows it selected.  Whatever a tick has not done is lost when   *)
(* the process exits.                                                      *)
(***************************************************************************)
EXTENDS MonitoredTokens

CONSTANTS
    Ticks,          \* the ticks that may be under way at a time
    batchSize,
    MaxTierUpdates, \* bound: calls of updateTokenTiers() under way
    MaxStarts,      \* bound: how often the process is started
    MaxAdds,        \* bound: calls that add a token or remove one
    MaxFaults       \* bound: failed calls, and crashes

ASSUME SchedulerAssumption ==
    /\ IsFiniteSet(Ticks)
    /\ batchSize \in Nat /\ MaxTierUpdates \in Nat
    /\ MaxStarts \in Nat /\ MaxAdds \in Nat /\ MaxFaults \in Nat

VARIABLES
    process,        \* "down", "up", or "stopping" from stop() to the exit
    tierDue,        \* was lastTierUpdate more than five minutes ago?
    tierUpdates,    \* calls of updateTokenTiers() under way, awaited by nobody
    stage,          \* of each tick
    unanswered,     \* the SELECTs each tick waits for
    todo,           \* the tokens each tick has yet to queue price jobs for
    picked, scans,  \* the tokens each tick selected
    guarded,        \* does the caller of the tick catch what it throws?
    queued,         \* history: the tokens each tick queued a price job for
    sinceStamp,     \* history: price jobs queued since last_price_update moved,
                    \* counted up to the number of ticks
    starts, adds, faults    \* how often, for the bounds

tierVars == <<tierDue, tierUpdates>>
tickVars == <<stage, unanswered, todo, picked, scans, guarded, queued>>
vars == <<tableVars, process, tierVars, tickVars, sinceStamp, starts, adds, faults>>

Stages == {"idle", "selecting", "prices", "stamping", "scans", "marking"}
Queries == {"prices", "holders"}
Nothing == [critical |-> {}, high |-> {}, normal |-> {}]
Undone(k) == todo[k].critical \cup todo[k].high \cup todo[k].normal

Init ==
    /\ TableInit
    /\ process = "down"
    /\ tierDue = TRUE
    /\ tierUpdates = 0
    /\ stage = [k \in Ticks |-> "idle"]
    /\ unanswered = [k \in Ticks |-> {}]
    /\ todo = [k \in Ticks |-> Nothing]
    /\ picked = [k \in Ticks |-> {}]
    /\ scans = [k \in Ticks |-> {}]
    /\ guarded = [k \in Ticks |-> TRUE]
    /\ queued = [k \in Ticks |-> {}]
    /\ sinceStamp = [t \in Tokens |-> 0]
    /\ starts = 0
    /\ adds = 0
    /\ faults = 0

Fault == faults < MaxFaults /\ faults' = faults + 1

\* They all do the same: no more than the bound are told apart.
OneMoreTierUpdate ==
    IF tierUpdates < MaxTierUpdates THEN tierUpdates + 1 ELSE tierUpdates

(***************************************************************************)
(* The process: start(), the interval, stop() and the exit.                *)
(***************************************************************************)
BeginTick(k, g) ==
    /\ stage[k] = "idle"
    /\ stage' = [stage EXCEPT ![k] = "selecting"]
    /\ unanswered' = [unanswered EXCEPT ![k] = Queries]
    /\ guarded' = [guarded EXCEPT ![k] = g]
    /\ UNCHANGED <<todo, picked, scans, queued>>

\* start(): the first tick has no catch, and the tiers are updated at once.
Start(k) ==
    /\ process = "down"
    /\ starts < MaxStarts
    /\ process' = "up"
    /\ starts' = starts + 1
    /\ BeginTick(k, FALSE)
    /\ tierUpdates' = OneMoreTierUpdate
    /\ UNCHANGED <<tableVars, tierDue, sinceStamp, adds, faults>>

Interval(k) ==
    /\ process = "up"
    /\ BeginTick(k, TRUE)
    /\ UNCHANGED <<tableVars, process, tierVars, sinceStamp, starts, adds, faults>>

\* stop() is called by the shutdown, which ends with the exit.  Ticks that
\* are under way go on until then.
Stop ==
    /\ process = "up"
    /\ process' = "stopping"
    /\ UNCHANGED <<tableVars, tierVars, tickVars, sinceStamp, starts, adds, faults>>

\* The process exits, after a shutdown or in a crash.  A new one begins
\* with lastTierUpdate = Date(0).
Exit ==
    /\ \/ process = "stopping" /\ UNCHANGED faults
       \/ process = "up" /\ Fault
    /\ process' = "down"
    /\ tierDue' = TRUE
    /\ tierUpdates' = 0
    /\ stage' = [k \in Ticks |-> "idle"]
    /\ unanswered' = [k \in Ticks |-> {}]
    /\ todo' = [k \in Ticks |-> Nothing]
    /\ picked' = [k \in Ticks |-> {}]
    /\ scans' = [k \in Ticks |-> {}]
    /\ guarded' = [k \in Ticks |-> TRUE]
    /\ queued' = [k \in Ticks |-> {}]
    /\ UNCHANGED <<tableVars, sinceStamp, starts, adds>>

(***************************************************************************)
(* runSchedulerTick(): two SELECTs at the same time.  One that fails       *)
(* answers with no rows.                                                   *)
(***************************************************************************)
Grouped(S) ==
    [critical |-> {t \in S : tier[t] = "NEW"},
     high |-> {t \in S : tier[t] = "ACTIVE"},
     normal |-> {t \in S : tier[t] \notin {"NEW", "ACTIVE"}}]

SelectPrices(k) ==
    /\ "prices" \in unanswered[k]
    /\ unanswered' = [unanswered EXCEPT ![k] = @ \ {"prices"}]
    /\ \/ /\ \E S \in DuePrices(batchSize) :
                /\ picked' = [picked EXCEPT ![k] = S]
                /\ todo' = [todo EXCEPT ![k] = Grouped(S)]
          /\ UNCHANGED faults
       \/ Fault /\ UNCHANGED <<picked, todo>>
    /\ UNCHANGED <<tableVars, process, tierVars, stage, scans, guarded, queued,
                   sinceStamp, starts, adds>>

SelectHolders(k) ==
    /\ "holders" \in unanswered[k]
    /\ unanswered' = [unanswered EXCEPT ![k] = @ \ {"holders"}]
    /\ \/ /\ \E S \in DueHolders(batchSize \div 2) : scans' = [scans EXCEPT ![k] = S]
          /\ UNCHANGED faults
       \/ Fault /\ UNCHANGED scans
    /\ UNCHANGED <<tableVars, process, tierVars, stage, todo, picked, guarded, queued,
                   sinceStamp, starts, adds>>

(***************************************************************************)
(* What follows the two answers.                                           *)
(***************************************************************************)
\* Mutant: the rows are kept in the scheduler, not in the call.
OverButRows(k) ==
    /\ stage' = [stage EXCEPT ![k] = "idle"]
    /\ todo' = [todo EXCEPT ![k] = Nothing]
    /\ guarded' = [guarded EXCEPT ![k] = TRUE]
    /\ queued' = [queued EXCEPT ![k] = {}]
    /\ UNCHANGED <<unanswered, picked, scans>>

\* The tick is over, with or without an exception.
Over(k) ==
    /\ stage' = [stage EXCEPT ![k] = "idle"]
    /\ todo' = [todo EXCEPT ![k] = Nothing]
    /\ picked' = [picked EXCEPT ![k] = {}]
    /\ scans' = [scans EXCEPT ![k] = {}]
    /\ guarded' = [guarded EXCEPT ![k] = TRUE]
    /\ queued' = [queued EXCEPT ![k] = {}]
    /\ UNCHANGED unanswered

GoTo(k, next) ==
    /\ stage' = [stage EXCEPT ![k] = next]
    /\ UNCHANGED <<unanswered, todo, picked, scans, guarded, queued>>

\* A tier update is started if the last one that succeeded is old; then
\* come the prices, then the scans.
Answered(k) ==
    /\ stage[k] = "selecting" /\ unanswered[k] = {}
    /\ tierUpdates' = IF tierDue THEN OneMoreTierUpdate ELSE tierUpdates
    /\ \/ picked[k] # {} /\ GoTo(k, "prices")
       \/ picked[k] = {} /\ scans[k] # {} /\ GoTo(k, "scans")
       \/ picked[k] = {} /\ scans[k] = {} /\ Over(k)
    /\ UNCHANGED <<tableVars, process, tierDue, sinceStamp, starts, adds, faults>>

\* schedulePriceUpdates(): a job for each NEW token, then one for each
\* ACTIVE token, then one for all the others.
NextJobs(k) ==
    CASE todo[k].critical # {} -> {{t} : t \in todo[k].critical}
      [] todo[k].critical = {} /\ todo[k].high # {} -> {{t} : t \in todo[k].high}
      [] OTHER -> {todo[k].normal}

Without(groups, S) == [g \in DOMAIN groups |-> groups[g] \ S]

OneMoreJob(n) == IF n < Cardinality(Ticks) THEN n + 1 ELSE n

Counted(S) ==
    sinceStamp' = [t \in Tokens |-> IF t \in S THEN OneMoreJob(sinceStamp[t])
                                               ELSE sinceStamp[t]]

QueuePrice(k) ==
    /\ stage[k] = "prices"
    /\ \E S \in NextJobs(k) :
        LET rest == Without(todo[k], S)
        IN  /\ todo' = [todo EXCEPT ![k] = rest]
            /\ queued' = [queued EXCEPT ![k] = @ \cup S]
            /\ Counted(S)
            /\ stage' = [stage EXCEPT ![k] = IF rest = Nothing THEN "stamping" ELSE @]
    /\ UNCHANGED <<tableVars, process, tierVars, unanswered, picked, scans, guarded,
                   starts, adds, faults>>

\* Mutant: an error of addJob is caught and logged, and the tick goes on.
ThrowsAndGoesOn(k) ==
    /\ stage[k] = "prices"
    /\ Fault
    /\ GoTo(k, "stamping")
    /\ UNCHANGED <<tableVars, process, tierVars, sinceStamp, starts, adds>>

\* addJob or addBulkJobs throws, when the job may have been queued all the
\* same: the tick ends there, and no row is stamped.  An exception nobody
\* catches shuts the program down.
Throws(k) ==
    /\ \/ /\ stage[k] = "prices"
          /\ \E S \in NextJobs(k) \cup {{}} : Counted(S)
       \/ stage[k] = "scans" /\ UNCHANGED sinceStamp
    /\ Fault
    /\ Over(k)
    /\ process' = IF guarded[k] THEN process ELSE "stopping"
    /\ UNCHANGED <<tableVars, tierVars, starts, adds>>

\* The UPDATE of last_price_update, with an error only logged.
Stamp(k) ==
    /\ stage[k] = "stamping"
    /\ \/ /\ StampPrices(picked[k])
          /\ sinceStamp' = [t \in Tokens |-> IF t \in picked[k] \cap monitored
                                             THEN 0 ELSE sinceStamp[t]]
          /\ UNCHANGED faults
       \/ Fault /\ UNCHANGED <<tableVars, sinceStamp>>
    /\ IF scans[k] = {} THEN Over(k) ELSE GoTo(k, "scans")
    /\ UNCHANGED <<process, tierVars, starts, adds>>

\* scheduleHolderScans(): all the jobs at once, then the UPDATE of
\* last_holder_update.
QueueScans(k) ==
    /\ stage[k] = "scans"
    /\ GoTo(k, "marking")
    /\ UNCHANGED <<tableVars, process, tierVars, sinceStamp, starts, adds, faults>>

Mark(k) ==
    /\ stage[k] = "marking"
    /\ \/ StampHolders(scans[k]) /\ UNCHANGED faults
       \/ Fault /\ UNCHANGED tableVars
    /\ Over(k)
    /\ UNCHANGED <<process, tierVars, sinceStamp, starts, adds>>

(***************************************************************************)
(* updateTokenTiers(), and what the rest of the program and time do.       *)
(***************************************************************************)
TiersUpdated ==
    /\ tierUpdates > 0
    /\ tierUpdates' = tierUpdates - 1
    /\ \/ UpdateTiers /\ tierDue' = FALSE /\ UNCHANGED faults
       \/ Fault /\ UNCHANGED <<tableVars, tierDue>>
    /\ UNCHANGED <<process, tickVars, sinceStamp, starts, adds>>

FiveMinutes ==
    /\ tierDue' = TRUE
    /\ UNCHANGED <<tableVars, process, tierUpdates, tickVars, sinceStamp, starts, adds, faults>>

addTokenToMonitoring(t) ==
    /\ process = "up"
    /\ adds < MaxAdds
    /\ adds' = adds + 1
    /\ Add(t)
    /\ UNCHANGED <<process, tierVars, tickVars, sinceStamp, starts, faults>>

removeTokenFromMonitoring(t) ==
    /\ process = "up"
    /\ adds < MaxAdds
    /\ adds' = adds + 1
    /\ Remove(t)
    /\ UNCHANGED <<process, tierVars, tickVars, sinceStamp, starts, faults>>

Clock == TimePasses /\ UNCHANGED <<process, tierVars, tickVars, sinceStamp, starts, adds, faults>>

GrowsOlder(t) == Ages(t) /\ UNCHANGED <<process, tierVars, tickVars, sinceStamp, starts, adds, faults>>

TickStep(k) ==
    \/ SelectPrices(k) \/ SelectHolders(k) \/ Answered(k)
    \/ QueuePrice(k) \/ Throws(k) \/ Stamp(k) \/ QueueScans(k) \/ Mark(k)

Next ==
    \/ \E k \in Ticks : Start(k) \/ Interval(k) \/ TickStep(k)
    \/ Stop \/ Exit \/ TiersUpdated \/ FiveMinutes \/ Clock
    \/ \E t \in Tokens :
        addTokenToMonitoring(t) \/ removeTokenFromMonitoring(t) \/ GrowsOlder(t)

Spec == Init /\ [][Next]_vars

\* Intervals fire, queries and calls of Redis settle, time passes, a shutdown
\* that began ends with the exit (Lifecycle shows it: ShutdownEnds), and an
\* operator restarts a process that is down.
Fairness ==
    /\ \A k \in Ticks : WF_vars(TickStep(k))
    /\ WF_vars(\E k \in Ticks : Start(k)) /\ WF_vars(process = "stopping" /\ Exit)
    /\ WF_vars(\E k \in Ticks : Interval(k))
    /\ WF_vars(TiersUpdated) /\ WF_vars(FiveMinutes) /\ WF_vars(Clock)
    /\ \A t \in Tokens : WF_vars(GrowsOlder(t))

FairSpec == Spec /\ Fairness

(***************************************************************************)
(* Properties.                                                             *)
(***************************************************************************)
\* Each variable has its type, and a tick holds no rows but those it
\* selected (TokenScheduler.ts:194-215).
TypeOK ==
    /\ TableTypeOK
    /\ process \in {"down", "up", "stopping"}
    /\ tierDue \in BOOLEAN /\ tierUpdates \in 0..MaxTierUpdates
    /\ stage \in [Ticks -> Stages]
    /\ unanswered \in [Ticks -> SUBSET Queries]
    /\ todo \in [Ticks -> [critical : SUBSET Tokens, high : SUBSET Tokens,
                           normal : SUBSET Tokens]]
    /\ picked \in [Ticks -> SUBSET Tokens] /\ scans \in [Ticks -> SUBSET Tokens]
    /\ guarded \in [Ticks -> BOOLEAN]
    /\ queued \in [Ticks -> SUBSET Tokens]
    /\ \A k \in Ticks : /\ Undone(k) \subseteq picked[k] \ queued[k]
                        /\ stage[k] = "idle" => picked[k] \cup scans[k] = {}
    /\ sinceStamp \in [Tokens -> Nat]
    /\ starts \in 0..MaxStarts /\ adds \in 0..MaxAdds /\ faults \in 0..MaxFaults

\* This step is the UPDATE of tick k.
Stamps(k) == stage[k] = "stamping" /\ stage'[k] # "stamping"

\* A row says that the price was updated only if the tick that wrote it
\* queued a job for that token itself, whatever another tick beside it has
\* queued: calls that fail, tokens that change their tier or lose their row
\* meanwhile, and crashes never hide a token whose job was lost
\* (TokenScheduler.ts:394-435).
StampsFollowJobs ==
    [][\A t \in Tokens :
        priceAge'[t] = 0 /\ priceAge[t] # 0 =>
            \E k \in Ticks : Stamps(k) /\ t \in queued[k]]_vars

\* While a token's price is fresh, its extra jobs come from ticks that had
\* selected it before the row was written: there are fewer of them than
\* ticks under way, whatever fails (TokenScheduler.ts:139-143, 220-262).
ShortestInterval == PriceInterval["NEW"]

ExtraJobsBounded ==
    \A t \in Tokens :
        priceAge[t] <= ShortestInterval => sinceStamp[t] < Cardinality(Ticks)

\* A token that is due for a holder scan gets it in the end, although younger
\* tokens and tokens of a higher priority come first and a tick takes only so
\* many, although a tick fails, and although the process stops or crashes and a
\* new one begins: tokens leave their class, a later update of the tiers levels
\* their priorities, and among equals the oldest update comes first
\* (TokenScheduler.ts:321-348, 139-143).  Only a process that is not started
\* again excuses it.  Tokens are finitely many: new ones that arrive for ever,
\* faster than they are scanned, may keep an older one waiting.
HoldersUpdated ==
    \A t \in Tokens :
        t \in Due(HolderInterval, holderAge)
            ~> \/ t \notin Due(HolderInterval, holderAge)
               \/ process # "up" /\ starts = MaxStarts
=============================================================================
