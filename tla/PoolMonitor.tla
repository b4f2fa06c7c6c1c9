---------------------------- MODULE PoolMonitor ----------------------------
(***************************************************************************)
(* PoolMonitor.ts with Shyft configured: what it knows of one pool.        *)
(*                                                                         *)
(* A reader is one poll's visit to the pool, one refresh asked for by a    *)
(* gRPC account update, or one addPool().  It notes what monitoredPools    *)
(* holds, awaits the REST answer, and compares the answer with its note.   *)
(* setInterval starts a poll every five seconds although a poll that waits *)
(* for the rate limiter takes longer, and refreshes come when they come,   *)
(* so readers overlap.                                                     *)
(*                                                                         *)
(* The reserves are a version: the chain moves to the next one with every  *)
(* change.  Minimal is the "0" reserves that addPool() makes up when Shyft *)
(* does not know the pool.                                                 *)
(***************************************************************************)
EXTENDS Integers, FiniteSets

CONSTANTS
    Readers,
    None, Minimal,
    MaxVersion,     \* bound: changes of the reserves
    MaxFaults,      \* bound: calls that fail
    MaxRestarts     \* bound: exits of the process

ASSUME PoolAssumption ==
    /\ None \notin Nat /\ Minimal \notin Nat /\ None # Minimal
    /\ MaxVersion \in Nat /\ MaxFaults \in Nat /\ MaxRestarts \in Nat

VARIABLES
    chain,          \* the reserves on chain
    stored,         \* monitoredPools.get(poolAddress)
    stage,          \* of each reader
    previousInfo,   \* what each reader noted before its request
    currentInfo,    \* what each reader was answered
    cached,         \* the Redis key pool:<address>
    row,            \* the row of liquidity_pools
    reported,       \* history: the reserves of some poolUpdate event
    added,          \* history: the reserves some addPool() came with
    faults, restarts    \* how often, for the bounds

reader == <<stage, previousInfo, currentInfo>>
history == <<reported, added>>
vars == <<chain, stored, reader, cached, row, history, faults, restarts>>

Versions == 0..MaxVersion
Reserves == Versions \cup {Minimal}

Stages == {"idle", "adding", "found", "asking", "answered", "caching", "saving", "saved"}

Init ==
    /\ chain = 0
    /\ stored = None
    /\ stage = [r \in Readers |-> "idle"]
    /\ previousInfo = [r \in Readers |-> None]
    /\ currentInfo = [r \in Readers |-> None]
    /\ cached = None
    /\ row = None
    /\ reported = {}
    /\ added = {}
    /\ faults = 0
    /\ restarts = 0

Fault == faults < MaxFaults /\ faults' = faults + 1

\* Mutant: what the reader noted outlives it.
FinishKeepingNote(r) ==
    /\ stage' = [stage EXCEPT ![r] = "idle"]
    /\ currentInfo' = [currentInfo EXCEPT ![r] = None]
    /\ UNCHANGED previousInfo

\* The reader is done and forgotten.
Finish(r) ==
    /\ stage' = [stage EXCEPT ![r] = "idle"]
    /\ previousInfo' = [previousInfo EXCEPT ![r] = None]
    /\ currentInfo' = [currentInfo EXCEPT ![r] = None]

GoTo(r, s) == stage' = [stage EXCEPT ![r] = s] /\ UNCHANGED <<previousInfo, currentInfo>>

ChainMoves ==
    /\ chain < MaxVersion
    /\ chain' = chain + 1
    /\ UNCHANGED <<stored, reader, cached, row, history, faults, restarts>>

(***************************************************************************)
(* addPool(): two calls for the same pool may both find it missing.        *)
(***************************************************************************)
BeginAdd(r) ==
    /\ stage[r] = "idle"
    /\ stored = None
    /\ GoTo(r, "adding")
    /\ UNCHANGED <<chain, stored, cached, row, history, faults, restarts>>

\* Shyft answers with what the chain holds then, or that it has no such pool.
AddAnswered(r) ==
    /\ stage[r] = "adding"
    /\ \E v \in {chain, Minimal} :
          currentInfo' = [currentInfo EXCEPT ![r] = v]
    /\ stage' = [stage EXCEPT ![r] = "found"]
    /\ UNCHANGED <<chain, stored, previousInfo, cached, row, history, faults, restarts>>

\* Nothing is written to the database and no event is emitted.
Added(r) ==
    /\ stage[r] = "found"
    /\ stored' = currentInfo[r]
    /\ added' = added \cup {currentInfo[r]}
    /\ Finish(r)
    /\ UNCHANGED <<chain, cached, row, reported, faults, restarts>>

(***************************************************************************)
(* One visit of pollAllPools() or one refreshPoolAndEmit().                *)
(***************************************************************************)
\* Mutant: no request while the pool's cache entry lives.
VisitUncached(r) ==
    /\ stage[r] = "idle"
    /\ stored # None
    /\ cached = None
    /\ previousInfo' = [previousInfo EXCEPT ![r] = stored]
    /\ stage' = [stage EXCEPT ![r] = "asking"]
    /\ UNCHANGED <<chain, stored, currentInfo, cached, row, history, faults, restarts>>

Visit(r) ==
    /\ stage[r] = "idle"
    /\ stored # None
    /\ previousInfo' = [previousInfo EXCEPT ![r] = stored]
    /\ stage' = [stage EXCEPT ![r] = "asking"]
    /\ UNCHANGED <<chain, stored, currentInfo, cached, row, history, faults, restarts>>

\* The server reads the pool; its answer may stay under way for long.
Answered(r) ==
    /\ stage[r] = "asking"
    /\ currentInfo' = [currentInfo EXCEPT ![r] = chain]
    /\ stage' = [stage EXCEPT ![r] = "answered"]
    /\ UNCHANGED <<chain, stored, previousInfo, cached, row, history, faults, restarts>>

hasPoolChanged(r) == previousInfo[r] # currentInfo[r]

\* Mutant: an answer that a newer one overtook is stored but not reported.
EmitUnlessOvertaken(r) ==
    /\ stage[r] = "answered"
    /\ hasPoolChanged(r)
    /\ reported' = IF stored = previousInfo[r] THEN reported \cup {currentInfo[r]} ELSE reported
    /\ GoTo(r, "caching")
    /\ UNCHANGED <<chain, stored, cached, row, added, faults, restarts>>

\* emitPoolUpdate() up to its first await: the event is out, nothing is stored.
Emit(r) ==
    /\ stage[r] = "answered"
    /\ hasPoolChanged(r)
    /\ reported' = reported \cup {currentInfo[r]}
    /\ GoTo(r, "caching")
    /\ UNCHANGED <<chain, stored, cached, row, added, faults, restarts>>

\* The same reserves as before: they are stored over whatever is there by now.
Unchanged(r) ==
    /\ stage[r] = "answered"
    /\ ~hasPoolChanged(r)
    /\ stored' = currentInfo[r]
    /\ Finish(r)
    /\ UNCHANGED <<chain, cached, row, history, faults, restarts>>

\* cachePoolUpdate() swallows its error.
CacheUpdate(r) ==
    /\ stage[r] = "caching"
    /\ \/ cached' = currentInfo[r] /\ UNCHANGED faults
       \/ Fault /\ UNCHANGED cached
    /\ GoTo(r, "saving")
    /\ UNCHANGED <<chain, stored, row, history, restarts>>

\* savePoolToDatabase() swallows its error, and gives up without a token.
SavePool(r) ==
    /\ stage[r] = "saving"
    /\ \/ row' = currentInfo[r] /\ UNCHANGED faults
       \/ Fault /\ UNCHANGED row
    /\ GoTo(r, "saved")
    /\ UNCHANGED <<chain, stored, cached, history, restarts>>

Store(r) ==
    /\ stage[r] = "saved"
    /\ stored' = currentInfo[r]
    /\ Finish(r)
    /\ UNCHANGED <<chain, cached, row, history, faults, restarts>>

\* getPoolInfo() throws once its retries are used up, and addPool() returns false;
\* a visit is over as well when the answer is null, and the poll goes on.
RequestFails(r) ==
    /\ stage[r] \in {"adding", "asking"}
    /\ Fault
    /\ Finish(r)
    /\ UNCHANGED <<chain, stored, cached, row, history, restarts>>

(***************************************************************************)
(* Outside the readers.                                                    *)
(***************************************************************************)
CacheExpires ==
    /\ cached # None
    /\ cached' = None
    /\ UNCHANGED <<chain, stored, reader, row, history, faults, restarts>>

\* Nothing reads pools:active or liquidity_pools back.
Restart ==
    /\ restarts < MaxRestarts
    /\ restarts' = restarts + 1
    /\ stored' = None
    /\ stage' = [r \in Readers |-> "idle"]
    /\ previousInfo' = [r \in Readers |-> None]
    /\ currentInfo' = [r \in Readers |-> None]
    /\ UNCHANGED <<chain, cached, row, history, faults>>

Continue(r) ==
    \/ AddAnswered(r) \/ Added(r)
    \/ Answered(r) \/ Emit(r) \/ Unchanged(r)
    \/ CacheUpdate(r) \/ SavePool(r) \/ Store(r)

Next ==
    \/ \E r \in Readers : BeginAdd(r) \/ Visit(r) \/ Continue(r) \/ RequestFails(r)
    \/ ChainMoves \/ CacheExpires \/ Restart

Spec == Init /\ [][Next]_vars

\* The interval polls for ever, and a request or a query is answered some time.
\* Nobody has to call addPool(), and no key has to expire within the run.
Fairness ==
    /\ \A r \in Readers : WF_vars(Continue(r))
    /\ WF_vars(\E r \in Readers : Visit(r))

FairSpec == Spec /\ Fairness

-----------------------------------------------------------------------------
\* The variables keep their types; a reader holds what its stage says it holds.
TypeOK ==
    /\ chain \in Versions
    /\ stored \in Reserves \cup {None}
    /\ stage \in [Readers -> Stages]
    /\ previousInfo \in [Readers -> Reserves \cup {None}]
    /\ currentInfo \in [Readers -> Reserves \cup {None}]
    /\ \A r \in Readers :
          /\ (previousInfo[r] = None) <=> (stage[r] \in {"idle", "adding", "found"})
          /\ (currentInfo[r] = None) <=> (stage[r] \in {"idle", "adding", "asking"})
    /\ cached \in Reserves \cup {None}
    /\ row \in Reserves \cup {None}
    /\ reported \subseteq Reserves
    /\ added \subseteq Reserves
    /\ faults \in 0..MaxFaults
    /\ restarts \in 0..MaxRestarts

\* Whoever listens to poolUpdate, and knows the reserves the pool was added with,
\* has seen every value that the monitor keeps, caches or saves: an answer that
\* overlaps others is never taken over in silence (PoolMonitor.ts:466-477).
HeldIsReported ==
    /\ {stored} \ {None} \subseteq reported \cup added
    /\ {cached, row} \ {None} \subseteq reported

\* Once the reserves stay as they are and the pool stays monitored, the monitor
\* ends up with those reserves, although an older answer that comes late may be
\* stored over a newer one (PoolMonitor.ts:477, 511).
Settles ==
    \A v \in Versions :
        <>[](chain = v /\ stored # None) => <>[](stored = v)
=============================================================================
