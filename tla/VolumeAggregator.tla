-------------------------- MODULE VolumeAggregator --------------------------
(***************************************************************************)
(* VolumeAggregator.ts: the trades of one token in a Redis sorted set, so  *)
(* that the volume of a window can be read from it.                        *)
(*                                                                         *)
(* recordTrade() sends two commands, ZADD and then EXPIRE of the whole     *)
(* key; cleanup() removes by a cutoff it took when it started; either may  *)
(* fail in between.  Time is kept relative: how old a trade is, how long   *)
(* the key has to live, how old a cutoff is.  What is older than           *)
(* maxTradeAge is as old as anything.                                      *)
(***************************************************************************)
EXTENDS Integers, FiniteSets

CONSTANTS
    Trades,
    Window,         \* the longest of TIME_WINDOWS (24 hours)
    maxTradeAge,    \* of options (25 hours)
    MaxCleanups,    \* bound: calls of cleanup() under way
    MaxFaults       \* bound: commands that fail, and crashes

ASSUME WindowAssumption ==
    /\ Window \in Nat /\ maxTradeAge \in Nat /\ Window < maxTradeAge
    /\ MaxCleanups \in Nat /\ MaxFaults \in Nat

VARIABLES
    stage,          \* of the call recordTrade(t)
    age,            \* how long ago the timestamp of t was taken
    entries,        \* the members of volume:trades:<mint>
    ttl,            \* how long the key has to live, or Forever
    cutoffs,        \* how long ago the cutoff of each cleanup under way is
    overtaken,      \* history: trades whose key expired between their commands
    faults          \* how many, for the bound

vars == <<stage, age, entries, ttl, cutoffs, overtaken, faults>>

Old == maxTradeAge + 1
Forever == maxTradeAge + 2

\* "recorded": recordTrade() resolved, and logged that the trade is recorded.
Stages == {"new", "timed", "added", "recorded", "failed"}

Init ==
    /\ stage = [t \in Trades |-> "new"]
    /\ age = [t \in Trades |-> 0]
    /\ entries = {}
    /\ ttl = Forever
    /\ cutoffs = {}
    /\ overtaken = {}
    /\ faults = 0

Fault == faults < MaxFaults /\ faults' = faults + 1

(***************************************************************************)
(* recordTrade().                                                          *)
(***************************************************************************)
\* index.ts takes the timestamp, and the two commands follow.
Trade(t) ==
    /\ stage[t] = "new"
    /\ stage' = [stage EXCEPT ![t] = "timed"]
    /\ UNCHANGED <<age, entries, ttl, cutoffs, overtaken, faults>>

\* ZADD: an error may hide that the trade was added.
ZAdd(t) ==
    /\ stage[t] = "timed"
    /\ \/ /\ entries' = entries \cup {t}
          /\ stage' = [stage EXCEPT ![t] = "added"]
          /\ UNCHANGED faults
       \/ /\ Fault
          /\ entries' \in {entries, entries \cup {t}}
          /\ stage' = [stage EXCEPT ![t] = "failed"]
    /\ UNCHANGED <<age, ttl, cutoffs, overtaken>>

Recorded(t) == stage' = [stage EXCEPT ![t] = "recorded"]

\* Mutant: only the first trade sets the time to live.
ExpireOnce(t) ==
    /\ stage[t] = "added"
    /\ Recorded(t)
    /\ ttl' = IF entries # {} /\ ttl = Forever THEN maxTradeAge ELSE ttl
    /\ UNCHANGED <<age, entries, cutoffs, overtaken, faults>>

\* Mutant: a time to live for a key that is gone.
ExpireMissing(t) ==
    /\ stage[t] = "added"
    /\ Recorded(t)
    /\ ttl' = maxTradeAge
    /\ UNCHANGED <<age, entries, cutoffs, overtaken, faults>>

\* EXPIRE of a key that is gone does nothing, and its answer is not looked at:
\* the trade counts as recorded all the same.
Expire(t) ==
    /\ stage[t] = "added"
    /\ \/ /\ Recorded(t)
          /\ ttl' = IF entries = {} THEN ttl ELSE maxTradeAge
          /\ UNCHANGED faults
       \/ /\ Fault
          /\ stage' = [stage EXCEPT ![t] = "failed"]
          /\ UNCHANGED ttl
    /\ UNCHANGED <<age, entries, cutoffs, overtaken>>

(***************************************************************************)
(* cleanup(), of the job that startCleanupJob() starts and of              *)
(* CleanupWorker.                                                          *)
(***************************************************************************)
\* Mutant: maxTradeAge is multiplied once more than it should be.
BeginCleanupTooFar ==
    /\ Cardinality(cutoffs) < MaxCleanups
    /\ cutoffs' = cutoffs \cup {Old + 1}
    /\ UNCHANGED <<stage, age, entries, ttl, overtaken, faults>>

\* The cutoff, before the keys are scanned.
BeginCleanup ==
    /\ Cardinality(cutoffs) < MaxCleanups
    /\ cutoffs' = cutoffs \cup {maxTradeAge}
    /\ UNCHANGED <<stage, age, entries, ttl, overtaken, faults>>

\* ZREMRANGEBYSCORE -inf cutoff.  A sorted set that loses its last member is
\* deleted, and its time to live with it.
CleanKey(c) ==
    LET removed == {t \in Trades : age[t] >= c}
    IN  /\ cutoffs' = cutoffs \ {c}
        /\ entries' = entries \ removed
        /\ ttl' = IF entries \subseteq removed THEN Forever ELSE ttl
        /\ UNCHANGED <<stage, age, overtaken, faults>>

\* The scan, this key or one before it: the rest is left as it is.
CleanupFails(c) ==
    /\ Fault
    /\ cutoffs' = cutoffs \ {c}
    /\ UNCHANGED <<stage, age, entries, ttl, overtaken>>

(***************************************************************************)
(* Time passes; the process ends and starts again.                         *)
(***************************************************************************)
Older(a) == IF a < Old THEN a + 1 ELSE a

Tick ==
    /\ age' = [t \in Trades |-> IF stage[t] = "new" THEN 0 ELSE Older(age[t])]
    /\ cutoffs' = {Older(c) : c \in cutoffs}
    /\ \/ /\ ttl = Forever
          /\ UNCHANGED <<entries, ttl, overtaken>>
       \/ /\ ttl \in 2..maxTradeAge
          /\ ttl' = ttl - 1
          /\ UNCHANGED <<entries, overtaken>>
       \/ /\ ttl = 1
          /\ entries' = {}
          /\ ttl' = Forever
          /\ overtaken' = overtaken \cup {t \in entries : stage[t] = "added"}
    /\ UNCHANGED <<stage, faults>>

Crash ==
    /\ Fault
    /\ stage' = [t \in Trades |-> IF stage[t] \in {"timed", "added"} THEN "failed" ELSE stage[t]]
    /\ cutoffs' = {}
    /\ UNCHANGED <<age, entries, ttl, overtaken>>

Next ==
    \/ \E t \in Trades : Trade(t) \/ ZAdd(t) \/ Expire(t)
    \/ BeginCleanup
    \/ \E c \in cutoffs : CleanKey(c) \/ CleanupFails(c)
    \/ Tick
    \/ Crash

Spec == Init /\ [][Next]_vars

\* The clock goes on, the interval of the cleanup job comes round, and a command
\* that was sent is answered.
FairSpec ==
    /\ Spec
    /\ WF_vars(Tick)
    /\ WF_vars(BeginCleanup)
    /\ WF_vars(\E c \in cutoffs : CleanKey(c))

(***************************************************************************)
(* Properties.                                                             *)
(***************************************************************************)
\* Every variable has its type; a key that is not there has no time to live.
TypeOK ==
    /\ stage \in [Trades -> Stages]
    /\ age \in [Trades -> 0..Old]
    /\ entries \subseteq Trades
    /\ ttl \in 1..maxTradeAge \cup {Forever}
    /\ cutoffs \subseteq maxTradeAge..Old
    /\ entries = {} => ttl = Forever
    /\ overtaken \subseteq Trades
    /\ faults \in 0..MaxFaults

\* getVolumeStats() finds every recorded trade of its window, with one
\* exception: a trade whose key expired between its ZADD and its EXPIRE, which
\* recordTrade() reports as recorded although it is gone.  Once the EXPIRE is
\* through, neither the time to live, which belongs to the key and not to the
\* trade, nor a cleanup that took its cutoff long ago removes a trade that still
\* counts (VolumeAggregator.ts:76-85, 318-348).
TradesStayCounted ==
    \A t \in Trades \ overtaken :
        stage[t] = "recorded" /\ age[t] <= Window => t \in entries

\* No trade stays for ever, not even when the EXPIRE of its key failed.
OldTradesLeave == \A t \in Trades : t \in entries ~> t \notin entries
=============================================================================
