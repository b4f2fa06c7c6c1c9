-------------------------- MODULE MonitoredTokens --------------------------
(***************************************************************************)
(* The table monitored_tokens, joined with the age tiers of its tokens, as *)
(* the SQL statements of TokenScheduler.ts read and write it.              *)
(*                                                                         *)
(* A statement compares last_price_update and last_holder_update with      *)
(* NOW(), so the model keeps how long ago they were set.  An age beyond    *)
(* Horizon is overdue in every tier: only the order of such ages is kept.  *)
(***************************************************************************)
EXTENDS Integers, FiniteSets

CONSTANTS
    Tokens,
    PriceInterval, HolderInterval,  \* of each tier, in units of the clock
    Horizon,                        \* no interval is longer
    FirstTier, LastTier             \* bound: the tiers the tokens live through,
                                    \* from FirstTier[t] to LastTier

Tiers == {"NEW", "ACTIVE", "ESTABLISHED", "MATURE"}

ASSUME TableAssumption ==
    /\ IsFiniteSet(Tokens)
    /\ Horizon \in Nat
    /\ PriceInterval \in [Tiers -> 0..Horizon]
    /\ HolderInterval \in [Tiers -> 0..Horizon]
    /\ FirstTier \in [Tokens -> Tiers] /\ LastTier \in Tiers

\* No tier is updated more often than the youngest (TokenScheduler.ts:23-56).
ASSUME IntervalAssumption ==
    \A x \in Tiers : PriceInterval["NEW"] <= PriceInterval[x]

VARIABLES
    monitored,              \* the tokens with a row
    tier,                   \* what created_at makes of each token now
    priority,               \* the column, as it was last written
    priceAge, holderAge     \* time since the last update; Never when NULL

tableVars == <<monitored, tier, priority, priceAge, holderAge>>

Never == Horizon + Cardinality(Tokens) + 1

TierPriority == [NEW |-> 5, ACTIVE |-> 3, ESTABLISHED |-> 2, MATURE |-> 1]

\* The third argument of the only call of addTokenToMonitoring.
NewTokenPriority == 3

TableInit ==
    /\ monitored = {}
    /\ tier = FirstTier
    /\ priority = [t \in Tokens |-> NewTokenPriority]
    /\ priceAge = [t \in Tokens |-> Never]
    /\ holderAge = [t \in Tokens |-> Never]

(***************************************************************************)
(* SELECT ... WHERE S ORDER BY class, priority DESC, age DESC LIMIT n.     *)
(* NULLS FIRST makes Never the oldest.  Rows that tie come in any order.   *)
(***************************************************************************)
PriceClass == [NEW |-> 0, ACTIVE |-> 1, ESTABLISHED |-> 2, MATURE |-> 2]
HolderClass == [NEW |-> 0, ACTIVE |-> 1, ESTABLISHED |-> 1, MATURE |-> 1]

Before(class, age, t, u) ==
    \/ class[tier[t]] < class[tier[u]]
    \/ /\ class[tier[t]] = class[tier[u]]
       /\ \/ priority[t] > priority[u]
          \/ priority[t] = priority[u] /\ age[t] > age[u]

First(S, n, class, age) ==
    {A \in SUBSET S :
        /\ Cardinality(A) = IF Cardinality(S) < n THEN Cardinality(S) ELSE n
        /\ \A t \in A, u \in S \ A : ~Before(class, age, u, t)}

\* Mutant: <= NOW() - INTERVAL.
DueAtOnce(interval, age) == {t \in monitored : age[t] >= interval[tier[t]]}

Due(interval, age) == {t \in monitored : age[t] > interval[tier[t]]}

DuePrices(n) == First(Due(PriceInterval, priceAge), n, PriceClass, priceAge)
DueHolders(n) == First(Due(HolderInterval, holderAge), n, HolderClass, holderAge)

(***************************************************************************)
(* Time and the statements that write.                                     *)
(***************************************************************************)
Older(age) ==
    LET late == {age[t] : t \in {u \in Tokens : age[u] \in Horizon..(Never - 1)}}
    IN  [t \in Tokens |->
            CASE age[t] < Horizon -> age[t] + 1
              [] age[t] = Never -> Never
              [] OTHER -> Horizon + Cardinality({a \in late : a <= age[t]})]

TimePasses ==
    /\ priceAge' = Older(priceAge)
    /\ holderAge' = Older(holderAge)
    /\ UNCHANGED <<monitored, tier, priority>>

NextTier == [NEW |-> "ACTIVE", ACTIVE |-> "ESTABLISHED",
             ESTABLISHED |-> "MATURE", MATURE |-> "MATURE"]

\* The token crosses the age at which its tier ends.  Tiers last hours, so
\* nothing ties this to a step of the clock of the intervals.
Ages(t) ==
    /\ t \in monitored /\ tier[t] # LastTier
    /\ tier' = [tier EXCEPT ![t] = NextTier[@]]
    /\ UNCHANGED <<monitored, priority, priceAge, holderAge>>

\* addTokenToMonitoring: an existing row keeps its times.
Add(t) ==
    /\ monitored' = monitored \cup {t}
    /\ priority' = [priority EXCEPT ![t] = NewTokenPriority]
    /\ UNCHANGED <<tier, priceAge, holderAge>>

\* removeTokenFromMonitoring: a row made later starts with NULLs.
Remove(t) ==
    /\ t \in monitored
    /\ monitored' = monitored \ {t}
    /\ priceAge' = [priceAge EXCEPT ![t] = Never]
    /\ holderAge' = [holderAge EXCEPT ![t] = Never]
    /\ UNCHANGED <<tier, priority>>

\* Mutant: the priority of a token is only ever raised.
UpdateTiersRaising ==
    /\ priority' = [t \in Tokens |->
            IF t \in monitored /\ TierPriority[tier[t]] > priority[t]
            THEN TierPriority[tier[t]] ELSE priority[t]]
    /\ UNCHANGED <<monitored, tier, priceAge, holderAge>>

\* updateTokenTiers.
UpdateTiers ==
    /\ priority' = [t \in Tokens |-> IF t \in monitored THEN TierPriority[tier[t]]
                                                        ELSE priority[t]]
    /\ UNCHANGED <<monitored, tier, priceAge, holderAge>>

\* updatePriceTimestamps and updateHolderTimestamps: rows that are gone
\* stay gone.
Stamped(age, S) ==
    [t \in Tokens |-> IF t \in S \cap monitored THEN 0 ELSE age[t]]

StampPrices(S) ==
    /\ priceAge' = Stamped(priceAge, S)
    /\ UNCHANGED <<monitored, tier, priority, holderAge>>

StampHolders(S) ==
    /\ holderAge' = Stamped(holderAge, S)
    /\ UNCHANGED <<monitored, tier, priority, priceAge>>

\* The types of the table.
TableTypeOK ==
    /\ monitored \subseteq Tokens
    /\ tier \in [Tokens -> Tiers]
    /\ priority \in [Tokens -> 1..5]
    /\ priceAge \in [Tokens -> 0..Never]
    /\ holderAge \in [Tokens -> 0..Never]
=============================================================================
