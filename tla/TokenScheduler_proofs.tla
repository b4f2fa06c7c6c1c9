----------------------- MODULE TokenScheduler_proofs -----------------------
(***************************************************************************)
(* What the rows of monitored_tokens say of the jobs that were queued, for *)
(* every set of tokens and of ticks under way, and any intervals.          *)
(*                                                                         *)
(* ExtraJobsBounded says nothing of the jobs a tick has yet to queue.      *)
(* Spared counts the ticks that hold the token beside the jobs it has had: *)
(* they were all under way when its row was written, for none selects a    *)
(* token that is fresh.                                                    *)
(***************************************************************************)
EXTENDS TokenScheduler, FiniteSetTheorems, TLAPS

\* A tick holds what it selected until it has queued it, and holds nothing
\* before it has selected and after it has queued.
Orderly(k) ==
    /\ stage[k] # "selecting" => unanswered[k] = {}
    /\ stage[k] \in {"idle", "selecting"} => queued[k] = {}
    /\ stage[k] \notin {"selecting", "prices"} => Undone(k) = {}
    /\ picked[k] \subseteq queued[k] \cup Undone(k)

TicksOrderly == \A k \in Ticks : Orderly(k)

\* The ticks that may still queue a job for t.
Holding(t) == {k \in Ticks : t \in Undone(k)}

Fresh(t) == priceAge[t] <= ShortestInterval

Spared ==
    \A t \in Tokens :
        Fresh(t) => sinceStamp[t] + Cardinality(Holding(t)) < Cardinality(Ticks)

IInv == TypeOK /\ TicksOrderly /\ Spared

-----------------------------------------------------------------------------
(***************************************************************************)
(* Time.                                                                   *)
(***************************************************************************)
LEMMA Numbers ==
    /\ Horizon \in Nat /\ Cardinality(Tokens) \in Nat /\ Never \in Nat
    /\ Never = Horizon + Cardinality(Tokens) + 1
    /\ ShortestInterval \in 0..Horizon
    /\ \A x \in Tiers : PriceInterval[x] \in Nat /\ ShortestInterval <= PriceInterval[x]
<1>1. Horizon \in Nat /\ Cardinality(Tokens) \in Nat
  BY TableAssumption, FS_CardinalityType
<1>2. "NEW" \in Tiers
  BY DEF Tiers
<1>3. PriceInterval \in [Tiers -> 0..Horizon]
  BY TableAssumption
<1>4. ShortestInterval \in 0..Horizon
  BY <1>2, <1>3 DEF ShortestInterval
<1>5. \A x \in Tiers : PriceInterval[x] \in Nat /\ ShortestInterval <= PriceInterval[x]
  BY <1>1, <1>3, IntervalAssumption DEF ShortestInterval
<1>6. Never = Horizon + Cardinality(Tokens) + 1 /\ Never \in Nat
  BY <1>1 DEF Never
<1> QED
  BY <1>1, <1>4, <1>5, <1>6

\* The ages that are late are no more than the tokens.
LEMMA FewAges ==
    ASSUME NEW age \in [Tokens -> 0..Never], NEW U \in SUBSET Tokens,
           NEW A \in SUBSET {age[t] : t \in U}
    PROVE  /\ Cardinality(A) \in 0..Cardinality(Tokens)
           /\ A # {} => Cardinality(A) >= 1
<1> DEFINE V == {t \in U : age[t] \in A}
           f == [t \in V |-> age[t]]
<1>1. IsFiniteSet(V) /\ Cardinality(V) <= Cardinality(Tokens)
  <2>1. V \subseteq Tokens /\ IsFiniteSet(Tokens)
    BY TableAssumption
  <2> QED
    BY <2>1, FS_Subset
<1>2. f \in Surjection(V, A)
  BY DEF Surjection
<1>3. IsFiniteSet(A) /\ Cardinality(A) <= Cardinality(V)
  BY <1>1, <1>2, FS_Surjection
<1>4. Cardinality(A) \in Nat /\ Cardinality(V) \in Nat /\ Cardinality(Tokens) \in Nat
  BY <1>1, <1>3, TableAssumption, FS_CardinalityType
<1>5. A # {} => Cardinality(A) # 0
  BY <1>3, FS_EmptySet
<1> QED
  BY <1>1, <1>3, <1>4, <1>5

\* Time makes no age less, and none that is not is fresh afterwards.
LEMMA OlderAges ==
    ASSUME NEW age \in [Tokens -> 0..Never]
    PROVE  /\ Older(age) \in [Tokens -> 0..Never]
           /\ \A t \in Tokens : /\ Older(age)[t] # 0
                                /\ Older(age)[t] <= ShortestInterval =>
                                       age[t] <= ShortestInterval
<1> DEFINE U == {u \in Tokens : age[u] \in Horizon..(Never - 1)}
           late == {age[t] : t \in U}
           upto(t) == {a \in late : a <= age[t]}
           old == [t \in Tokens |->
                     CASE age[t] < Horizon -> age[t] + 1
                       [] age[t] = Never -> Never
                       [] OTHER -> Horizon + Cardinality(upto(t))]
<1>1. Older(age) = old
  BY DEF Older
<1>2. ASSUME NEW t \in Tokens
      PROVE  /\ old[t] \in 1..Never
             /\ old[t] <= ShortestInterval => age[t] <= ShortestInterval
  <2>1. age[t] \in 0..Never
    OBVIOUS
  <2>2. CASE age[t] < Horizon
    <3>1. old[t] = age[t] + 1
      BY <2>1, <2>2, Numbers
    <3> HIDE DEF old
    <3> QED
      BY <2>1, <2>2, <3>1, Numbers
  <2>3. CASE age[t] = Never
    <3>1. old[t] = Never
      BY <2>3, Numbers
    <3> HIDE DEF old
    <3> QED
      BY <2>1, <2>3, <3>1, Numbers
  <2>4. CASE ~(age[t] < Horizon) /\ age[t] # Never
    <3>1. old[t] = Horizon + Cardinality(upto(t))
      BY <2>4
    <3>2. age[t] \in Horizon..(Never - 1)
      BY <2>1, <2>4, Numbers
    <3>3. age[t] \in upto(t)
      BY <2>1, <3>2
    <3>4. upto(t) \in SUBSET late /\ U \in SUBSET Tokens
      OBVIOUS
    <3> HIDE DEF old, upto
    <3>5. Cardinality(upto(t)) \in 0..Cardinality(Tokens) /\ Cardinality(upto(t)) >= 1
      BY <3>3, <3>4, FewAges
    <3> QED
      BY <3>1, <3>5, Numbers
  <2> QED
    BY <2>2, <2>3, <2>4
<1>3. old \in [Tokens -> 0..Never]
  <2>1. \A t \in Tokens : old[t] \in 0..Never
    BY <1>2, Numbers
  <2>2. DOMAIN old = Tokens /\ old = [t \in Tokens |-> old[t]]
    OBVIOUS
  <2> HIDE DEF old
  <2> QED
    BY <2>1, <2>2
<1> HIDE DEF old
<1> QED
  BY <1>1, <1>2, <1>3, Numbers

-----------------------------------------------------------------------------
(***************************************************************************)
(* One tick takes a step.                                                  *)
(***************************************************************************)
Groups == [critical : SUBSET Tokens, high : SUBSET Tokens, normal : SUBSET Tokens]

TicksTyped ==
    /\ stage \in [Ticks -> Stages] /\ unanswered \in [Ticks -> SUBSET Queries]
    /\ todo \in [Ticks -> Groups]
    /\ picked \in [Ticks -> SUBSET Tokens] /\ scans \in [Ticks -> SUBSET Tokens]
    /\ guarded \in [Ticks -> BOOLEAN] /\ queued \in [Ticks -> SUBSET Tokens]

RestTyped ==
    /\ TableTypeOK
    /\ process \in {"down", "up", "stopping"}
    /\ tierDue \in BOOLEAN /\ tierUpdates \in 0..MaxTierUpdates
    /\ sinceStamp \in [Tokens -> Nat]
    /\ starts \in 0..MaxStarts /\ adds \in 0..MaxAdds /\ faults \in 0..MaxFaults

TickOK(k) ==
    /\ Orderly(k)
    /\ Undone(k) \subseteq picked[k] \ queued[k]
    /\ stage[k] = "idle" => picked[k] \cup scans[k] = {}

LEMMA Parts ==
    /\ IInv <=> TicksTyped /\ RestTyped /\ (\A k \in Ticks : TickOK(k)) /\ Spared
    /\ IInv' <=> (TicksTyped /\ RestTyped /\ (\A k \in Ticks : TickOK(k)) /\ Spared)'
BY DEF IInv, TypeOK, TicksOrderly, TicksTyped, RestTyped, TickOK, Groups

OthersWait(k) ==
    \A i \in Ticks \ {k} :
        /\ stage'[i] = stage[i] /\ unanswered'[i] = unanswered[i] /\ todo'[i] = todo[i]
        /\ picked'[i] = picked[i] /\ scans'[i] = scans[i] /\ queued'[i] = queued[i]

LEMMA TickByTick ==
    ASSUME \A i \in Ticks : TickOK(i), NEW k \in Ticks, OthersWait(k), TickOK(k)'
    PROVE  \A i \in Ticks : TickOK(i)'
BY DEF OthersWait, TickOK, Orderly, Undone

LEMMA HoldingCounted ==
    ASSUME NEW A \in SUBSET Ticks, NEW B \in SUBSET Ticks, NEW k \in Ticks
    PROVE  /\ Cardinality(A) \in Nat /\ Cardinality(Ticks) \in Nat
           /\ A \subseteq B => Cardinality(A) <= Cardinality(B)
           /\ k \in B /\ A \subseteq B \ {k} => Cardinality(A) + 1 <= Cardinality(B)
           /\ k \notin A => Cardinality(A) < Cardinality(Ticks)
<1>1. IsFiniteSet(Ticks)
  BY SchedulerAssumption
<1>2. IsFiniteSet(A) /\ IsFiniteSet(B)
  BY <1>1, FS_Subset
<1>3. Cardinality(A) \in Nat /\ Cardinality(B) \in Nat /\ Cardinality(Ticks) \in Nat
  BY <1>1, <1>2, FS_CardinalityType
<1>4. ASSUME A \subseteq B
      PROVE  Cardinality(A) <= Cardinality(B)
  BY <1>2, <1>4, FS_Subset
<1>5. ASSUME k \in B, A \subseteq B \ {k}
      PROVE  Cardinality(A) + 1 <= Cardinality(B)
  <2>1. IsFiniteSet(B \ {k}) /\ Cardinality(B \ {k}) = Cardinality(B) - 1
    BY <1>2, <1>5, FS_RemoveElement
  <2>2. Cardinality(A) <= Cardinality(B \ {k})
    BY <1>5, <2>1, FS_Subset
  <2> QED
    BY <1>3, <2>1, <2>2
<1>6. ASSUME k \notin A
      PROVE  Cardinality(A) < Cardinality(Ticks)
  <2>1. IsFiniteSet(Ticks \ {k}) /\ Cardinality(Ticks \ {k}) = Cardinality(Ticks) - 1
    BY <1>1, FS_RemoveElement
  <2>2. A \subseteq Ticks \ {k}
    BY <1>6
  <2>3. Cardinality(A) <= Cardinality(Ticks \ {k})
    BY <2>1, <2>2, FS_Subset
  <2> QED
    BY <1>3, <2>1, <2>3
<1> QED
  BY <1>3, <1>4, <1>5, <1>6

\* A row that is fresh was so before, and none holds the token that did not;
\* or a tick that held it has queued it; or the row was just written by a tick
\* that does not hold it any more.
Spares(t) ==
    \/ /\ Fresh(t) /\ sinceStamp'[t] = sinceStamp[t]
       /\ Holding(t)' \subseteq Holding(t)
    \/ /\ Fresh(t) /\ sinceStamp'[t] = sinceStamp[t] + 1
       /\ \E k \in Holding(t) : Holding(t)' \subseteq Holding(t) \ {k}
    \/ sinceStamp'[t] = 0 /\ \E k \in Ticks : k \notin Holding(t)'

LEMMA SparedStep ==
    ASSUME Spared, sinceStamp \in [Tokens -> Nat],
           \A t \in Tokens : Fresh(t)' => Spares(t)
    PROVE  Spared'
<1>1. SUFFICES ASSUME NEW t \in Tokens, Fresh(t)'
               PROVE  (sinceStamp[t] + Cardinality(Holding(t)) < Cardinality(Ticks))'
  BY DEF Spared
<1>2. Holding(t) \in SUBSET Ticks /\ Holding(t)' \in SUBSET Ticks /\ sinceStamp[t] \in Nat
  BY DEF Holding
<1>3. Spares(t)
  BY <1>1
<1>4. CASE Fresh(t) /\ sinceStamp'[t] = sinceStamp[t] /\ Holding(t)' \subseteq Holding(t)
  <2>1. sinceStamp[t] + Cardinality(Holding(t)) < Cardinality(Ticks)
    BY <1>4 DEF Spared
  <2>2. Ticks # {}
    <3>1. CASE Ticks = {}
      <4>1. Holding(t) = {} /\ Cardinality(Ticks) = 0 /\ Cardinality(Holding(t)) = 0
        BY <1>2, <3>1, FS_EmptySet
      <4> QED
        BY <1>2, <2>1, <4>1
    <3> QED
      BY <3>1
  <2>3. PICK k \in Ticks : TRUE
    BY <2>2
  <2>4. /\ Cardinality(Holding(t)') <= Cardinality(Holding(t))
        /\ Cardinality(Holding(t)) \in Nat /\ Cardinality(Holding(t)') \in Nat
        /\ Cardinality(Ticks) \in Nat
    BY <1>2, <1>4, <2>3, HoldingCounted
  <2> QED
    BY <1>2, <1>4, <2>1, <2>4
<1>5. CASE /\ Fresh(t) /\ sinceStamp'[t] = sinceStamp[t] + 1
           /\ \E k \in Holding(t) : Holding(t)' \subseteq Holding(t) \ {k}
  <2>1. sinceStamp[t] + Cardinality(Holding(t)) < Cardinality(Ticks)
    BY <1>5 DEF Spared
  <2>2. PICK k \in Holding(t) : Holding(t)' \subseteq Holding(t) \ {k}
    BY <1>5
  <2>3. k \in Ticks
    BY <1>2, <2>2
  <2>4. /\ Cardinality(Holding(t)') + 1 <= Cardinality(Holding(t))
        /\ Cardinality(Holding(t)) \in Nat /\ Cardinality(Holding(t)') \in Nat
        /\ Cardinality(Ticks) \in Nat
    BY <1>2, <2>2, <2>3, HoldingCounted
  <2> QED
    BY <1>2, <1>5, <2>1, <2>4
<1>6. CASE sinceStamp'[t] = 0 /\ \E k \in Ticks : k \notin Holding(t)'
  <2>1. PICK k \in Ticks : k \notin Holding(t)'
    BY <1>6
  <2>2. /\ Cardinality(Holding(t)') < Cardinality(Ticks)
        /\ Cardinality(Holding(t)') \in Nat /\ Cardinality(Ticks) \in Nat
    BY <1>2, <2>1, HoldingCounted
  <2> QED
    BY <1>6, <2>2
<1> QED
  BY <1>3, <1>4, <1>5, <1>6 DEF Spares

\* What a step that queues nothing and selects nothing does for a token.
LEMMA SparesWhen ==
    ASSUME NEW t \in Tokens, Fresh(t), sinceStamp' = sinceStamp,
           \A k \in Ticks : t \in Undone(k)' => t \in Undone(k)
    PROVE  Spares(t)
BY DEF Spares, Holding

-----------------------------------------------------------------------------
(***************************************************************************)
(* What leaves the ticks alone.                                            *)
(***************************************************************************)
LEMMA TicksAlone ==
    ASSUME IInv, UNCHANGED tickVars, sinceStamp' = sinceStamp, RestTyped',
           \A t \in Tokens : Fresh(t)' => Fresh(t)
    PROVE  IInv'
<1>1. TicksTyped' /\ \A k \in Ticks : TickOK(k)'
  BY Parts DEF tickVars, TicksTyped, TickOK, Orderly, Undone
<1>2. Spared'
  <2>1. \A t \in Tokens, k \in Ticks : t \in Undone(k)' => t \in Undone(k)
    BY DEF tickVars, Undone
  <2>2. \A t \in Tokens : Fresh(t)' => Spares(t)
    BY <2>1, SparesWhen
  <2> QED
    BY <2>2, SparedStep, Parts DEF RestTyped
<1> QED
  BY <1>1, <1>2, Parts

LEMMA TableKeeps ==
    ASSUME IInv, UNCHANGED tickVars, sinceStamp' = sinceStamp,
           process' \in {"down", "up", "stopping"},
           tierDue' \in BOOLEAN, tierUpdates' \in 0..MaxTierUpdates,
           starts' \in 0..MaxStarts, adds' \in 0..MaxAdds, faults' \in 0..MaxFaults,
           \/ UNCHANGED tableVars
           \/ TimePasses \/ UpdateTiers
           \/ \E t \in Tokens : Add(t) \/ Remove(t) \/ Ages(t)
    PROVE  IInv'
<1>1. TableTypeOK
  BY Parts DEF RestTyped
<1>2. sinceStamp \in [Tokens -> Nat]
  BY Parts DEF RestTyped
<1>3. SUFFICES TableTypeOK' /\ \A t \in Tokens : Fresh(t)' => Fresh(t)
  BY <1>2, TicksAlone DEF RestTyped
<1>4. CASE UNCHANGED tableVars
  BY <1>1, <1>4 DEF TableTypeOK, tableVars, Fresh
<1>5. CASE TimePasses
  <2>1. /\ priceAge \in [Tokens -> 0..Never] /\ holderAge \in [Tokens -> 0..Never]
        /\ priceAge' = Older(priceAge) /\ holderAge' = Older(holderAge)
        /\ UNCHANGED <<monitored, tier, priority>>
    BY <1>1, <1>5 DEF TimePasses, TableTypeOK
  <2>2. /\ Older(priceAge) \in [Tokens -> 0..Never]
        /\ Older(holderAge) \in [Tokens -> 0..Never]
        /\ \A t \in Tokens : Older(priceAge)[t] <= ShortestInterval
                                => priceAge[t] <= ShortestInterval
    BY <2>1, OlderAges
  <2> QED
    BY <1>1, <2>1, <2>2 DEF TableTypeOK, Fresh
<1>6. CASE UpdateTiers
  <2>1. \A x \in Tiers : TierPriority[x] \in 1..5
    BY DEF Tiers, TierPriority
  <2>2. /\ UNCHANGED <<monitored, tier, priceAge, holderAge>>
        /\ priority' = [t \in Tokens |-> IF t \in monitored THEN TierPriority[tier[t]]
                                                            ELSE priority[t]]
    BY <1>6 DEF UpdateTiers
  <2>3. priority' \in [Tokens -> 1..5]
    BY <1>1, <2>1, <2>2 DEF TableTypeOK
  <2> QED
    BY <1>1, <2>2, <2>3 DEF TableTypeOK, Fresh
<1>7. ASSUME NEW t \in Tokens, Add(t)
      PROVE  TableTypeOK' /\ \A u \in Tokens : Fresh(u)' => Fresh(u)
  BY <1>1, <1>7 DEF Add, NewTokenPriority, TableTypeOK, Fresh
<1>8. ASSUME NEW t \in Tokens, Remove(t)
      PROVE  TableTypeOK' /\ \A u \in Tokens : Fresh(u)' => Fresh(u)
  <2>1. /\ monitored' = monitored \ {t}
        /\ priceAge' = [priceAge EXCEPT ![t] = Never]
        /\ holderAge' = [holderAge EXCEPT ![t] = Never]
        /\ UNCHANGED <<tier, priority>>
    BY <1>8 DEF Remove
  <2>2. Never \in 0..Never /\ ~(Never <= ShortestInterval)
    BY Numbers
  <2>3. TableTypeOK'
    BY <1>1, <2>1, <2>2 DEF TableTypeOK
  <2>4. \A u \in Tokens : priceAge'[u] = Never \/ priceAge'[u] = priceAge[u]
    BY <1>1, <2>1 DEF TableTypeOK
  <2> QED
    BY <2>2, <2>3, <2>4 DEF Fresh
<1>9. ASSUME NEW t \in Tokens, Ages(t)
      PROVE  TableTypeOK' /\ \A u \in Tokens : Fresh(u)' => Fresh(u)
  <2>1. \A x \in Tiers : NextTier[x] \in Tiers
    BY DEF Tiers, NextTier
  <2>2. /\ tier' = [tier EXCEPT ![t] = NextTier[tier[t]]]
        /\ UNCHANGED <<monitored, priority, priceAge, holderAge>>
    BY <1>1, <1>9 DEF Ages, TableTypeOK
  <2>3. tier' \in [Tokens -> Tiers]
    BY <1>1, <2>1, <2>2 DEF TableTypeOK
  <2> QED
    BY <1>1, <2>2, <2>3 DEF TableTypeOK, Fresh
<1> QED
  BY <1>4, <1>5, <1>6, <1>7, <1>8, <1>9

\* The table's own steps, the tiers, and the beginning of a shutdown.
LEMMA OutsideKeeps ==
    ASSUME IInv,
           \/ Stop \/ TiersUpdated \/ FiveMinutes \/ Clock
           \/ \E t \in Tokens : \/ addTokenToMonitoring(t) \/ removeTokenFromMonitoring(t)
                                \/ GrowsOlder(t)
    PROVE  IInv'
<1>1. /\ process \in {"down", "up", "stopping"} /\ tierDue \in BOOLEAN
      /\ tierUpdates \in 0..MaxTierUpdates /\ MaxTierUpdates \in Nat
      /\ starts \in 0..MaxStarts /\ MaxStarts \in Nat
      /\ adds \in 0..MaxAdds /\ MaxAdds \in Nat
      /\ faults \in 0..MaxFaults /\ MaxFaults \in Nat
  BY SchedulerAssumption, Parts DEF RestTyped
<1>2. CASE Stop
  BY <1>1, <1>2, TableKeeps DEF Stop, tierVars
<1>3. CASE TiersUpdated
  <2>1. tierUpdates' \in 0..MaxTierUpdates
    BY <1>1, <1>3 DEF TiersUpdated
  <2>2. faults' \in 0..MaxFaults /\ tierDue' \in BOOLEAN
    <3>1. \/ UpdateTiers /\ tierDue' = FALSE /\ UNCHANGED faults
          \/ Fault /\ UNCHANGED <<tableVars, tierDue>>
      BY <1>3, Zenon DEF TiersUpdated
    <3>2. faults' \in 0..MaxFaults
      BY <1>1, <3>1 DEF Fault
    <3>3. CASE tierDue' = FALSE
      BY <3>2, <3>3
    <3>4. CASE UNCHANGED <<tableVars, tierDue>>
      BY <1>1, <3>2, <3>4
    <3> QED
      BY <3>1, <3>3, <3>4
  <2>3. UpdateTiers \/ UNCHANGED tableVars
    BY <1>3 DEF TiersUpdated
  <2>4. UNCHANGED <<process, tickVars, sinceStamp, starts, adds>>
    BY <1>3 DEF TiersUpdated
  <2> QED
    BY <1>1, <2>1, <2>2, <2>3, <2>4, TableKeeps
<1>4. CASE FiveMinutes
  BY <1>1, <1>4, TableKeeps DEF FiveMinutes
<1>5. CASE Clock
  BY <1>1, <1>5, TableKeeps DEF Clock, tierVars
<1>6. ASSUME NEW t \in Tokens, addTokenToMonitoring(t)
      PROVE  IInv'
  <2>1. adds' \in 0..MaxAdds
    BY <1>1, <1>6 DEF addTokenToMonitoring
  <2> QED
    BY <1>1, <1>6, <2>1, TableKeeps DEF addTokenToMonitoring, tierVars
<1>7. ASSUME NEW t \in Tokens, removeTokenFromMonitoring(t)
      PROVE  IInv'
  <2>1. adds' \in 0..MaxAdds
    BY <1>1, <1>7 DEF removeTokenFromMonitoring
  <2> QED
    BY <1>1, <1>7, <2>1, TableKeeps DEF removeTokenFromMonitoring, tierVars
<1>8. ASSUME NEW t \in Tokens, GrowsOlder(t)
      PROVE  IInv'
  BY <1>1, <1>8, TableKeeps DEF GrowsOlder, tierVars
<1> QED
  BY <1>2, <1>3, <1>4, <1>5, <1>6, <1>7, <1>8

-----------------------------------------------------------------------------
(***************************************************************************)
(* The steps of a tick.                                                    *)
(***************************************************************************)
\* What is known of one tick.
LEMMA TickFacts ==
    ASSUME IInv, NEW k \in Ticks
    PROVE  /\ TicksTyped /\ RestTyped /\ Spared /\ TickOK(k)
           /\ \A i \in Ticks : TickOK(i)
           /\ sinceStamp \in [Tokens -> Nat]
           /\ stage[k] \in Stages /\ unanswered[k] \in SUBSET Queries
           /\ todo[k] \in Groups
           /\ picked[k] \in SUBSET Tokens /\ scans[k] \in SUBSET Tokens
           /\ queued[k] \in SUBSET Tokens
<1>1. TicksTyped /\ RestTyped /\ Spared /\ \A i \in Ticks : TickOK(i)
  BY Parts
<1> QED
  BY <1>1 DEF TicksTyped, RestTyped

\* A tick of which the table and the jobs learn nothing.
LEMMA QuietTick ==
    ASSUME IInv, NEW k \in Ticks, OthersWait(k), TicksTyped', TickOK(k)',
           UNCHANGED <<tableVars, sinceStamp>>,
           process' \in {"down", "up", "stopping"},
           tierDue' \in BOOLEAN, tierUpdates' \in 0..MaxTierUpdates,
           starts' \in 0..MaxStarts, adds' \in 0..MaxAdds, faults' \in 0..MaxFaults,
           \A t \in Undone(k)' : t \in Undone(k) \/ ~Fresh(t)
    PROVE  IInv'
<1>1. /\ Spared /\ sinceStamp \in [Tokens -> Nat]
      /\ RestTyped /\ \A i \in Ticks : TickOK(i)
  BY TickFacts
<1>2. \A i \in Ticks : TickOK(i)'
  BY <1>1, TickByTick
<1>3. RestTyped'
  BY <1>1 DEF RestTyped, TableTypeOK, tableVars
<1>4. Spared'
  <2>1. \A t \in Tokens : Fresh(t)' => Fresh(t)
    BY DEF Fresh, tableVars
  <2>2. ASSUME NEW t \in Tokens, Fresh(t), NEW i \in Ticks, t \in Undone(i)'
        PROVE  t \in Undone(i)
    BY <2>2 DEF OthersWait, Undone
  <2>3. \A t \in Tokens : Fresh(t)' => Spares(t)
    BY <2>1, <2>2, SparesWhen
  <2> QED
    BY <1>1, <2>3, SparedStep
<1> QED
  BY <1>2, <1>3, <1>4, Parts

\* A new tick has two statements before it.
LEMMA BeginKeeps ==
    ASSUME IInv, NEW k \in Ticks, Start(k) \/ Interval(k)
    PROVE  IInv'
<1>1. /\ TicksTyped /\ RestTyped /\ TickOK(k)
      /\ unanswered[k] \in SUBSET Queries /\ picked[k] \in SUBSET Tokens
  BY TickFacts
<1>2. PICK g \in BOOLEAN : BeginTick(k, g)
  BY DEF Start, Interval
<1>3. /\ UNCHANGED <<tableVars, sinceStamp, tierDue, adds, faults>>
      /\ process' = "up"
      /\ starts' \in 0..MaxStarts /\ tierUpdates' \in 0..MaxTierUpdates
  <2>1. /\ starts \in 0..MaxStarts /\ MaxStarts \in Nat
        /\ tierUpdates \in 0..MaxTierUpdates /\ MaxTierUpdates \in Nat
    BY <1>1, SchedulerAssumption DEF RestTyped
  <2>2. CASE Start(k)
    BY <2>1, <2>2 DEF Start, OneMoreTierUpdate
  <2>3. CASE Interval(k)
    BY <2>1, <2>3 DEF Interval, tierVars
  <2> QED
    BY <2>2, <2>3
<1>4. /\ stage[k] = "idle" /\ stage' = [stage EXCEPT ![k] = "selecting"]
      /\ unanswered' = [unanswered EXCEPT ![k] = Queries]
      /\ guarded' = [guarded EXCEPT ![k] = g]
      /\ UNCHANGED <<todo, picked, scans, queued>>
  BY <1>2 DEF BeginTick
<1>5. TicksTyped' /\ OthersWait(k)
  BY <1>1, <1>4 DEF TicksTyped, OthersWait, Stages
<1>6. TickOK(k)'
  <2>1. stage'[k] = "selecting"
    BY <1>1, <1>4 DEF TicksTyped
  <2>2. Undone(k)' = Undone(k)
    BY <1>4 DEF Undone
  <2> QED
    BY <1>1, <1>4, <2>1, <2>2 DEF TickOK, Orderly
<1> QED
  BY <1>1, <1>3, <1>4, <1>5, <1>6, QuietTick DEF RestTyped, Undone

\* A tick selects none that is fresh: every interval is at least the shortest.
LEMMA SelectPricesKeeps ==
    ASSUME IInv, NEW k \in Ticks, SelectPrices(k)
    PROVE  IInv'
<1>1. /\ TicksTyped /\ RestTyped /\ TickOK(k)
      /\ unanswered[k] \in SUBSET Queries
  BY TickFacts
<1>2. /\ "prices" \in unanswered[k]
      /\ unanswered' = [unanswered EXCEPT ![k] = unanswered[k] \ {"prices"}]
      /\ UNCHANGED <<tableVars, process, tierVars, stage, scans, guarded, queued,
                     sinceStamp, starts, adds>>
  BY <1>1 DEF SelectPrices, TicksTyped
<1>3. stage[k] = "selecting" /\ queued[k] = {}
  BY <1>1, <1>2 DEF TickOK, Orderly
<1>4. faults' \in 0..MaxFaults
  BY <1>1, SchedulerAssumption DEF SelectPrices, Fault, RestTyped
<1>5. CASE UNCHANGED <<picked, todo>>
  <2>1. TicksTyped' /\ OthersWait(k)
    BY <1>1, <1>2, <1>5 DEF TicksTyped, OthersWait
  <2>2. Undone(k)' = Undone(k)
    BY <1>5 DEF Undone
  <2>3. TickOK(k)'
    BY <1>1, <1>2, <1>3, <1>5, <2>2 DEF TickOK, Orderly
  <2> QED
    BY <1>1, <1>2, <1>4, <2>1, <2>2, <2>3, QuietTick DEF RestTyped, tierVars
<1>6. ASSUME NEW S \in DuePrices(batchSize),
             picked' = [picked EXCEPT ![k] = S],
             todo' = [todo EXCEPT ![k] = Grouped(S)]
      PROVE  IInv'
  <2>1. S \subseteq Due(PriceInterval, priceAge)
    BY DEF DuePrices, First
  <2>2. /\ monitored \subseteq Tokens /\ tier \in [Tokens -> Tiers]
        /\ priceAge \in [Tokens -> 0..Never]
    BY <1>1 DEF RestTyped, TableTypeOK
  <2>3. S \subseteq Tokens /\ \A t \in S : ~Fresh(t)
    BY <2>1, <2>2, Numbers DEF Due, Fresh
  <2>4. /\ Grouped(S) \in Groups
        /\ Grouped(S).critical \cup Grouped(S).high \cup Grouped(S).normal = S
    BY <2>3 DEF Grouped, Groups
  <2>5. TicksTyped' /\ OthersWait(k)
    BY <1>1, <1>2, <1>6, <2>3, <2>4 DEF TicksTyped, OthersWait
  <2>6. Undone(k)' = S /\ picked'[k] = S
    BY <1>1, <1>6, <2>4 DEF TicksTyped, Undone
  <2>7. TickOK(k)'
    BY <1>2, <1>3, <2>6 DEF TickOK, Orderly
  <2> QED
    BY <1>1, <1>2, <1>4, <2>3, <2>5, <2>6, <2>7, QuietTick DEF RestTyped, tierVars
<1> QED
  BY <1>5, <1>6 DEF SelectPrices

LEMMA SelectHoldersKeeps ==
    ASSUME IInv, NEW k \in Ticks, SelectHolders(k)
    PROVE  IInv'
<1>1. /\ TicksTyped /\ RestTyped /\ TickOK(k)
      /\ unanswered[k] \in SUBSET Queries
  BY TickFacts
<1>2. /\ "holders" \in unanswered[k]
      /\ unanswered' = [unanswered EXCEPT ![k] = unanswered[k] \ {"holders"}]
      /\ UNCHANGED <<tableVars, process, tierVars, stage, todo, picked, guarded, queued,
                     sinceStamp, starts, adds>>
  BY <1>1 DEF SelectHolders, TicksTyped
<1>3. stage[k] = "selecting"
  BY <1>1, <1>2 DEF TickOK, Orderly
<1>4. faults' \in 0..MaxFaults
  BY <1>1, SchedulerAssumption DEF SelectHolders, Fault, RestTyped
<1>5. PICK S \in SUBSET Tokens : scans' = [scans EXCEPT ![k] = S]
  <2>1. CASE UNCHANGED scans
    BY <1>1, <2>1 DEF TicksTyped
  <2>2. CASE \E S \in DueHolders(batchSize \div 2) : scans' = [scans EXCEPT ![k] = S]
    <3>1. PICK S \in DueHolders(batchSize \div 2) : scans' = [scans EXCEPT ![k] = S]
      BY <2>2
    <3>2. S \subseteq monitored
      BY DEF DueHolders, First, Due
    <3>3. S \in SUBSET Tokens
      BY <1>1, <3>2 DEF RestTyped, TableTypeOK
    <3> QED
      BY <3>1, <3>3
  <2> QED
    BY <2>1, <2>2 DEF SelectHolders
<1>6. TicksTyped' /\ OthersWait(k)
  BY <1>1, <1>2, <1>5 DEF TicksTyped, OthersWait
<1>7. Undone(k)' = Undone(k)
  BY <1>2 DEF Undone
<1>8. TickOK(k)'
  BY <1>1, <1>2, <1>3, <1>7 DEF TickOK, Orderly
<1> QED
  BY <1>1, <1>2, <1>4, <1>6, <1>7, <1>8, QuietTick DEF RestTyped, tierVars

\* How a tick ends, wherever it was.
LEMMA OverHolds ==
    ASSUME TicksTyped, NEW k \in Ticks, unanswered[k] = {}, Over(k)
    PROVE  /\ TicksTyped' /\ TickOK(k)' /\ OthersWait(k)
           /\ Undone(k)' = {}
<1>1. /\ stage' = [stage EXCEPT ![k] = "idle"]
      /\ todo' = [todo EXCEPT ![k] = Nothing]
      /\ picked' = [picked EXCEPT ![k] = {}] /\ scans' = [scans EXCEPT ![k] = {}]
      /\ guarded' = [guarded EXCEPT ![k] = TRUE] /\ queued' = [queued EXCEPT ![k] = {}]
      /\ UNCHANGED unanswered
  BY DEF Over
<1>2. Nothing \in Groups /\ Nothing.critical \cup Nothing.high \cup Nothing.normal = {}
  BY DEF Nothing, Groups
<1>3. TicksTyped'
  BY <1>1, <1>2 DEF TicksTyped, Stages
<1>4. OthersWait(k)
  BY <1>1 DEF TicksTyped, OthersWait
<1>5. Undone(k)' = {}
  BY <1>1, <1>2 DEF TicksTyped, Undone
<1>6. TickOK(k)'
  BY <1>1, <1>5 DEF TicksTyped, TickOK, Orderly
<1> QED
  BY <1>3, <1>4, <1>5, <1>6

LEMMA GoToHolds ==
    ASSUME TicksTyped, NEW k \in Ticks, TickOK(k), NEW next \in Stages \ {"idle", "selecting"},
           GoTo(k, next), unanswered[k] = {},
           next = "prices" \/ Undone(k) = {}
    PROVE  /\ TicksTyped' /\ TickOK(k)' /\ OthersWait(k)
           /\ Undone(k)' = Undone(k)
<1>1. /\ stage' = [stage EXCEPT ![k] = next]
      /\ UNCHANGED <<unanswered, todo, picked, scans, guarded, queued>>
  BY DEF GoTo
<1>2. TicksTyped'
  BY <1>1 DEF TicksTyped
<1>3. OthersWait(k)
  BY <1>1 DEF TicksTyped, OthersWait
<1>4. Undone(k)' = Undone(k) /\ stage'[k] = next
  BY <1>1 DEF TicksTyped, Undone
<1>5. TickOK(k)'
  BY <1>1, <1>4 DEF TickOK, Orderly
<1> QED
  BY <1>2, <1>3, <1>4, <1>5

LEMMA AnsweredKeeps ==
    ASSUME IInv, NEW k \in Ticks, Answered(k)
    PROVE  IInv'
<1>1. TicksTyped /\ RestTyped /\ TickOK(k)
  BY TickFacts
<1>2. /\ stage[k] = "selecting" /\ unanswered[k] = {}
      /\ tierUpdates' = IF tierDue THEN OneMoreTierUpdate ELSE tierUpdates
      /\ UNCHANGED <<tableVars, process, tierDue, sinceStamp, starts, adds, faults>>
  BY DEF Answered
<1>3. tierUpdates' \in 0..MaxTierUpdates
  <2>1. tierUpdates \in 0..MaxTierUpdates /\ MaxTierUpdates \in Nat
    BY <1>1, SchedulerAssumption DEF RestTyped
  <2>2. OneMoreTierUpdate \in 0..MaxTierUpdates
    BY <2>1 DEF OneMoreTierUpdate
  <2> QED
    BY <1>2, <2>1, <2>2
<1>4. Undone(k) \subseteq picked[k]
  BY <1>1 DEF TickOK
<1>5. /\ TicksTyped' /\ TickOK(k)' /\ OthersWait(k)
      /\ Undone(k)' \subseteq Undone(k)
  <2>1. CASE picked[k] # {} /\ GoTo(k, "prices")
    BY <1>1, <1>2, <2>1, GoToHolds DEF Stages
  <2>2. CASE picked[k] = {} /\ GoTo(k, "scans")
    BY <1>1, <1>2, <1>4, <2>2, GoToHolds DEF Stages
  <2>3. CASE picked[k] = {} /\ Over(k)
    BY <1>1, <1>2, <2>3, OverHolds
  <2> QED
    BY <2>1, <2>2, <2>3 DEF Answered
<1> QED
  BY <1>1, <1>2, <1>3, <1>5, QuietTick DEF RestTyped

\* What one addJob or addBulkJobs takes, and what is left of it.
LEMMA JobsOf ==
    ASSUME NEW k \in Ticks, todo[k] \in Groups, NEW S \in NextJobs(k)
    PROVE  /\ S \subseteq Undone(k)
           /\ Without(todo[k], S) \in Groups
           /\ LET rest == Without(todo[k], S)
              IN  rest.critical \cup rest.high \cup rest.normal = Undone(k) \ S
<1> DEFINE rest == Without(todo[k], S)
<1>1. todo[k] \in [critical : SUBSET Tokens, high : SUBSET Tokens, normal : SUBSET Tokens]
  BY DEF Groups
<1>2. rest = [g \in {"critical", "high", "normal"} |-> todo[k][g] \ S]
  BY <1>1 DEF Without
<1>3. /\ rest.critical = todo[k].critical \ S
      /\ rest.high = todo[k].high \ S /\ rest.normal = todo[k].normal \ S
  BY <1>2
<1>4. rest = [critical |-> rest.critical, high |-> rest.high, normal |-> rest.normal]
  BY <1>2
<1>5. rest \in Groups
  <2>1. /\ rest.critical \in SUBSET Tokens /\ rest.high \in SUBSET Tokens
        /\ rest.normal \in SUBSET Tokens
    BY <1>1, <1>3
  <2> HIDE DEF rest
  <2> QED
    BY <1>4, <2>1 DEF Groups
<1>6. S \subseteq Undone(k)
  <2>1. \/ S \in {{t} : t \in todo[k].critical}
        \/ S \in {{t} : t \in todo[k].high}
        \/ S \in {todo[k].normal}
    BY Zenon DEF NextJobs
  <2> QED
    BY <2>1 DEF Undone
<1> QED
  BY <1>3, <1>5, <1>6 DEF Undone

\* The tick that queues a job for a token does not hold it any more.
LEMMA CountedSpares ==
    ASSUME IInv, NEW k \in Ticks, NEW S \in SUBSET Tokens, S \subseteq Undone(k),
           Counted(S), OthersWait(k), Undone(k)' \subseteq Undone(k) \ S,
           UNCHANGED tableVars
    PROVE  Spared' /\ sinceStamp' \in [Tokens -> Nat]
<1>1. Spared /\ sinceStamp \in [Tokens -> Nat]
  BY TickFacts
<1>2. sinceStamp' = [t \in Tokens |-> IF t \in S THEN OneMoreJob(sinceStamp[t])
                                                  ELSE sinceStamp[t]]
  BY DEF Counted
<1>3. sinceStamp' \in [Tokens -> Nat]
  <2>1. \A t \in Tokens : OneMoreJob(sinceStamp[t]) \in Nat
    BY <1>1 DEF OneMoreJob
  <2> QED
    BY <1>1, <1>2, <2>1
<1>4. ASSUME NEW t \in Tokens, Fresh(t)'
      PROVE  Spares(t)
  <2>1. Fresh(t)
    BY <1>4 DEF Fresh, tableVars
  <2>2. \A i \in Ticks : t \in Undone(i)' => t \in Undone(i)
    BY DEF OthersWait, Undone
  <2>3. CASE t \notin S
    <3>1. sinceStamp'[t] = sinceStamp[t]
      BY <1>1, <1>2, <2>3
    <3> QED
      BY <2>1, <2>2, <3>1 DEF Spares, Holding
  <2>4. CASE t \in S
    <3>1. sinceStamp'[t] = sinceStamp[t] + 1
      <4>1. sinceStamp[t] + Cardinality(Holding(t)) < Cardinality(Ticks)
        BY <1>1, <2>1 DEF Spared
      <4>2. /\ sinceStamp[t] \in Nat /\ Cardinality(Ticks) \in Nat
            /\ Cardinality(Holding(t)) \in Nat
        BY <1>1, SchedulerAssumption, FS_Subset, FS_CardinalityType DEF Holding
      <4>3. sinceStamp[t] < Cardinality(Ticks)
        BY <4>1, <4>2
      <4> QED
        BY <1>2, <2>4, <4>3 DEF OneMoreJob
    <3>2. k \in Holding(t) /\ Holding(t)' \subseteq Holding(t) \ {k}
      BY <2>2, <2>4 DEF Holding
    <3> QED
      BY <2>1, <3>1, <3>2 DEF Spares
  <2> QED
    BY <2>3, <2>4
<1> QED
  BY <1>1, <1>3, <1>4, SparedStep

LEMMA QueuePriceKeeps ==
    ASSUME IInv, NEW k \in Ticks, QueuePrice(k)
    PROVE  IInv'
<1>1. /\ TicksTyped /\ RestTyped /\ TickOK(k) /\ todo[k] \in Groups
      /\ queued[k] \in SUBSET Tokens /\ picked[k] \in SUBSET Tokens
      /\ \A i \in Ticks : TickOK(i)
  BY TickFacts
<1> DEFINE rest(S) == Without(todo[k], S)
<1>2. PICK S \in NextJobs(k) :
          /\ todo' = [todo EXCEPT ![k] = rest(S)]
          /\ queued' = [queued EXCEPT ![k] = queued[k] \cup S]
          /\ Counted(S)
          /\ stage' = [stage EXCEPT ![k] =
                          IF rest(S) = Nothing THEN "stamping" ELSE stage[k]]
  BY <1>1 DEF QueuePrice, TicksTyped
<1>3. /\ stage[k] = "prices"
      /\ UNCHANGED <<tableVars, process, tierVars, unanswered, picked, scans, guarded,
                     starts, adds, faults>>
  BY DEF QueuePrice
<1>4. /\ S \subseteq Undone(k) /\ rest(S) \in Groups
      /\ rest(S).critical \cup rest(S).high \cup rest(S).normal = Undone(k) \ S
  BY <1>1, JobsOf
<1>5. rest(S) = Nothing => Undone(k) \ S = {}
  BY <1>4 DEF Nothing
<1>6. Undone(k) \subseteq picked[k] \ queued[k] /\ S \in SUBSET Tokens
  BY <1>1, <1>4 DEF TickOK
<1> HIDE DEF rest
<1>7. /\ todo'[k] = rest(S) /\ queued'[k] = queued[k] \cup S
      /\ stage'[k] \in {"stamping", "prices"}
      /\ stage'[k] = "stamping" => Undone(k) \ S = {}
  BY <1>1, <1>2, <1>3, <1>5 DEF TicksTyped
<1>8. Undone(k)' = Undone(k) \ S
  BY <1>4, <1>7 DEF Undone
<1>9. TicksTyped'
  <2>1. stage' \in [Ticks -> Stages]
    BY <1>1, <1>2 DEF TicksTyped, Stages
  <2>2. todo' \in [Ticks -> Groups]
    BY <1>1, <1>2, <1>4 DEF TicksTyped
  <2>3. queued' \in [Ticks -> SUBSET Tokens]
    BY <1>1, <1>2, <1>6 DEF TicksTyped
  <2> QED
    BY <1>1, <1>3, <2>1, <2>2, <2>3 DEF TicksTyped
<1>10. OthersWait(k)
  BY <1>1, <1>2, <1>3 DEF TicksTyped, OthersWait
<1>11. TickOK(k)'
  BY <1>1, <1>3, <1>6, <1>7, <1>8 DEF TickOK, Orderly
<1>12. Spared' /\ sinceStamp' \in [Tokens -> Nat]
  BY <1>2, <1>3, <1>4, <1>6, <1>8, <1>10, CountedSpares
<1>13. RestTyped'
  BY <1>1, <1>3, <1>12 DEF RestTyped, TableTypeOK, tableVars, tierVars
<1> QED
  BY <1>1, <1>9, <1>10, <1>11, <1>12, <1>13, TickByTick, Parts

\* A job may have been queued although addJob threw.
LEMMA ThrowsKeeps ==
    ASSUME IInv, NEW k \in Ticks, Throws(k)
    PROVE  IInv'
<1>1. /\ TicksTyped /\ RestTyped /\ TickOK(k) /\ todo[k] \in Groups
      /\ \A i \in Ticks : TickOK(i)
      /\ sinceStamp \in [Tokens -> Nat]
  BY TickFacts
<1>2. /\ stage[k] \in {"prices", "scans"} /\ Over(k) /\ Fault
      /\ UNCHANGED <<tableVars, tierVars, starts, adds>>
      /\ process' = IF guarded[k] THEN process ELSE "stopping"
  BY DEF Throws
<1>3. unanswered[k] = {} /\ Undone(k) \subseteq Tokens
  BY <1>1, <1>2 DEF TickOK, Orderly, Undone, Groups
<1>4. TicksTyped' /\ TickOK(k)' /\ OthersWait(k) /\ Undone(k)' = {}
  BY <1>1, <1>2, <1>3, OverHolds
<1>5. PICK S \in SUBSET Undone(k) : Counted(S)
  <2>1. CASE \E S \in NextJobs(k) \cup {{}} : Counted(S)
    <3>1. PICK S \in NextJobs(k) \cup {{}} : Counted(S)
      BY <2>1
    <3>2. S \subseteq Undone(k)
      BY <1>1, <3>1, JobsOf
    <3> QED
      BY <3>1, <3>2
  <2>2. CASE UNCHANGED sinceStamp
    <3>1. sinceStamp' = [t \in Tokens |-> IF t \in {} THEN OneMoreJob(sinceStamp[t])
                                                      ELSE sinceStamp[t]]
      BY <1>1, <2>2
    <3>2. Counted({})
      BY <3>1 DEF Counted
    <3> QED
      BY <3>2
  <2> QED
    BY <2>1, <2>2 DEF Throws
<1>6. Spared' /\ sinceStamp' \in [Tokens -> Nat]
  BY <1>2, <1>3, <1>4, <1>5, CountedSpares
<1>7. RestTyped'
  <2>1. faults' \in 0..MaxFaults
    BY <1>1, <1>2, SchedulerAssumption DEF Fault, RestTyped
  <2>2. process' \in {"down", "up", "stopping"}
    BY <1>1, <1>2 DEF RestTyped
  <2> QED
    BY <1>1, <1>2, <1>6, <2>1, <2>2 DEF RestTyped, TableTypeOK, tableVars, tierVars
<1> QED
  BY <1>1, <1>4, <1>6, <1>7, TickByTick, Parts

\* The tick that writes the row holds the token no more.
LEMMA StampKeeps ==
    ASSUME IInv, NEW k \in Ticks, Stamp(k)
    PROVE  IInv'
<1>1. /\ TicksTyped /\ RestTyped /\ TickOK(k)
      /\ \A i \in Ticks : TickOK(i)
      /\ Spared /\ sinceStamp \in [Tokens -> Nat]
  BY TickFacts
<1>2. /\ stage[k] = "stamping"
      /\ UNCHANGED <<process, tierVars, starts, adds>>
  BY DEF Stamp
<1>3. unanswered[k] = {} /\ Undone(k) = {}
  BY <1>1, <1>2 DEF TickOK, Orderly
<1>4. TicksTyped' /\ TickOK(k)' /\ OthersWait(k) /\ Undone(k)' = {}
  <2>1. CASE Over(k)
    BY <1>1, <1>3, <2>1, OverHolds
  <2>2. CASE GoTo(k, "scans")
    BY <1>1, <1>3, <2>2, GoToHolds DEF Stages
  <2> QED
    BY <2>1, <2>2 DEF Stamp
<1>5. /\ faults' \in 0..MaxFaults
      /\ \/ /\ StampPrices(picked[k])
            /\ sinceStamp' = [t \in Tokens |-> IF t \in picked[k] \cap monitored
                                               THEN 0 ELSE sinceStamp[t]]
         \/ UNCHANGED <<tableVars, sinceStamp>>
  BY <1>1, SchedulerAssumption DEF Stamp, Fault, RestTyped
<1>6. \A t \in Tokens, i \in Ticks : t \in Undone(i)' => t \in Undone(i)
  BY <1>4 DEF OthersWait, Undone
<1>7. CASE UNCHANGED <<tableVars, sinceStamp>>
  <2>1. RestTyped'
    BY <1>1, <1>2, <1>5, <1>7 DEF RestTyped, TableTypeOK, tableVars, tierVars
  <2>2. \A t \in Tokens : Fresh(t)' => Spares(t)
    <3>1. \A t \in Tokens : Fresh(t)' => Fresh(t)
      BY <1>7 DEF Fresh, tableVars
    <3> QED
      BY <1>6, <1>7, <3>1, SparesWhen
  <2>3. Spared'
    BY <1>1, <2>2, SparedStep
  <2> QED
    BY <1>1, <1>4, <2>1, <2>3, TickByTick, Parts
<1>8. CASE /\ StampPrices(picked[k])
           /\ sinceStamp' = [t \in Tokens |-> IF t \in picked[k] \cap monitored
                                              THEN 0 ELSE sinceStamp[t]]
  <2>1. /\ priceAge' = [t \in Tokens |-> IF t \in picked[k] \cap monitored
                                         THEN 0 ELSE priceAge[t]]
        /\ UNCHANGED <<monitored, tier, priority, holderAge>>
    BY <1>8 DEF StampPrices, Stamped
  <2>2. RestTyped'
    <3>1. TableTypeOK'
      BY <1>1, <2>1, Numbers DEF RestTyped, TableTypeOK
    <3>2. sinceStamp' \in [Tokens -> Nat]
      BY <1>1, <1>8
    <3> QED
      BY <1>1, <1>2, <1>5, <3>1, <3>2 DEF RestTyped, tierVars
  <2>3. ASSUME NEW t \in Tokens, Fresh(t)'
        PROVE  Spares(t)
    <3>1. CASE t \in picked[k] \cap monitored
      <4>1. sinceStamp'[t] = 0 /\ k \notin Holding(t)'
        BY <1>4, <1>8, <3>1 DEF Holding
      <4> QED
        BY <4>1 DEF Spares
    <3>2. CASE t \notin picked[k] \cap monitored
      <4>1. priceAge'[t] = priceAge[t] /\ sinceStamp'[t] = sinceStamp[t]
        BY <1>8, <2>1, <3>2
      <4>2. Fresh(t)
        BY <2>3, <4>1 DEF Fresh
      <4>3. Holding(t)' \subseteq Holding(t)
        BY <1>6 DEF Holding
      <4> QED
        BY <4>1, <4>2, <4>3 DEF Spares
    <3> QED
      BY <3>1, <3>2
  <2>4. Spared'
    BY <1>1, <2>3, SparedStep
  <2> QED
    BY <1>1, <1>4, <2>2, <2>4, TickByTick, Parts
<1> QED
  BY <1>5, <1>7, <1>8

\* Scans are queued, and their rows written, in the tick's last two stages.
LEMMA ScansKeep ==
    ASSUME IInv, NEW k \in Ticks, QueueScans(k) \/ Mark(k)
    PROVE  IInv'
<1>1. /\ TicksTyped /\ RestTyped /\ TickOK(k)
      /\ \A i \in Ticks : TickOK(i)
      /\ Spared /\ sinceStamp \in [Tokens -> Nat]
  BY TickFacts
<1>2. /\ stage[k] \in {"scans", "marking"}
      /\ UNCHANGED <<process, tierVars, sinceStamp, starts, adds>>
      /\ GoTo(k, "marking") \/ Over(k)
  BY DEF QueueScans, Mark
<1>3. unanswered[k] = {} /\ Undone(k) = {}
  BY <1>1, <1>2 DEF TickOK, Orderly
<1>4. TicksTyped' /\ TickOK(k)' /\ OthersWait(k) /\ Undone(k)' = {}
  <2>1. CASE Over(k)
    BY <1>1, <1>3, <2>1, OverHolds
  <2>2. CASE GoTo(k, "marking")
    BY <1>1, <1>3, <2>2, GoToHolds DEF Stages
  <2> QED
    BY <1>2, <2>1, <2>2
<1>5. /\ faults' \in 0..MaxFaults
      /\ UNCHANGED tableVars \/ StampHolders(scans[k])
  BY <1>1, SchedulerAssumption DEF QueueScans, Mark, Fault, RestTyped
<1>6. TableTypeOK' /\ priceAge' = priceAge
  <2>1. CASE UNCHANGED tableVars
    BY <1>1, <2>1 DEF RestTyped, TableTypeOK, tableVars
  <2>2. CASE StampHolders(scans[k])
    BY <1>1, <2>2, Numbers DEF RestTyped, TableTypeOK, StampHolders, Stamped
  <2> QED
    BY <1>5, <2>1, <2>2
<1>7. RestTyped'
  BY <1>1, <1>2, <1>5, <1>6 DEF RestTyped, tierVars
<1>8. Spared'
  <2>1. \A t \in Tokens, i \in Ticks : t \in Undone(i)' => t \in Undone(i)
    BY <1>4 DEF OthersWait, Undone
  <2>2. \A t \in Tokens : Fresh(t)' => Fresh(t)
    BY <1>6 DEF Fresh
  <2>3. \A t \in Tokens : Fresh(t)' => Spares(t)
    BY <1>2, <2>1, <2>2, SparesWhen
  <2> QED
    BY <1>1, <2>3, SparedStep
<1> QED
  BY <1>1, <1>4, <1>7, <1>8, TickByTick, Parts

\* What ticks had not done is lost with the process.
LEMMA ExitKeeps ==
    ASSUME IInv, Exit
    PROVE  IInv'
<1>1. RestTyped /\ Spared /\ sinceStamp \in [Tokens -> Nat]
  BY Parts DEF RestTyped
<1>2. /\ process' = "down" /\ tierDue' = TRUE /\ tierUpdates' = 0
      /\ stage' = [k \in Ticks |-> "idle"] /\ unanswered' = [k \in Ticks |-> {}]
      /\ todo' = [k \in Ticks |-> Nothing]
      /\ picked' = [k \in Ticks |-> {}] /\ scans' = [k \in Ticks |-> {}]
      /\ guarded' = [k \in Ticks |-> TRUE] /\ queued' = [k \in Ticks |-> {}]
      /\ UNCHANGED <<tableVars, sinceStamp, starts, adds>>
  BY DEF Exit
<1>3. Nothing \in Groups /\ Nothing.critical \cup Nothing.high \cup Nothing.normal = {}
  BY DEF Nothing, Groups
<1>4. TicksTyped'
  BY <1>2, <1>3 DEF TicksTyped, Stages
<1>5. \A k \in Ticks : Undone(k)' = {}
  BY <1>2, <1>3 DEF Undone
<1>6. \A k \in Ticks : TickOK(k)'
  BY <1>2, <1>5 DEF TickOK, Orderly
<1>7. RestTyped'
  <2>1. faults' \in 0..MaxFaults
    BY <1>1, SchedulerAssumption DEF Exit, Fault, RestTyped
  <2>2. 0 \in 0..MaxTierUpdates
    BY SchedulerAssumption
  <2> QED
    BY <1>1, <1>2, <2>1, <2>2 DEF RestTyped, TableTypeOK, tableVars
<1>8. Spared'
  <2>1. \A t \in Tokens : Fresh(t)' => Fresh(t)
    BY <1>2 DEF Fresh, tableVars
  <2>2. \A t \in Tokens : Fresh(t)' => Spares(t)
    BY <1>2, <1>5, <2>1, SparesWhen
  <2> QED
    BY <1>1, <2>2, SparedStep
<1> QED
  BY <1>4, <1>6, <1>7, <1>8, Parts

-----------------------------------------------------------------------------
(***************************************************************************)
(* The invariant.                                                          *)
(***************************************************************************)
LEMMA InitInvariant ==
    ASSUME Init
    PROVE  IInv
<1>1. Nothing \in Groups /\ Nothing.critical \cup Nothing.high \cup Nothing.normal = {}
  BY DEF Nothing, Groups
<1>2. TicksTyped
  BY <1>1 DEF Init, TicksTyped, Stages
<1>3. \A k \in Ticks : TickOK(k)
  <2>1. \A k \in Ticks : Undone(k) = {}
    BY <1>1 DEF Init, Undone
  <2> QED
    BY <2>1 DEF Init, TickOK, Orderly
<1>4. TableTypeOK /\ \A t \in Tokens : ~Fresh(t)
  <2>1. /\ monitored = {} /\ tier = FirstTier
        /\ priority = [t \in Tokens |-> 3]
        /\ priceAge = [t \in Tokens |-> Never] /\ holderAge = [t \in Tokens |-> Never]
    BY DEF Init, TableInit, NewTokenPriority
  <2>2. Never \in 0..Never /\ ~(Never <= ShortestInterval) /\ FirstTier \in [Tokens -> Tiers]
    BY Numbers, TableAssumption
  <2> QED
    BY <2>1, <2>2 DEF TableTypeOK, Fresh
<1>5. RestTyped
  BY <1>4, SchedulerAssumption DEF Init, RestTyped
<1>6. Spared
  BY <1>4 DEF Spared
<1> QED
  BY <1>2, <1>3, <1>5, <1>6, Parts

LEMMA NextKeepsInvariant ==
    ASSUME IInv, [Next]_vars
    PROVE  IInv'
<1>1. CASE UNCHANGED vars
  <2>1. UNCHANGED <<tableVars, process, tierVars, tickVars, sinceStamp, starts, adds, faults>>
    BY <1>1 DEF vars
  <2> QED
    BY <2>1, TableKeeps, Parts DEF RestTyped, tierVars
<1>2. ASSUME NEW k \in Ticks, Start(k) \/ Interval(k) \/ TickStep(k)
      PROVE  IInv'
  BY <1>2, BeginKeeps, SelectPricesKeeps, SelectHoldersKeeps, AnsweredKeeps,
     QueuePriceKeeps, ThrowsKeeps, StampKeeps, ScansKeep DEF TickStep
<1>3. CASE Exit
  BY <1>3, ExitKeeps
<1>4. CASE \/ Stop \/ TiersUpdated \/ FiveMinutes \/ Clock
           \/ \E t \in Tokens : \/ addTokenToMonitoring(t) \/ removeTokenFromMonitoring(t)
                                \/ GrowsOlder(t)
  BY <1>4, OutsideKeeps
<1> QED
  BY <1>1, <1>2, <1>3, <1>4 DEF Next

LEMMA Invariance == Spec => []IInv
<1>1. Init => IInv
  BY InitInvariant
<1>2. IInv /\ [Next]_vars => IInv'
  BY NextKeepsInvariant
<1> QED
  BY <1>1, <1>2, PTL DEF Spec

-----------------------------------------------------------------------------
(***************************************************************************)
(* The theorems.                                                           *)
(***************************************************************************)
\* Each variable has its type, and a tick holds no rows but those that it
\* selected and has not queued, and none when it is over
\* (TokenScheduler.ts:194-215).
THEOREM TypeCorrect == Spec => []TypeOK
<1>1. IInv => TypeOK
  BY DEF IInv
<1> QED
  BY <1>1, Invariance, PTL

\* While the price of a token is fresh, it has had fewer extra jobs than there
\* are ticks under way: with the guard of the SELECTs, ticks that overlap,
\* jobs that were queued although addJob threw, exits and rows that are
\* removed add no more (TokenScheduler.ts:139-143, 220-262).
THEOREM ExtraJobsAreBounded == Spec => []ExtraJobsBounded
<1>1. ASSUME IInv
      PROVE  ExtraJobsBounded
  <2>1. SUFFICES ASSUME NEW t \in Tokens, Fresh(t)
                 PROVE  sinceStamp[t] < Cardinality(Ticks)
    BY DEF ExtraJobsBounded, Fresh
  <2>2. sinceStamp[t] + Cardinality(Holding(t)) < Cardinality(Ticks)
    BY <1>1, <2>1 DEF IInv, Spared
  <2>3. sinceStamp[t] \in Nat
    BY <1>1 DEF IInv, TypeOK
  <2>4. /\ Cardinality(Holding(t)) \in Nat /\ Cardinality(Ticks) \in Nat
    BY SchedulerAssumption, FS_Subset, FS_CardinalityType DEF Holding
  <2> QED
    BY <2>2, <2>3, <2>4
<1> QED
  BY <1>1, Invariance, PTL

\* For any number of ticks at once, a row says that the price of its token was
\* updated only when the tick whose UPDATE this is queued a job for it, whatever
\* the ticks beside it queued: neither a call that fails, nor an exit between
\* two jobs, nor a row that is removed and made again hides a token whose job
\* was lost (TokenScheduler.ts:394-435).
THEOREM StampsHaveJobs == Spec => StampsFollowJobs
<1>1. ASSUME IInv, [Next]_vars
      PROVE  [\A t \in Tokens :
                 priceAge'[t] = 0 /\ priceAge[t] # 0 =>
                     \E k \in Ticks : Stamps(k) /\ t \in queued[k]]_vars
  <2>1. SUFFICES ASSUME NEW t \in Tokens, priceAge'[t] = 0, priceAge[t] # 0
                 PROVE  \E k \in Ticks : Stamps(k) /\ t \in queued[k]
    OBVIOUS
  <2>2. priceAge \in [Tokens -> 0..Never]
    BY <1>1 DEF IInv, TypeOK, TableTypeOK
  <2>3. priceAge' # priceAge
    BY <2>1
  <2>4. CASE TimePasses
    <3>1. priceAge' = Older(priceAge) /\ Older(priceAge)[t] # 0
      BY <2>2, <2>4, OlderAges DEF TimePasses
    <3> QED
      BY <2>1, <3>1
  <2>5. CASE \E u \in Tokens : Remove(u)
    <3>1. PICK u \in Tokens : priceAge' = [priceAge EXCEPT ![u] = Never]
      BY <2>5 DEF Remove
    <3>2. priceAge'[t] = Never \/ priceAge'[t] = priceAge[t]
      BY <2>2, <3>1
    <3> QED
      BY <2>1, <3>2, Numbers
  <2>6. CASE \E k \in Ticks : Stamps(k) /\ StampPrices(picked[k])
    <3>1. PICK k \in Ticks : Stamps(k) /\ StampPrices(picked[k])
      BY <2>6
    <3>2. t \in picked[k]
      BY <2>1, <3>1 DEF StampPrices, Stamped
    <3>3. Orderly(k)
      BY <1>1 DEF IInv, TicksOrderly
    <3>4. picked[k] \subseteq queued[k]
      BY <3>1, <3>3 DEF Orderly, Stamps
    <3> QED
      BY <3>1, <3>2, <3>4
  <2>7. \/ TimePasses \/ \E u \in Tokens : Remove(u)
        \/ \E k \in Ticks : Stamps(k) /\ StampPrices(picked[k])
    <3>1. ~(UNCHANGED vars)
      BY <2>3 DEF vars, tableVars
    <3>2. ASSUME NEW k \in Ticks, Start(k) \/ Interval(k) \/ TickStep(k)
          PROVE  Stamps(k) /\ StampPrices(picked[k])
      <4>1. Stamp(k) /\ StampPrices(picked[k])
        BY <2>3, <3>2
           DEF Start, Interval, TickStep, SelectPrices, SelectHolders, Answered,
               QueuePrice, Throws, Stamp, QueueScans, Mark, StampHolders, tableVars
      <4>2. stage'[k] \in {"idle", "scans"}
        <5>1. stage \in [Ticks -> Stages]
          BY <1>1 DEF IInv, TypeOK
        <5> QED
          BY <4>1, <5>1 DEF Stamp, Over, GoTo
      <4> QED
        BY <4>1, <4>2 DEF Stamp, Stamps
    <3>3. ~(Stop \/ Exit \/ FiveMinutes \/ TiersUpdated)
      BY <2>3 DEF Stop, Exit, FiveMinutes, TiersUpdated, UpdateTiers, tableVars
    <3>4. Clock => TimePasses
      BY DEF Clock
    <3>5. ASSUME NEW u \in Tokens, addTokenToMonitoring(u) \/ removeTokenFromMonitoring(u)
                                     \/ GrowsOlder(u)
          PROVE  Remove(u)
      BY <2>3, <3>5 DEF addTokenToMonitoring, removeTokenFromMonitoring, GrowsOlder, Add, Ages
    <3> QED
      BY <1>1, <3>1, <3>2, <3>3, <3>4, <3>5 DEF Next
  <2> QED
    BY <2>4, <2>5, <2>6, <2>7
<1> QED
  BY <1>1, Invariance, PTL DEF Spec, StampsFollowJobs
=============================================================================
