---------------------- MODULE VolumeAggregator_proofs ----------------------
(***************************************************************************)
(* A recorded trade stays as long as it counts, for any number of trades,  *)
(* any window and any longer maxTradeAge, unless its key expired between   *)
(* its two commands (VolumeAggregatorGap.cfg shows that it may).           *)
(*                                                                         *)
(* TradesStayCounted does not say how long the key has to live, so Tick    *)
(* does not keep it.  The invariant adds that the key of a recorded trade  *)
(* outlives it: what the key has to live and the age of the trade add up   *)
(* to maxTradeAge at least.  EXPIRE of a later trade only adds to that;    *)
(* and a cutoff (TypeOK) is never younger than maxTradeAge.  A trade that  *)
(* waits for its EXPIRE has no such claim: it is in the set or overtaken.  *)
(***************************************************************************)
EXTENDS VolumeAggregator, TLAPS

KeyOutlives ==
    \A t \in Trades \ overtaken :
        /\ stage[t] = "added" /\ age[t] <= Window => t \in entries
        /\ stage[t] = "recorded" /\ age[t] <= Window =>
              t \in entries /\ (ttl = Forever \/ ttl + age[t] >= maxTradeAge)

IInv == TypeOK /\ KeyOutlives

LEMMA InitIInv == Init => IInv
  BY WindowAssumption DEF Init, IInv, TypeOK, KeyOutlives, Stages, Old, Forever

LEMMA TradeKeepsIInv ==
    ASSUME IInv, NEW t \in Trades, Trade(t)
    PROVE  IInv'
<1>1. TypeOK'
  BY DEF IInv, TypeOK, Trade, Stages
<1>2. KeyOutlives'
  BY DEF IInv, TypeOK, KeyOutlives, Trade
<1>3. QED
  BY <1>1, <1>2 DEF IInv

\* A set that gains a member keeps the time to live it has.
LEMMA ZAddKeepsIInv ==
    ASSUME IInv, NEW t \in Trades, ZAdd(t)
    PROVE  IInv'
<1>1. faults' \in 0..MaxFaults /\ entries' \subseteq Trades /\ entries \subseteq entries'
  BY WindowAssumption DEF IInv, TypeOK, ZAdd, Fault
<1>2. TypeOK'
  BY <1>1 DEF IInv, TypeOK, ZAdd, Stages
<1>3. KeyOutlives'
  BY <1>1 DEF IInv, TypeOK, KeyOutlives, ZAdd
<1>4. QED
  BY <1>2, <1>3 DEF IInv

LEMMA ExpireKeepsIInv ==
    ASSUME IInv, NEW t \in Trades, Expire(t)
    PROVE  IInv'
<1>1. /\ ttl' = ttl \/ (entries # {} /\ ttl' = maxTradeAge)
      /\ stage' \in [Trades -> Stages]
      /\ stage'[t] \in {"recorded", "failed"}
      /\ stage'[t] = "recorded" /\ t \in entries => ttl' = maxTradeAge
      /\ \A u \in Trades \ {t} : stage'[u] = stage[u]
  BY DEF IInv, TypeOK, Expire, Recorded, Stages
<1>2. faults' \in 0..MaxFaults
  BY WindowAssumption DEF IInv, TypeOK, Expire, Fault
<1>3. maxTradeAge \in 1..maxTradeAge
  BY WindowAssumption
<1>4. TypeOK'
  BY <1>1, <1>2, <1>3 DEF IInv, TypeOK, Expire
<1>5. KeyOutlives'
  <2> SUFFICES ASSUME NEW u \in Trades \ overtaken, age[u] <= Window
               PROVE  /\ stage'[u] = "added" => u \in entries
                      /\ stage'[u] = "recorded" =>
                            u \in entries /\ (ttl' = Forever \/ ttl' + age[u] >= maxTradeAge)
    BY DEF KeyOutlives, Expire
  <2>1. age[u] \in Nat
    BY DEF IInv, TypeOK
  <2>2. stage'[u] = "added" => u \in entries
    BY <1>1 DEF IInv, KeyOutlives
  <2>3. ASSUME stage'[u] = "recorded"
        PROVE  /\ u \in entries
               /\ ttl' = maxTradeAge \/ ttl = Forever \/ ttl + age[u] >= maxTradeAge
    <3>1. CASE u = t
      <4>1. u \in entries
        BY <3>1 DEF IInv, KeyOutlives, Expire
      <4> QED
        BY <1>1, <2>3, <3>1, <4>1
    <3>2. CASE u # t
      BY <1>1, <2>3, <3>2 DEF IInv, KeyOutlives
    <3> QED
      BY <3>1, <3>2
  <2>4. QED
    BY <1>1, <2>1, <2>2, <2>3, WindowAssumption
<1>6. QED
  BY <1>4, <1>5 DEF IInv

LEMMA BeginCleanupKeepsIInv ==
    ASSUME IInv, BeginCleanup
    PROVE  IInv'
<1>1. maxTradeAge \in maxTradeAge..Old
  BY WindowAssumption DEF Old
<1>2. TypeOK'
  BY <1>1 DEF IInv, TypeOK, BeginCleanup
<1>3. KeyOutlives'
  BY DEF IInv, KeyOutlives, BeginCleanup
<1>4. QED
  BY <1>2, <1>3 DEF IInv

\* A trade that counts is younger than every cutoff, so its set is not emptied.
LEMMA CleanKeyKeepsIInv ==
    ASSUME IInv, NEW c \in cutoffs, CleanKey(c)
    PROVE  IInv'
<1> DEFINE removed == {t \in Trades : age[t] >= c}
<1>1. /\ cutoffs' = cutoffs \ {c}
      /\ entries' = entries \ removed
      /\ ttl' = IF entries \subseteq removed THEN Forever ELSE ttl
      /\ UNCHANGED <<stage, age, overtaken, faults>>
  BY DEF CleanKey
<1>2. c \in Int /\ c >= maxTradeAge
  BY WindowAssumption DEF IInv, TypeOK, Old
<1>3. \A t \in Trades : age[t] <= Window => t \notin removed
  BY <1>2, WindowAssumption DEF IInv, TypeOK, Old
<1> HIDE DEF removed
<1>4. TypeOK'
  <2>1. entries' \subseteq Trades /\ (entries' = {} => ttl' = Forever)
    BY <1>1 DEF IInv, TypeOK
  <2>2. ttl' \in 1..maxTradeAge \cup {Forever}
    BY <1>1 DEF IInv, TypeOK
  <2>3. QED
    BY <1>1, <2>1, <2>2 DEF IInv, TypeOK
<1>5. KeyOutlives'
  BY <1>1, <1>3 DEF IInv, KeyOutlives
<1>6. QED
  BY <1>4, <1>5 DEF IInv

LEMMA CleanupFailsKeepsIInv ==
    ASSUME IInv, NEW c \in cutoffs, CleanupFails(c)
    PROVE  IInv'
<1>1. faults' \in 0..MaxFaults
  BY WindowAssumption DEF IInv, TypeOK, CleanupFails, Fault
<1>2. TypeOK'
  BY <1>1 DEF IInv, TypeOK, CleanupFails
<1>3. KeyOutlives'
  BY DEF IInv, KeyOutlives, CleanupFails
<1>4. QED
  BY <1>2, <1>3 DEF IInv

\* What the key loses the trade gains; and when the key has no more to live, the
\* trade is past its window.
LEMMA TickKeepsIInv ==
    ASSUME IInv, Tick
    PROVE  IInv'
<1>1. \A a \in 0..Old : Older(a) \in 0..Old /\ a <= Older(a) /\ (a <= Window => Older(a) = a + 1)
  BY WindowAssumption DEF Older, Old
<1>2. \A c \in maxTradeAge..Old : Older(c) \in maxTradeAge..Old
  BY WindowAssumption DEF Older, Old
<1>3. TypeOK'
  <2>1. age' \in [Trades -> 0..Old]
    <3>1. 0 \in 0..Old
      BY WindowAssumption DEF Old
    <3>2. QED
      BY <3>1, <1>1 DEF IInv, TypeOK, Tick
  <2>2. cutoffs' \subseteq maxTradeAge..Old
    BY <1>2 DEF IInv, TypeOK, Tick
  <2>3. ttl' \in 1..maxTradeAge \cup {Forever}
    BY WindowAssumption DEF IInv, TypeOK, Tick
  <2>4. entries' \subseteq Trades /\ (entries' = {} => ttl' = Forever)
    BY WindowAssumption DEF IInv, TypeOK, Tick, Forever
  <2>5. QED
    BY <2>1, <2>2, <2>3, <2>4 DEF IInv, TypeOK, Tick
<1>4. KeyOutlives'
  <2>1. UNCHANGED stage /\ overtaken \subseteq overtaken'
    BY DEF Tick
  <2>2. ASSUME NEW t \in Trades \ overtaken', age'[t] <= Window, stage[t] # "new"
        PROVE  /\ t \in Trades \ overtaken /\ age[t] \in Nat
               /\ age[t] <= Window /\ age'[t] = age[t] + 1
    <3>1. age[t] \in 0..Old
      BY DEF IInv, TypeOK
    <3>2. age'[t] = Older(age[t])
      BY <2>2 DEF Tick
    <3> QED
      BY <1>1, <2>1, <2>2, <3>1, <3>2, WindowAssumption DEF Old
  <2>3. ASSUME NEW t \in Trades \ overtaken', age'[t] <= Window, stage[t] = "added"
        PROVE  t \in entries'
    <3>1. t \in entries
      BY <2>2, <2>3 DEF IInv, KeyOutlives
    <3>2. CASE UNCHANGED entries
      BY <3>1, <3>2
    <3>3. CASE overtaken' = overtaken \cup {u \in entries : stage[u] = "added"}
      BY <2>3, <3>1, <3>3
    <3> QED
      BY <3>2, <3>3 DEF Tick
  <2>4. ASSUME NEW t \in Trades \ overtaken', age'[t] <= Window, stage[t] = "recorded"
        PROVE  t \in entries' /\ (ttl' = Forever \/ ttl' + age'[t] >= maxTradeAge)
    <3>1. t \in entries /\ (ttl = Forever \/ ttl + age[t] >= maxTradeAge)
      BY <2>2, <2>4 DEF IInv, KeyOutlives
    <3>2. ttl # 1
      BY <2>2, <2>4, <3>1, WindowAssumption DEF Forever
    <3>3. CASE ttl = Forever /\ UNCHANGED <<entries, ttl>>
      BY <3>1, <3>3
    <3>4. CASE ttl \in 2..maxTradeAge /\ ttl' = ttl - 1 /\ UNCHANGED entries
      <4>1. ttl + age[t] >= maxTradeAge
        BY <3>1, <3>4, WindowAssumption DEF Forever
      <4>2. ttl' + age'[t] >= maxTradeAge
        BY <2>2, <2>4, <3>4, <4>1, WindowAssumption
      <4> QED
        BY <3>1, <3>4, <4>2
    <3> QED
      BY <3>2, <3>3, <3>4 DEF Tick
  <2> QED
    BY <2>1, <2>3, <2>4 DEF KeyOutlives
<1>5. QED
  BY <1>3, <1>4 DEF IInv

LEMMA CrashKeepsIInv ==
    ASSUME IInv, Crash
    PROVE  IInv'
<1>1. faults' \in 0..MaxFaults
  BY WindowAssumption DEF IInv, TypeOK, Crash, Fault
<1>2. TypeOK'
  BY <1>1 DEF IInv, TypeOK, Crash, Stages
<1>3. KeyOutlives'
  BY DEF IInv, KeyOutlives, Crash
<1>4. QED
  BY <1>2, <1>3 DEF IInv

LEMMA NextKeepsIInv == IInv /\ [Next]_vars => IInv'
<1> SUFFICES ASSUME IInv, [Next]_vars
             PROVE  IInv'
  OBVIOUS
<1>1. CASE UNCHANGED vars
  BY <1>1 DEF IInv, TypeOK, KeyOutlives, vars
<1>2. QED
  BY <1>1, TradeKeepsIInv, ZAddKeepsIInv, ExpireKeepsIInv, BeginCleanupKeepsIInv,
     CleanKeyKeepsIInv, CleanupFailsKeepsIInv, TickKeepsIInv, CrashKeepsIInv DEF Next

\* The aggregator keeps its types: no cutoff is younger than maxTradeAge, and a
\* key that is gone has no time to live.
THEOREM TypeCorrect == Spec => []TypeOK
<1>1. Spec => []IInv
  BY InitIInv, NextKeepsIInv, PTL DEF Spec
<1>2. IInv => TypeOK
  BY DEF IInv
<1>3. QED
  BY <1>1, <1>2, PTL

\* For any number of trades and of cleanups under way, and whatever commands fail,
\* a recorded trade is in the set as long as the window holds it, but for one
\* whose key expired after its ZADD and before its EXPIRE: beyond that gap all
\* that is needed is that maxTradeAge is longer than the longest window
\* (VolumeAggregator.ts:76-85).
THEOREM RecordedTradesAreCounted == Spec => []TradesStayCounted
<1>1. Spec => []IInv
  BY InitIInv, NextKeepsIInv, PTL DEF Spec
<1>2. IInv => TradesStayCounted
  BY DEF IInv, KeyOutlives, TradesStayCounted
<1>3. QED
  BY <1>1, <1>2, PTL
=============================================================================
