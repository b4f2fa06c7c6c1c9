------------------------- MODULE ShyftClient_proofs -------------------------
(***************************************************************************)
(* Proofs about the limiter and about withRetry on top of it, for every    *)
(* set of callers, every limit, window, number of attempts and delay.      *)
(*                                                                         *)
(* The first part is about RateLimiter by itself.  The second shows that   *)
(* the client keeps to it, step by step, takes over what was proved, and   *)
(* adds what the client promises: a check belongs to one caller, and to    *)
(* one operation.                                                          *)
(***************************************************************************)
EXTENDS ShyftClient, FiniteSetTheorems, TLAPS

-----------------------------------------------------------------------------
(***************************************************************************)
(* The limiter.                                                            *)
(***************************************************************************)
\* Every grant of the window is a member of the sorted set: the prune removes
\* only what is out of the window, and only a reset, which restarts the
\* history, removes more.
GrantsRecorded ==
    /\ IsFiniteSet(requests) /\ IsFiniteSet(granted)
    /\ \A r \in requests : r.score <= now
    /\ \A g \in granted : g \in requests /\ InWindow(g, now)

\* What a caller between its two round trips may rely on: it counted a
\* non-empty set of entries no younger than its call, its wait is still the
\* whole window, and whatever the sorted set holds beyond the counted entries
\* was added at its call or later.
CountedStable ==
    \A c \in Callers : check[c].stage = "counted" =>
        /\ check[c].counted # {}
        /\ check[c].at <= now
        /\ check[c].resetIn = windowMs
        /\ \A r \in check[c].counted : r.score <= check[c].at
        /\ \A r \in requests : r \in check[c].counted \/ r.score >= check[c].at

-----------------------------------------------------------------------------
\* The record a call starts with has its type.
LEMMA StartedTyped ==
    ASSUME LimiterTypeOK, NEW stage \in Stages, NEW allowed \in BOOLEAN
    PROVE  Started(stage, allowed) \in CheckRecord
BY DEF LimiterTypeOK, Started, CheckRecord

\* So has the record of no call, and one whose answer was replaced.
LEMMA NoCheckTyped == NoCheck \in CheckRecord
BY DEF NoCheck, CheckRecord, Stages

LEMMA AnswerTyped ==
    ASSUME NEW r \in CheckRecord, NEW stage \in Stages,
           NEW allowed \in BOOLEAN, NEW resetIn \in Nat
    PROVE  /\ [r EXCEPT !.stage = stage] \in CheckRecord
           /\ [r EXCEPT !.stage = stage, !.allowed = allowed] \in CheckRecord
           /\ [r EXCEPT !.stage = stage, !.resetIn = resetIn] \in CheckRecord
           /\ [r EXCEPT !.stage = stage, !.allowed = allowed, !.resetIn = resetIn]
                 \in CheckRecord
BY DEF CheckRecord

\* A step that changes the call of one caller keeps the types of all.
LEMMA OneCallTyped ==
    ASSUME LimiterTypeOK, NEW c \in Callers, NEW r \in CheckRecord,
           check' = [check EXCEPT ![c] = r]
    PROVE  check' \in [Callers -> CheckRecord]
BY DEF LimiterTypeOK

\* The types of the variables are kept by every step of the limiter.
THEOREM LimiterTypeCorrect == LimiterSpec => []LimiterTypeOK
<1>1. LimiterInit => LimiterTypeOK
  BY LimiterAssumption, NoCheckTyped DEF LimiterInit, LimiterTypeOK
<1>2. LimiterTypeOK /\ [LimiterNext]_limiterVars => LimiterTypeOK'
  <2> SUFFICES ASSUME LimiterTypeOK, [LimiterNext]_limiterVars PROVE LimiterTypeOK'
    OBVIOUS
  <2> /\ {"answered", "threw", "pruned", "status"} \subseteq Stages
      /\ windowMs \in Nat
    BY LimiterAssumption DEF Stages
  <2>1. ASSUME NEW c \in Callers, CheckLimit(c) PROVE LimiterTypeOK'
    BY <2>1, LimiterAssumption
       DEF CheckLimit, UnderLimit, InWindow, LimiterTypeOK, Entry, CheckRecord, Stages
  <2>2. ASSUME NEW c \in Callers, ReadOldest(c) PROVE LimiterTypeOK'
    <3>1. check[c] \in CheckRecord /\ check[c].at \in Nat
      BY DEF LimiterTypeOK, CheckRecord
    <3>2. CASE requests = {} /\ check' = [check EXCEPT ![c].stage = "answered"]
      <4>1. check' = [check EXCEPT ![c] = [check[c] EXCEPT !.stage = "answered"]]
        BY <3>2
      <4>2. [check[c] EXCEPT !.stage = "answered"] \in CheckRecord
        BY <3>1, AnswerTyped
      <4>3. QED
        BY <2>2, <4>1, <4>2, OneCallTyped DEF ReadOldest, LimiterTypeOK
    <3>3. ASSUME NEW oldest \in requests,
                 check' = [check EXCEPT
                    ![c].stage = "answered",
                    ![c].resetIn = ResetIn(oldest.score, check[c].at)]
          PROVE  LimiterTypeOK'
      <4>1. oldest.score \in Nat
        BY <3>3 DEF LimiterTypeOK, Entry
      <4>2. ResetIn(oldest.score, check[c].at) \in Nat
        BY <3>1, <4>1 DEF ResetIn
      <4> DEFINE r == [check[c] EXCEPT !.stage = "answered",
                          !.resetIn = ResetIn(oldest.score, check[c].at)]
      <4>3. check' = [check EXCEPT ![c] = r]
        BY <3>3
      <4>4. r \in CheckRecord
        BY <3>1, <4>2, AnswerTyped
      <4> HIDE DEF r
      <4>5. QED
        BY <2>2, <4>3, <4>4, OneCallTyped DEF ReadOldest, LimiterTypeOK
    <3>4. QED
      BY <2>2, <3>2, <3>3 DEF ReadOldest
  <2>3. ASSUME NEW c \in Callers, CheckError(c) PROVE LimiterTypeOK'
    <3>1. Started("answered", TRUE) \in CheckRecord
      BY StartedTyped
    <3>2. check' \in [Callers -> CheckRecord]
      BY <2>3, <3>1, OneCallTyped DEF CheckError
    <3>3. requests' \subseteq Entry
      BY <2>3 DEF CheckError, LimiterTypeOK, Entry
    <3>4. checks' \in Nat
      BY <2>3 DEF CheckError, LimiterTypeOK
    <3>5. now' \in Nat /\ redisOpen' \in BOOLEAN /\ granted' \subseteq Entry
      BY <2>3 DEF CheckError, LimiterTypeOK
    <3>6. QED
      BY <3>2, <3>3, <3>4, <3>5 DEF LimiterTypeOK
  <2>4. ASSUME NEW c \in Callers, OldestError(c) PROVE LimiterTypeOK'
    <3> DEFINE r == [check[c] EXCEPT !.stage = "answered", !.allowed = TRUE,
                                     !.resetIn = 0]
    <3>1. check' = [check EXCEPT ![c] = r]
      BY <2>4 DEF OldestError
    <3>2. r \in CheckRecord
      <4>1. check[c] \in CheckRecord
        BY DEF LimiterTypeOK
      <4>2. QED
        BY <4>1, AnswerTyped
    <3> HIDE DEF r
    <3>3. QED
      BY <2>4, <3>1, <3>2, OneCallTyped DEF OldestError, LimiterTypeOK
  <2>5. ASSUME NEW c \in Callers, CheckThrows(c) PROVE LimiterTypeOK'
    <3>1. Started("threw", FALSE) \in CheckRecord
      BY StartedTyped
    <3>2. check' \in [Callers -> CheckRecord]
      BY <2>5, <3>1, OneCallTyped DEF CheckThrows
    <3>3. checks' \in Nat
      BY <2>5 DEF CheckThrows, LimiterTypeOK
    <3>4. /\ now' \in Nat /\ redisOpen' \in BOOLEAN
          /\ requests' \subseteq Entry /\ granted' \subseteq Entry
      BY <2>5 DEF CheckThrows, LimiterTypeOK
    <3>5. QED
      BY <3>2, <3>3, <3>4 DEF LimiterTypeOK
  <2>6. ASSUME NEW c \in Callers, Return(c) PROVE LimiterTypeOK'
    BY <2>6, NoCheckTyped, OneCallTyped DEF Return, LimiterTypeOK
  <2>7. ASSUME NEW c \in Callers, StatusPrune(c) PROVE LimiterTypeOK'
    <3>1. Started("pruned", FALSE) \in CheckRecord
      BY StartedTyped
    <3>2. QED
      BY <2>7, <3>1, OneCallTyped DEF StatusPrune, LimiterTypeOK
  <2>8. ASSUME NEW c \in Callers, StatusCount(c) PROVE LimiterTypeOK'
    <3>1. check[c] \in CheckRecord
      BY DEF LimiterTypeOK
    <3>2. PICK allowed \in BOOLEAN, resetIn \in Nat :
              check' = [check EXCEPT ![c] = [check[c] EXCEPT
                  !.stage = "status", !.allowed = allowed, !.resetIn = resetIn]]
      <4>1. CASE check' = [check EXCEPT
                    ![c].stage = "status",
                    ![c].allowed = UnderLimit(Cardinality(requests)),
                    ![c].resetIn = windowMs]
        <5>1. UnderLimit(Cardinality(requests)) \in BOOLEAN
          BY DEF UnderLimit
        <5>2. QED
          BY <4>1, <5>1
      <4>2. CASE check' = [check EXCEPT ![c].stage = "status", ![c].allowed = TRUE]
        <5>1. check[c].resetIn \in Nat
          BY <3>1 DEF CheckRecord
        <5>2. [check[c] EXCEPT !.stage = "status", !.allowed = TRUE]
                = [check[c] EXCEPT !.stage = "status", !.allowed = TRUE,
                                   !.resetIn = check[c].resetIn]
          BY <3>1 DEF CheckRecord
        <5>3. QED
          BY <4>2, <5>1, <5>2
      <4>3. QED
        BY <2>8, <4>1, <4>2 DEF StatusCount
    <3> DEFINE r == [check[c] EXCEPT !.stage = "status", !.allowed = allowed,
                                     !.resetIn = resetIn]
    <3>3. r \in CheckRecord
      BY <3>1, AnswerTyped
    <3>4. check' = [check EXCEPT ![c] = r]
      BY <3>2
    <3> HIDE DEF r
    <3>5. QED
      BY <2>8, <3>3, <3>4, OneCallTyped DEF StatusCount, LimiterTypeOK
  <2>9. CASE Reset \/ KeyExpires \/ RedisCloses
    BY <2>9 DEF Reset, KeyExpires, RedisCloses, LimiterTypeOK
  <2>10. CASE Restart
    BY <2>10, NoCheckTyped DEF Restart, LimiterTypeOK
  <2>11. CASE Tick
    BY <2>11 DEF Tick, LimiterTypeOK
  <2>12. CASE UNCHANGED limiterVars
    BY <2>12 DEF limiterVars, LimiterTypeOK
  <2> QED
    BY <2>1, <2>2, <2>3, <2>4, <2>5, <2>6, <2>7, <2>8, <2>9, <2>10, <2>11,
       <2>12 DEF LimiterNext, LimiterStep
<1> QED
  BY <1>1, <1>2, PTL DEF LimiterSpec

-----------------------------------------------------------------------------
\* Pruning the sorted set with the present time keeps every recorded grant.
LEMMA PruneKeepsGrants ==
  ASSUME LimiterTypeOK, GrantsRecorded,
         NEW S, S = {r \in requests : InWindow(r, now)}
  PROVE  IsFiniteSet(S) /\ S \subseteq requests /\ granted \subseteq S
<1>1. S \in SUBSET requests
  OBVIOUS
<1>2. IsFiniteSet(S)
  BY <1>1, FS_Subset DEF GrantsRecorded
<1> QED
  BY <1>1, <1>2 DEF GrantsRecorded

\* A set of entries of which one is new and the others are already counted
\* under the limit does not exceed it.
LEMMA OneMoreFits ==
  ASSUME NEW S, IsFiniteSet(S), UnderLimit(Cardinality(S)),
         NEW T \in SUBSET S, NEW e
  PROVE  Cardinality(T \cup {e}) <= maxRequests
<1>1. /\ IsFiniteSet(T) /\ Cardinality(T) <= Cardinality(S)
      /\ Cardinality(T) \in Nat /\ Cardinality(S) \in Nat
  BY FS_Subset, FS_CardinalityType
<1>2. \/ Cardinality(T \cup {e}) = Cardinality(T)
      \/ Cardinality(T \cup {e}) = Cardinality(T) + 1
  BY <1>1, FS_AddElement
<1> QED
  BY <1>1, <1>2, LimiterAssumption DEF UnderLimit

\* Every step keeps the grants of the window recorded in the sorted set.
LEMMA GrantsRecordedStep ==
  LimiterTypeOK /\ GrantsRecorded /\ [LimiterNext]_limiterVars => GrantsRecorded'
<1> SUFFICES ASSUME LimiterTypeOK, GrantsRecorded, [LimiterNext]_limiterVars PROVE GrantsRecorded'
  OBVIOUS
<1> DEFINE kept  == {r \in requests : InWindow(r, now)}
           entry == [score |-> now, id |-> checks]
<1>1. IsFiniteSet(kept) /\ kept \subseteq requests /\ granted \subseteq kept
  BY PruneKeepsGrants
<1>2. IsFiniteSet(kept \cup {entry}) /\ IsFiniteSet(granted \cup {entry})
  BY <1>1, FS_AddElement DEF GrantsRecorded
<1>3. entry.score = now /\ InWindow(entry, now)
  BY LimiterAssumption DEF LimiterTypeOK, InWindow
<1>4. ASSUME NEW c \in Callers, CheckLimit(c) \/ CheckError(c) \/ StatusPrune(c)
      PROVE  GrantsRecorded'
  <2>1. /\ requests' \in {requests, kept, kept \cup {entry}}
        /\ \/ granted' = granted
           \/ granted' = granted \cup {entry} /\ requests' = kept \cup {entry}
        /\ now' = now
    BY <1>4 DEF CheckLimit, CheckError, StatusPrune
  <2> HIDE DEF kept, entry
  <2>2. IsFiniteSet(requests') /\ IsFiniteSet(granted')
    BY <2>1, <1>1, <1>2 DEF GrantsRecorded
  <2>3. \A r \in requests' : r.score <= now'
    BY <2>1, <1>1, <1>3 DEF GrantsRecorded, LimiterTypeOK
  <2>4. \A g \in granted' : g \in requests' /\ InWindow(g, now')
    BY <2>1, <1>1, <1>3 DEF GrantsRecorded
  <2> QED
    BY <2>2, <2>3, <2>4 DEF GrantsRecorded, InWindow
<1>5. CASE Reset
  BY <1>5, FS_EmptySet DEF Reset, GrantsRecorded
<1>6. CASE KeyExpires
  <2>1. requests' = {} /\ granted' = granted /\ now' = now
    BY <1>6 DEF KeyExpires
  <2>2. granted = {}
    BY <1>6, LimiterAssumption
    DEF KeyExpires, GrantsRecorded, InWindow, LimiterTypeOK, Entry
  <2> QED
    BY <2>1, <2>2, FS_EmptySet DEF GrantsRecorded
<1>7. CASE Tick
  <2>1. /\ now' = now + 1 /\ requests' = requests
        /\ granted' = {g \in granted : g.score + windowMs > now + 1}
    BY <1>7 DEF Tick
  <2>2. granted' \in SUBSET granted /\ IsFiniteSet(granted')
    BY <2>1, FS_Subset DEF GrantsRecorded
  <2> QED
    BY <2>1, <2>2, LimiterAssumption DEF GrantsRecorded, InWindow, LimiterTypeOK, Entry
<1>8. CASE \/ \E c \in Callers : \/ ReadOldest(c) \/ OldestError(c)
                                 \/ CheckThrows(c) \/ Return(c)
                                 \/ StatusCount(c)
           \/ RedisCloses \/ Restart \/ UNCHANGED limiterVars
  <2>1. UNCHANGED <<now, requests, granted>>
    BY <1>8 DEF ReadOldest, OldestError, CheckThrows, Return, StatusCount,
                RedisCloses, Restart, limiterVars
  <2> QED
    BY <2>1 DEF GrantsRecorded, InWindow
<1> QED
  BY <1>4, <1>5, <1>6, <1>7, <1>8 DEF LimiterNext, LimiterStep

-----------------------------------------------------------------------------
\* No step puts more than maxRequests grants into the window: the grants
\* already in it are among the entries the new check counted.
LEMMA SlidingWindowStep ==
  LimiterTypeOK /\ GrantsRecorded /\ SlidingWindow /\ [LimiterNext]_limiterVars => SlidingWindow'
<1> SUFFICES ASSUME LimiterTypeOK, GrantsRecorded, SlidingWindow, [LimiterNext]_limiterVars
             PROVE  SlidingWindow'
  OBVIOUS
<1>1. ASSUME NEW c \in Callers, CheckLimit(c) PROVE SlidingWindow'
  <2> DEFINE counted == {r \in requests : InWindow(r, now)}
             entry   == [score |-> now, id |-> checks]
  <2>1. granted' = IF UnderLimit(Cardinality(counted))
                     THEN granted \cup {entry} ELSE granted
    BY <1>1 DEF CheckLimit
  <2>2. IsFiniteSet(counted) /\ granted \in SUBSET counted
    BY PruneKeepsGrants
  <2>3. CASE UnderLimit(Cardinality(counted))
    BY <2>1, <2>2, <2>3, OneMoreFits DEF SlidingWindow
  <2> QED
    BY <2>1, <2>3 DEF SlidingWindow
<1>2. CASE Reset
  BY <1>2, FS_EmptySet, LimiterAssumption DEF Reset, SlidingWindow
<1>3. CASE Tick
  <2>1. granted' \in SUBSET granted
    BY <1>3 DEF Tick
  <2>2. /\ Cardinality(granted') <= Cardinality(granted)
        /\ Cardinality(granted') \in Nat /\ Cardinality(granted) \in Nat
    BY <2>1, FS_Subset, FS_CardinalityType DEF GrantsRecorded
  <2> QED
    BY <2>2, LimiterAssumption DEF SlidingWindow
<1>4. CASE \/ \E c \in Callers : \/ ReadOldest(c) \/ OldestError(c)
                                 \/ CheckThrows(c) \/ Return(c)
                                 \/ CheckError(c)
                                 \/ StatusPrune(c) \/ StatusCount(c)
           \/ KeyExpires \/ RedisCloses \/ Restart \/ UNCHANGED limiterVars
  BY <1>4 DEF ReadOldest, OldestError, CheckThrows, Return, CheckError,
              StatusPrune, StatusCount, KeyExpires, RedisCloses, Restart, limiterVars,
              SlidingWindow
<1> QED
  BY <1>1, <1>2, <1>3, <1>4 DEF LimiterNext, LimiterStep

\* The limiter's promise: whatever interleaving of checks, status reads,
\* Redis errors, key expiry and restarts, no window of windowMs holds more
\* than maxRequests grants.
THEOREM LimiterIsSafe == LimiterSpec => []SlidingWindow
<1>1. LimiterInit => GrantsRecorded /\ SlidingWindow
  BY FS_EmptySet, LimiterAssumption DEF LimiterInit, GrantsRecorded, SlidingWindow
<1>2. LimiterTypeOK /\ GrantsRecorded /\ SlidingWindow /\ [LimiterNext]_limiterVars
        => GrantsRecorded' /\ SlidingWindow'
  BY GrantsRecordedStep, SlidingWindowStep
<1> QED
  BY <1>1, <1>2, LimiterTypeCorrect, PTL DEF LimiterSpec

-----------------------------------------------------------------------------
\* The entry a denied caller waits for is at least as young as one of those
\* it was denied for, so its wait outlives one of them.
THEOREM WaitingIsNeverInVain == LimiterSpec => []ResetInSound
<1> DEFINE Inv == CountedStable /\ ResetInSound /\ GrantsRecorded
<1>1. LimiterInit => Inv
  BY FS_EmptySet
  DEF LimiterInit, CountedStable, ResetInSound, GrantsRecorded, NoCheck
<1>2. LimiterTypeOK /\ Inv /\ [LimiterNext]_limiterVars => Inv'
  <2> SUFFICES ASSUME LimiterTypeOK, Inv, [LimiterNext]_limiterVars
               PROVE  CountedStable' /\ ResetInSound'
    BY GrantsRecordedStep
  <2> USE LimiterAssumption DEF LimiterTypeOK
  <2>1. ASSUME NEW c \in Callers, CheckLimit(c)
        PROVE  CountedStable' /\ ResetInSound'
    <3> DEFINE counted == {r \in requests : InWindow(r, now)}
               entry   == [score |-> now, id |-> checks]
    <3>1. /\ requests' = counted \cup {entry} /\ now' = now
          /\ check' = [check EXCEPT ![c] =
                [stage   |-> IF counted = {} THEN "answered" ELSE "counted",
                 at      |-> now,
                 counted |-> counted,
                 id      |-> checks,
                 allowed |-> UnderLimit(Cardinality(counted)),
                 resetIn |-> windowMs]]
      BY <2>1 DEF CheckLimit
    <3>2. counted = {} => UnderLimit(Cardinality(counted))
      BY FS_EmptySet DEF UnderLimit
    <3>3. entry.score = now
      OBVIOUS
    <3>4. ASSUME NEW d \in Callers, d # c
          PROVE  check'[d] = check[d]
      BY <3>1, <3>4
    <3>5. CountedStable'
      <4> SUFFICES ASSUME NEW d \in Callers, check'[d].stage = "counted"
                   PROVE  /\ check'[d].counted # {}
                          /\ check'[d].at <= now
                          /\ check'[d].resetIn = windowMs
                          /\ \A r \in check'[d].counted : r.score <= check'[d].at
                          /\ \A r \in requests' : \/ r \in check'[d].counted
                                                  \/ r.score >= check'[d].at
        BY <3>1 DEF CountedStable
      <4>1. CASE d = c
        BY <4>1, <3>1, <3>3 DEF GrantsRecorded
      <4>2. CASE d # c
        BY <4>2, <3>1, <3>3, <3>4 DEF CountedStable
      <4> QED
        BY <4>1, <4>2
    <3>6. ResetInSound'
      <4> SUFFICES ASSUME NEW d \in Callers, check'[d].stage = "answered",
                          ~check'[d].allowed
                   PROVE  \E r \in check'[d].counted :
                             r.score + windowMs <= check'[d].at + check'[d].resetIn
        BY DEF ResetInSound
      <4>1. d # c
        BY <3>1, <3>2
      <4> QED
        BY <4>1, <3>4 DEF ResetInSound
    <3> QED
      BY <3>5, <3>6
  <2>2. ASSUME NEW c \in Callers, ReadOldest(c)
        PROVE  CountedStable' /\ ResetInSound'
    <3>1. UNCHANGED <<now, requests>> /\ check'[c].stage = "answered"
      BY <2>2 DEF ReadOldest, CheckRecord
    <3>2. \A d \in Callers : d # c => check'[d] = check[d]
      BY <2>2 DEF ReadOldest
    <3>3. CountedStable'
      BY <3>1, <3>2 DEF CountedStable
    <3>4. \E r \in check'[c].counted :
             r.score + windowMs <= check'[c].at + check'[c].resetIn
      <4>1. /\ check[c].counted # {} /\ check[c].counted \subseteq Entry
            /\ \A r \in check[c].counted : r.score <= check[c].at
            /\ \A r \in requests : r \in check[c].counted \/ r.score >= check[c].at
            /\ check[c].at \in Nat /\ check[c].resetIn = windowMs
        BY <2>2 DEF CountedStable, ReadOldest, CheckRecord
      <4>2. check'[c].counted = check[c].counted /\ check'[c].at = check[c].at
        BY <2>2 DEF ReadOldest, CheckRecord
      <4>3. CASE requests = {}
        <5>1. check'[c].resetIn = check[c].resetIn
          BY <2>2, <4>3 DEF ReadOldest, CheckRecord
        <5> QED
          BY <5>1, <4>1, <4>2 DEF Entry
      <4>4. CASE requests # {}
        <5>1. PICK oldest \in requests :
                 check'[c].resetIn = ResetIn(oldest.score, check[c].at)
          BY <2>2, <4>4 DEF ReadOldest, CheckRecord
        <5> QED
          BY <5>1, <4>1, <4>2 DEF Entry, ResetIn
      <4> QED
        BY <4>3, <4>4
    <3> QED
      BY <3>2, <3>3, <3>4 DEF ResetInSound
  <2>3. ASSUME NEW c \in Callers, CheckError(c) \/ CheckThrows(c) \/ StatusPrune(c)
        PROVE  CountedStable' /\ ResetInSound'
    <3>1. /\ now' = now
          /\ check'[c].stage # "counted"
          /\ check'[c].stage = "answered" => check'[c].allowed
          /\ \A d \in Callers : d # c => check'[d] = check[d]
          /\ \A r \in requests' : r \in requests \/ r.score = now
      BY <2>3 DEF CheckError, CheckThrows, StatusPrune, Started
    <3> QED
      BY <3>1 DEF CountedStable, ResetInSound
  <2>4. ASSUME NEW c \in Callers, OldestError(c) \/ Return(c) \/ StatusCount(c)
        PROVE  CountedStable' /\ ResetInSound'
    <3>1. /\ UNCHANGED <<now, requests>>
          /\ check'[c].stage # "counted"
          /\ check'[c].stage = "answered" => check'[c].allowed
          /\ \A d \in Callers : d # c => check'[d] = check[d]
      BY <2>4 DEF OldestError, Return, StatusCount, NoCheck, CheckRecord
    <3> QED
      BY <3>1 DEF CountedStable, ResetInSound
  <2>5. CASE Reset \/ KeyExpires \/ RedisCloses \/ Tick \/ UNCHANGED limiterVars
    <3>1. /\ now' = now \/ now' = now + 1
          /\ check' = check /\ requests' \subseteq requests
      BY <2>5 DEF Reset, KeyExpires, RedisCloses, Tick, limiterVars
    <3>2. ASSUME NEW c \in Callers PROVE check[c].at \in Nat
      BY DEF CheckRecord
    <3> QED
      BY <3>1, <3>2 DEF CountedStable, ResetInSound
  <2>6. CASE Restart
    BY <2>6 DEF Restart, NoCheck, CountedStable, ResetInSound
  <2> QED
    BY <2>1, <2>2, <2>3, <2>4, <2>5, <2>6 DEF LimiterNext, LimiterStep
<1> QED
  BY <1>1, <1>2, LimiterTypeCorrect, PTL DEF LimiterSpec

-----------------------------------------------------------------------------
(***************************************************************************)
(* The client.                                                             *)
(***************************************************************************)
\* Who is inside checkLimit has a call of the limiter, made in the past, and
\* nobody else has.
ChecksBelong ==
    \A c \in Callers :
        /\ call[c].stage = "checking" => /\ check[c].stage \in {"counted", "answered", "threw"}
                                         /\ check[c].at <= now
        /\ call[c].stage # "checking" => check[c].stage = "idle"

\* A caller holds a check while it is inside the limiter and, denied, while it
\* sleeps: the check that pays for its next operation.
Holds(c) == call[c].stage \in {"checking", "waiting"}

Ticket(c) == IF call[c].stage = "checking" THEN check[c].id ELSE call[c].id

\* The checks held are all different and none has paid for an operation yet.
TicketsFresh ==
    \A c \in Callers : Holds(c) =>
        /\ Ticket(c) < checks
        /\ Ticket(c) \notin paid
        /\ \A d \in Callers \ {c} : Holds(d) => Ticket(d) # Ticket(c)

\* A denied caller sleeps beyond the time one of its entries leaves the window.
WaitsLongEnough ==
    \A c \in Callers : call[c].stage = "waiting" =>
        \E r \in call[c].counted : r.score + windowMs < call[c].wake

ClientInv ==
    /\ ClientTypeOK /\ ChecksBelong /\ TicketsFresh /\ WaitsLongEnough
    /\ \A id \in paid : id < checks

-----------------------------------------------------------------------------
\* Every step of the client is a step of the limiter or leaves it alone.
LEMMA ClientStepIsLimiterStep == [Next]_vars => [LimiterNext]_limiterVars
<1> SUFFICES ASSUME [Next]_vars PROVE [LimiterNext]_limiterVars
  OBVIOUS
<1>1. ASSUME NEW c \in Callers, AskLimiter(c) PROVE LimiterNext
  BY <1>1 DEF AskLimiter, LimiterNext, LimiterStep
<1>2. ASSUME NEW c \in Callers, Begin(c) \/ Retry(c) PROVE LimiterNext
  BY <1>1, <1>2 DEF Begin, Retry
<1>3. ASSUME NEW c \in Callers, LimiterReplies(c) PROVE LimiterNext
  BY <1>3 DEF LimiterReplies, LimiterNext, LimiterStep
<1>4. ASSUME NEW c \in Callers, Allowed(c) \/ Denied(c) \/ LimiterThrew(c)
      PROVE  LimiterNext
  BY <1>4 DEF Allowed, Denied, LimiterThrew, LimiterNext, LimiterStep
<1>5. ASSUME NEW c \in Callers, Awake(c) \/ Answered(c) \/ GiveUp(c)
      PROVE  UNCHANGED limiterVars
  BY <1>5 DEF Awake, Answered, GiveUp
<1>6. CASE ProcessRestarts \/ ConnectionEnds \/ EntriesExpire \/ TimePasses
  BY <1>6 DEF ProcessRestarts, ConnectionEnds, EntriesExpire, TimePasses, LimiterNext
<1>7. CASE UNCHANGED vars
  BY <1>7 DEF vars, limiterVars
<1> QED
  BY <1>2, <1>3, <1>4, <1>5, <1>6, <1>7 DEF Next, Progress

\* Refinement: for every instance, what withRetry does to the limiter is a
\* behaviour of the limiter, restarts, errors and a closed Redis included.
THEOREM ClientKeepsToLimiter == Spec => LimiterSpec
<1>1. Init => LimiterInit
  BY DEF Init
<1> QED
  BY <1>1, ClientStepIsLimiterStep, PTL DEF Spec, LimiterSpec

\* So the grants of the client's calls keep to the limit, and the waits it
\* tells them are sound.
LEMMA LimiterInvariants ==
    Spec => []LimiterTypeOK /\ []SlidingWindow /\ []ResetInSound
BY ClientKeepsToLimiter, LimiterTypeCorrect, LimiterIsSafe,
   WaitingIsNeverInVain, PTL

-----------------------------------------------------------------------------
\* A power of two is a natural number: it counts the subsets of a set.
LEMMA PowerOfTwo ==
    ASSUME NEW n \in Nat
    PROVE  2 ^ n \in Nat
<1>1. IsFiniteSet(1 .. n) /\ Cardinality(1 .. n) = n
  BY FS_Interval
<1>2. IsFiniteSet(SUBSET (1 .. n)) /\ Cardinality(SUBSET (1 .. n)) = 2 ^ n
  BY <1>1, FS_SUBSET
<1> QED
  BY <1>2, FS_CardinalityType

\* The delay of the handler is a number of milliseconds.
LEMMA DelayTyped ==
    ASSUME ClientTypeOK, NEW c \in Callers
    PROVE  delay(c) \in Nat /\ 2 * delay(c) \in Nat
<1>1. call[c].attempt - 1 \in Nat
  BY ClientAssumption DEF ClientTypeOK
<1> DEFINE power == 2 ^ (call[c].attempt - 1)
<1>2. power \in Nat
  BY <1>1, PowerOfTwo
<1> HIDE DEF power
<1>3. retryDelayMs * power \in Nat
  BY <1>2, ClientAssumption
<1> QED
  BY <1>3 DEF delay, power

\* The record of a call.
Call == [stage : {"idle", "checking", "waiting", "running", "backoff"},
         attempt : 1 .. maxRetries, wake : Nat, id : Nat,
         counted : SUBSET Entry]

LEMMA IdleTyped ==
    ASSUME NEW stage \in {"idle", "checking"}, NEW attempt \in 1 .. maxRetries
    PROVE  /\ Idle \in Call
           /\ [Idle EXCEPT !.stage = stage] \in Call
           /\ [Idle EXCEPT !.stage = stage, !.attempt = attempt] \in Call
<1>1. 1 \in 1 .. maxRetries /\ 0 \in Nat /\ {} \in SUBSET Entry
  BY ClientAssumption
<1>2. Idle \in Call
  BY <1>1 DEF Idle, Call
<1>3. ASSUME NEW r \in Call
      PROVE  /\ [r EXCEPT !.stage = stage] \in Call
             /\ [r EXCEPT !.stage = stage, !.attempt = attempt] \in Call
  BY DEF Call
<1> QED
  BY <1>2, <1>3

LEMMA CallChangeTyped ==
    ASSUME NEW r \in Call, NEW wake \in Nat, NEW id \in Nat,
           NEW counted \in SUBSET Entry
    PROVE  /\ [r EXCEPT !.stage = "backoff", !.wake = wake] \in Call
           /\ [r EXCEPT !.stage = "waiting", !.wake = wake, !.id = id,
                        !.counted = counted] \in Call
BY DEF Call

\* A step that changes one call and leaves the history alone keeps the types.
LEMMA OneCallKeepsTypes ==
    ASSUME ClientTypeOK, NEW c \in Callers, NEW r \in Call,
           call' = [call EXCEPT ![c] = r],
           calls' \in 0 .. MaxCalls, paid' \in SUBSET Nat
    PROVE  ClientTypeOK'
BY DEF ClientTypeOK, Call

\* The handler's way out of an attempt that failed: it sleeps or returns.
LEMMA FailFacts ==
    ASSUME ClientTypeOK, NEW c \in Callers,
           Fail(c) \/ Settle(c) \/ Sleep(c, 2 * delay(c)), now \in Nat
    PROVE  \E r \in Call : /\ call' = [call EXCEPT ![c] = r]
                           /\ r.stage \in {"idle", "backoff"}
<1>1. call[c] \in Call /\ delay(c) \in Nat /\ 2 * delay(c) \in Nat
  BY DelayTyped DEF ClientTypeOK, Call
<1>2. CASE Settle(c)
  <2> 1 \in 1 .. maxRetries
    BY ClientAssumption
  <2>1. Idle \in Call
    BY IdleTyped
  <2>2. Idle.stage = "idle"
    BY DEF Idle
  <2> QED
    BY <1>2, <2>1, <2>2 DEF Settle
<1>3. ASSUME NEW ms \in Nat, Sleep(c, ms)
      PROVE  \E r \in Call : /\ call' = [call EXCEPT ![c] = r]
                             /\ r.stage \in {"idle", "backoff"}
  <2> DEFINE r == [call[c] EXCEPT !.stage = "backoff", !.wake = now + ms]
  <2>1. now + ms \in Nat
    OBVIOUS
  <2>2. r \in Call
    BY <1>1, <2>1, CallChangeTyped
  <2>3. r.stage = "backoff"
    BY <1>1 DEF Call
  <2>4. call' = [call EXCEPT ![c] = r]
    BY <1>3 DEF Sleep
  <2> QED
    BY <2>2, <2>3, <2>4
<1> QED
  BY <1>1, <1>2, <1>3 DEF Fail

-----------------------------------------------------------------------------
\* What one caller may do without running an operation: the other callers keep
\* what they have, and a check it holds afterwards is new or was its own.
OneCallerAsks(c) ==
    /\ now' = now /\ paid' = paid
    /\ checks' \in {checks, checks + 1}
    /\ \A d \in Callers \ {c} : call'[d] = call[d] /\ check'[d] = check[d]
    /\ call'[c].stage = "checking" =>
          /\ check'[c].stage \in {"counted", "answered", "threw"}
          /\ check'[c].at <= now
    /\ call'[c].stage # "checking" => check'[c].stage = "idle"
    /\ Holds(c)' => \/ Holds(c) /\ Ticket(c)' = Ticket(c)
                    \/ Ticket(c)' = checks /\ checks' = checks + 1
    /\ call'[c].stage = "waiting" =>
          \E r \in call'[c].counted : r.score + windowMs < call'[c].wake

LEMMA TicketTyped ==
    ASSUME LimiterTypeOK, ClientTypeOK, NEW c \in Callers
    PROVE  Ticket(c) \in Nat
<1>1. check[c].id \in Nat
  BY DEF LimiterTypeOK, CheckRecord
<1>2. call[c].id \in Nat
  BY DEF ClientTypeOK
<1> QED
  BY <1>1, <1>2 DEF Ticket

\* Such a step keeps everything but the types.
LEMMA AskingKeeps ==
    ASSUME LimiterTypeOK, ClientInv, NEW c \in Callers, OneCallerAsks(c)
    PROVE  /\ ChecksBelong' /\ TicketsFresh' /\ WaitsLongEnough'
           /\ \A id \in paid' : id < checks'
<1>1. ChecksBelong'
  BY DEF OneCallerAsks, ClientInv, ChecksBelong
<1>2. WaitsLongEnough'
  BY DEF OneCallerAsks, ClientInv, WaitsLongEnough
<1>4. checks \in Nat /\ paid \subseteq Nat /\ \A id \in paid : id < checks
  BY DEF LimiterTypeOK, ClientInv, ClientTypeOK
<1>5. \A id \in paid' : id < checks'
  BY <1>4 DEF OneCallerAsks
<1>6. \A d \in Callers \ {c} : (Holds(d)' <=> Holds(d)) /\ Ticket(d)' = Ticket(d)
  BY DEF OneCallerAsks, Holds, Ticket
<1>7. \A d \in Callers : Ticket(d) \in Nat
  BY TicketTyped DEF ClientInv
<1>8. \A d \in Callers : Holds(d) =>
         /\ Ticket(d) < checks
         /\ Ticket(d) \notin paid
         /\ \A e \in Callers \ {d} : Holds(e) => Ticket(e) # Ticket(d)
  BY DEF ClientInv, TicketsFresh
<1>9. /\ paid' = paid /\ checks' \in {checks, checks + 1}
      /\ Holds(c)' => \/ Holds(c) /\ Ticket(c)' = Ticket(c)
                      \/ Ticket(c)' = checks /\ checks' = checks + 1
  BY DEF OneCallerAsks
<1>10. ASSUME NEW d \in Callers, Holds(d)'
       PROVE  /\ Ticket(d)' < checks'
              /\ Ticket(d)' \notin paid'
              /\ \A e \in Callers \ {d} : Holds(e)' => Ticket(e)' # Ticket(d)'
  <2>1. CASE d = c
    <3>1. CASE Holds(c) /\ Ticket(c)' = Ticket(c)
      BY <1>4, <1>6, <1>7, <1>8, <1>9, <2>1, <3>1
    <3>2. CASE Ticket(c)' = checks /\ checks' = checks + 1
      <4>1. \A e \in Callers \ {c} : Holds(e)' => Ticket(e)' < checks
        BY <1>6, <1>8
      <4> QED
        BY <1>4, <1>6, <1>7, <1>9, <2>1, <3>2, <4>1
    <3> QED
      BY <1>9, <1>10, <2>1, <3>1, <3>2
  <2>2. CASE d # c
    <3>1. Holds(d) /\ Ticket(d)' = Ticket(d)
      BY <1>6, <1>10, <2>2
    <3>2. Ticket(d) < checks'
      BY <1>4, <1>7, <1>8, <1>9, <3>1
    <3>3. Holds(c)' => Ticket(c)' # Ticket(d)
      BY <1>4, <1>7, <1>8, <1>9, <2>2, <3>1
    <3> QED
      BY <1>6, <1>8, <1>9, <3>1, <3>2, <3>3
  <2> QED
    BY <2>1, <2>2
<1>11. TicketsFresh'
  BY <1>10 DEF TicketsFresh
<1> QED
  BY <1>1, <1>2, <1>5, <1>11

\* What a caller does when its operation leaves: the check it held has paid.
LEMMA RunningKeeps ==
    ASSUME LimiterTypeOK, ClientInv, NEW c \in Callers,
           Holds(c), Run(c, Ticket(c)),
           now' = now, checks' = checks, check'[c].stage = "idle",
           \A d \in Callers \ {c} : check'[d] = check[d]
    PROVE  /\ ChecksBelong' /\ TicketsFresh' /\ WaitsLongEnough'
           /\ \A id \in paid' : id < checks'
<1>1. /\ paid' = paid \cup {Ticket(c)}
      /\ call'[c].stage = "running"
      /\ \A d \in Callers \ {c} : call'[d] = call[d] /\ check'[d] = check[d]
  BY DEF Run, Idle, ClientInv, ClientTypeOK
<1>3. ChecksBelong'
  BY <1>1 DEF ClientInv, ChecksBelong
<1>4. WaitsLongEnough'
  BY <1>1 DEF ClientInv, WaitsLongEnough
<1>6. \A d \in Callers : Holds(d) =>
         /\ Ticket(d) < checks
         /\ Ticket(d) \notin paid
         /\ \A e \in Callers \ {d} : Holds(e) => Ticket(e) # Ticket(d)
  BY DEF ClientInv, TicketsFresh
<1>7. \A id \in paid' : id < checks'
  BY <1>1, <1>6 DEF ClientInv
<1>8. ~Holds(c)'
  BY <1>1 DEF Holds
<1>9. \A d \in Callers \ {c} : (Holds(d)' <=> Holds(d)) /\ Ticket(d)' = Ticket(d)
  BY <1>1 DEF Holds, Ticket
<1>10. TicketsFresh'
  BY <1>1, <1>6, <1>8, <1>9 DEF TicketsFresh
<1> QED
  BY <1>3, <1>4, <1>7, <1>10

-----------------------------------------------------------------------------
\* A fresh attempt asks the limiter and gets a check of its own.
LEMMA AttemptKeeps ==
    ASSUME LimiterTypeOK, ClientInv, NEW c \in Callers,
           NEW attempt \in 1 .. maxRetries, NEW r,
           r = [Idle EXCEPT !.stage = "checking", !.attempt = attempt],
           call' = [call EXCEPT ![c] = r], calls' \in 0 .. MaxCalls,
           AskLimiter(c), paid' = paid
    PROVE  ClientInv'
<1>1. r \in Call /\ r.stage = "checking"
  BY IdleTyped DEF Idle
<1>2. ClientTypeOK'
  BY <1>1, OneCallKeepsTypes DEF ClientInv, ClientTypeOK
<1>3. /\ call'[c].stage = "checking"
      /\ \A d \in Callers \ {c} : call'[d] = call[d]
  BY <1>1 DEF ClientInv, ClientTypeOK
<1>4. /\ now' = now /\ checks' = checks + 1
      /\ \A d \in Callers \ {c} : check'[d] = check[d]
      /\ check'[c].stage \in {"counted", "answered", "threw"}
      /\ check'[c].at = now /\ check'[c].id = checks
  BY DEF AskLimiter, CheckLimit, CheckError, CheckThrows, Started, LimiterTypeOK
<1>5. now \in Nat /\ check'[c].at <= now
  BY <1>4 DEF LimiterTypeOK
<1>6. OneCallerAsks(c)
  BY <1>3, <1>4, <1>5 DEF OneCallerAsks, Ticket
<1> QED
  BY <1>2, <1>6, AskingKeeps DEF ClientInv

LEMMA BeginKeeps ==
    ASSUME LimiterTypeOK, ClientInv, NEW c \in Callers, Begin(c)
    PROVE  ClientInv'
<1> DEFINE r == [Idle EXCEPT !.stage = "checking", !.attempt = 1]
<1>1. r = [Idle EXCEPT !.stage = "checking"]
  <2> 1 \in 1 .. maxRetries
    BY ClientAssumption
  <2>1. Idle \in Call /\ Idle.attempt = 1
    BY IdleTyped DEF Idle
  <2> QED
    BY <2>1 DEF Call
<1>2. call' = [call EXCEPT ![c] = r] /\ AskLimiter(c) /\ paid' = paid
  BY <1>1 DEF Begin
<1> HIDE DEF r
<1>3. calls' \in 0 .. MaxCalls /\ 1 \in 1 .. maxRetries
  BY ClientAssumption DEF Begin, ClientInv, ClientTypeOK
<1> QED
  BY <1>2, <1>3, AttemptKeeps DEF r

LEMMA RetryKeeps ==
    ASSUME LimiterTypeOK, ClientInv, NEW c \in Callers, Retry(c)
    PROVE  ClientInv'
<1> DEFINE attempt == call[c].attempt + 1
<1>1. attempt \in 1 .. maxRetries /\ calls' \in 0 .. MaxCalls
  BY ClientAssumption DEF Retry, ClientInv, ClientTypeOK
<1>2. /\ call' = [call EXCEPT ![c] =
             [Idle EXCEPT !.stage = "checking", !.attempt = attempt]]
      /\ AskLimiter(c) /\ paid' = paid
  BY DEF Retry
<1> HIDE DEF attempt
<1> QED
  BY <1>1, <1>2, AttemptKeeps

LEMMA LimiterRepliesKeeps ==
    ASSUME LimiterTypeOK, ClientInv, NEW c \in Callers, LimiterReplies(c)
    PROVE  ClientInv'
<1>1. ClientTypeOK'
  BY DEF LimiterReplies, ClientInv, ClientTypeOK
<1>2. /\ now' = now /\ checks' = checks /\ call' = call /\ paid' = paid
      /\ call[c].stage = "checking"
  BY DEF LimiterReplies, ReadOldest, OldestError
<1>3. /\ \A d \in Callers \ {c} : check'[d] = check[d]
      /\ check'[c].stage = "answered"
      /\ check'[c].at = check[c].at /\ check'[c].id = check[c].id
  <2>1. check[c] \in CheckRecord /\ check \in [Callers -> CheckRecord]
    BY DEF LimiterTypeOK
  <2> QED
    BY <2>1 DEF LimiterReplies, ReadOldest, OldestError, CheckRecord
<1>4. check[c].at <= now
  BY <1>2 DEF ClientInv, ChecksBelong
<1>5. OneCallerAsks(c)
  BY <1>2, <1>3, <1>4 DEF OneCallerAsks, Holds, Ticket
<1> QED
  BY <1>1, <1>5, AskingKeeps DEF ClientInv

\* A step that leaves a caller without a check of its own.
LEMMA LettingGoKeeps ==
    ASSUME LimiterTypeOK, ClientInv, NEW c \in Callers, NEW r \in Call,
           r.stage \in {"idle", "backoff"}, call' = [call EXCEPT ![c] = r],
           calls' = calls, paid' = paid, now' = now, checks' = checks,
           check'[c].stage = "idle",
           \A d \in Callers \ {c} : check'[d] = check[d]
    PROVE  ClientInv'
<1>1. ClientTypeOK'
  BY OneCallKeepsTypes DEF ClientInv, ClientTypeOK
<1>2. /\ call'[c].stage \in {"idle", "backoff"}
      /\ \A d \in Callers \ {c} : call'[d] = call[d]
  BY DEF ClientInv, ClientTypeOK
<1>3. OneCallerAsks(c)
  BY <1>2 DEF OneCallerAsks, Holds
<1> QED
  BY <1>1, <1>3, AskingKeeps DEF ClientInv

LEMMA LettingGoSteps ==
    ASSUME LimiterTypeOK, ClientInv, NEW c \in Callers,
           LimiterThrew(c) \/ Answered(c) \/ GiveUp(c)
    PROVE  ClientInv'
<1>1. now \in Nat /\ ClientTypeOK
  BY DEF LimiterTypeOK, ClientInv
<1>2. Fail(c) \/ Settle(c) \/ Sleep(c, 2 * delay(c))
  BY DEF LimiterThrew, Answered, GiveUp
<1>3. PICK r \in Call : /\ call' = [call EXCEPT ![c] = r]
                        /\ r.stage \in {"idle", "backoff"}
  BY <1>1, <1>2, FailFacts
<1>4. /\ calls' = calls /\ paid' = paid /\ now' = now /\ checks' = checks
      /\ \A d \in Callers \ {c} : check'[d] = check[d]
  BY DEF LimiterThrew, Answered, GiveUp, Return, limiterVars, LimiterTypeOK
<1>5. check'[c].stage = "idle"
  <2>1. CASE LimiterThrew(c)
    BY <2>1 DEF LimiterThrew, Return, NoCheck, LimiterTypeOK
  <2>2. CASE Answered(c) \/ GiveUp(c)
    <3>1. call[c].stage # "checking" /\ check' = check
      BY <2>2 DEF Answered, GiveUp, limiterVars
    <3> QED
      BY <3>1 DEF ClientInv, ChecksBelong
  <2> QED
    BY <2>1, <2>2
<1> QED
  BY <1>3, <1>4, <1>5, LettingGoKeeps

\* The denied caller's sleep ends after one of the entries it was denied for
\* has left: the answer was right at the time of the check, which is past.
LEMMA DeniedKeeps ==
    ASSUME LimiterTypeOK, ResetInSound, ClientInv, NEW c \in Callers, Denied(c)
    PROVE  ClientInv'
<1>1. check[c] \in CheckRecord
  BY DEF LimiterTypeOK
<1>2. /\ check[c].id \in Nat /\ check[c].at \in Nat /\ check[c].resetIn \in Nat
      /\ check[c].counted \in SUBSET Entry /\ now \in Nat
  BY <1>1 DEF CheckRecord, LimiterTypeOK
<1> DEFINE wake == now + check[c].resetIn + sleepMargin
           r == [call[c] EXCEPT !.stage = "waiting", !.wake = wake,
                    !.id = check[c].id, !.counted = check[c].counted]
<1>3. wake \in Nat
  BY <1>2, ClientAssumption
<1>4. call[c] \in Call
  BY DEF ClientInv, ClientTypeOK, Call
<1>5. call' = [call EXCEPT ![c] = r]
  BY DEF Denied
<1>6. PICK e \in check[c].counted : e.score + windowMs <= check[c].at + check[c].resetIn
  BY DEF Denied, ResetInSound
<1>7. e.score + windowMs < wake
  <2>1. check[c].at <= now
    BY DEF Denied, ClientInv, ChecksBelong
  <2>2. e.score \in Nat /\ windowMs \in Nat
    BY <1>2, <1>6, LimiterAssumption DEF Entry
  <2> QED
    BY <1>2, <1>6, <2>1, <2>2, ClientAssumption
<1> HIDE DEF wake
<1>8. r \in Call
  BY <1>2, <1>3, <1>4, CallChangeTyped
<1>9. /\ r.stage = "waiting" /\ r.wake = wake /\ r.id = check[c].id
      /\ r.counted = check[c].counted
  BY <1>4 DEF Call
<1> HIDE DEF r
<1>10. ClientTypeOK'
  BY <1>5, <1>8, OneCallKeepsTypes DEF Denied, ClientInv, ClientTypeOK
<1>11. call'[c] = r /\ \A d \in Callers \ {c} : call'[d] = call[d]
  BY <1>5 DEF ClientInv, ClientTypeOK
<1>12. /\ call[c].stage = "checking" /\ paid' = paid
       /\ now' = now /\ checks' = checks /\ check'[c].stage = "idle"
       /\ \A d \in Callers \ {c} : check'[d] = check[d]
  BY DEF Denied, Return, NoCheck, LimiterTypeOK
<1>13. Holds(c) /\ Ticket(c)' = Ticket(c)
  BY <1>9, <1>11, <1>12 DEF Holds, Ticket
<1>14. OneCallerAsks(c)
  BY <1>6, <1>7, <1>9, <1>11, <1>12, <1>13 DEF OneCallerAsks
<1> QED
  BY <1>10, <1>14, AskingKeeps DEF ClientInv

\* The operation of an allowed attempt, or of a denied one after its sleep.
LEMMA RunTyped ==
    ASSUME LimiterTypeOK, ClientTypeOK, NEW c \in Callers,
           NEW id \in Nat, Run(c, id), calls' = calls
    PROVE  ClientTypeOK'
<1> DEFINE r == [Idle EXCEPT !.stage = "running", !.attempt = call[c].attempt,
                             !.id = id]
<1>1. Idle \in Call /\ call[c].attempt \in 1 .. maxRetries
  <2>1. 1 \in 1 .. maxRetries
    BY ClientAssumption
  <2> QED
    BY <2>1, IdleTyped DEF ClientTypeOK
<1>2. r \in Call
  BY <1>1 DEF Call
<1>3. call' = [call EXCEPT ![c] = r] /\ paid' \in SUBSET Nat
  BY DEF Run, ClientTypeOK
<1> HIDE DEF r
<1> QED
  BY <1>2, <1>3, OneCallKeepsTypes DEF ClientTypeOK

LEMMA AllowedKeeps ==
    ASSUME LimiterTypeOK, ClientInv, NEW c \in Callers, Allowed(c)
    PROVE  ClientInv'
<1>1. Holds(c) /\ Ticket(c) = check[c].id /\ Ticket(c) \in Nat
  BY TicketTyped DEF Allowed, Holds, Ticket, ClientInv
<1>2. /\ Run(c, Ticket(c)) /\ calls' = calls
      /\ now' = now /\ checks' = checks /\ check'[c].stage = "idle"
      /\ \A d \in Callers \ {c} : check'[d] = check[d]
  BY <1>1 DEF Allowed, Return, NoCheck, LimiterTypeOK
<1>3. ClientTypeOK'
  BY <1>1, <1>2, RunTyped DEF ClientInv
<1> QED
  BY <1>1, <1>2, <1>3, RunningKeeps DEF ClientInv

LEMMA AwakeKeeps ==
    ASSUME LimiterTypeOK, ClientInv, NEW c \in Callers, Awake(c)
    PROVE  ClientInv'
<1>1. call[c].stage = "waiting" /\ now >= call[c].wake
  BY DEF Awake
<1>2. Holds(c) /\ Ticket(c) = call[c].id /\ Ticket(c) \in Nat
  BY <1>1, TicketTyped DEF Holds, Ticket, ClientInv
<1>3. /\ Run(c, Ticket(c)) /\ calls' = calls
      /\ now' = now /\ checks' = checks /\ check' = check
  BY <1>2 DEF Awake, limiterVars
<1>4. check'[c].stage = "idle"
  BY <1>1, <1>3 DEF ClientInv, ChecksBelong
<1>5. ClientTypeOK'
  BY <1>2, <1>3, RunTyped DEF ClientInv
<1> QED
  BY <1>2, <1>3, <1>4, <1>5, RunningKeeps DEF ClientInv

\* A restart loses the calls and the checks in flight.
LEMMA RestartKeeps ==
    ASSUME LimiterTypeOK, ClientInv, ProcessRestarts
    PROVE  ClientInv'
<1>1. /\ call' = [c \in Callers |-> Idle] /\ check' = [c \in Callers |-> NoCheck]
      /\ calls' = calls /\ paid' = paid /\ checks' = checks
  BY DEF ProcessRestarts, Restart
<1>2. Idle \in Call /\ Idle.stage = "idle" /\ NoCheck.stage = "idle"
  <2>1. 1 \in 1 .. maxRetries
    BY ClientAssumption
  <2> QED
    BY <2>1, IdleTyped DEF Idle, NoCheck
<1>3. ClientTypeOK'
  BY <1>1, <1>2 DEF ClientInv, ClientTypeOK, Call
<1>4. \A c \in Callers : call'[c].stage = "idle" /\ check'[c].stage = "idle"
  BY <1>1, <1>2
<1>5. ChecksBelong' /\ WaitsLongEnough'
  BY <1>4 DEF ChecksBelong, WaitsLongEnough
<1>6. TicketsFresh'
  BY <1>4 DEF TicketsFresh, Holds
<1>7. \A id \in paid' : id < checks'
  BY <1>1 DEF ClientInv
<1> QED
  BY <1>3, <1>5, <1>6, <1>7 DEF ClientInv

\* The surroundings touch neither calls nor checks; the clock goes on.
LEMMA SurroundingsKeep ==
    ASSUME LimiterTypeOK, ClientInv, UNCHANGED <<call, calls, check, checks, paid>>,
           now' \in {now, now + 1}
    PROVE  ClientInv'
<1>1. ClientTypeOK'
  BY DEF ClientInv, ClientTypeOK
<1>2. ChecksBelong'
  <2>1. now \in Nat /\ \A c \in Callers : check[c].at \in Nat
    BY DEF LimiterTypeOK, CheckRecord
  <2> QED
    BY <2>1 DEF ClientInv, ChecksBelong
<1>3. TicketsFresh'
  BY DEF ClientInv, TicketsFresh, Holds, Ticket
<1>4. WaitsLongEnough' /\ \A id \in paid' : id < checks'
  BY DEF ClientInv, WaitsLongEnough
<1> QED
  BY <1>1, <1>2, <1>3, <1>4 DEF ClientInv

LEMMA ClientInvKept ==
    LimiterTypeOK /\ ResetInSound /\ ClientInv /\ [Next]_vars => ClientInv'
<1> SUFFICES ASSUME LimiterTypeOK, ResetInSound, ClientInv, [Next]_vars
             PROVE  ClientInv'
  OBVIOUS
<1>1. ASSUME NEW c \in Callers, Begin(c) \/ Progress(c) PROVE ClientInv'
  BY <1>1, BeginKeeps, LimiterRepliesKeeps, AllowedKeeps, DeniedKeeps,
     AwakeKeeps, LettingGoSteps, RetryKeeps DEF Progress
<1>2. CASE ConnectionEnds \/ EntriesExpire
  BY <1>2, SurroundingsKeep
     DEF ConnectionEnds, EntriesExpire, RedisCloses, KeyExpires
<1>3. CASE TimePasses
  BY <1>3, SurroundingsKeep DEF TimePasses, Tick
<1>4. CASE UNCHANGED vars
  BY <1>4, SurroundingsKeep DEF vars
<1> QED
  BY <1>1, <1>2, <1>3, <1>4, RestartKeeps DEF Next

LEMMA ClientInvInit == Init => ClientInv
<1> SUFFICES ASSUME Init PROVE ClientInv
  OBVIOUS
<1>1. Idle \in Call /\ Idle.stage = "idle" /\ NoCheck.stage = "idle"
  <2>1. 1 \in 1 .. maxRetries
    BY ClientAssumption
  <2> QED
    BY <2>1, IdleTyped DEF Idle, NoCheck
<1>2. /\ \A c \in Callers : call[c].stage = "idle" /\ check[c].stage = "idle"
      /\ paid = {}
  BY <1>1 DEF Init, LimiterInit
<1>3. ClientTypeOK
  BY <1>1, ClientAssumption DEF Init, ClientTypeOK, Call
<1>4. ChecksBelong /\ WaitsLongEnough /\ \A id \in paid : id < checks
  BY <1>2 DEF ChecksBelong, WaitsLongEnough
<1>5. TicketsFresh
  BY <1>2 DEF TicketsFresh, Holds
<1> QED
  BY <1>3, <1>4, <1>5 DEF ClientInv

LEMMA ClientInvariant == Spec => []ClientInv
BY LimiterInvariants, ClientInvInit, ClientInvKept, PTL DEF Spec

\* The types of the calls: no call makes more than maxRetries attempts, and
\* every sleep is a number of milliseconds (ShyftClient.ts:102-148).
THEOREM ClientTypeCorrect == Spec => []ClientTypeOK
<1>1. ClientInv => ClientTypeOK
  BY DEF ClientInv
<1> QED
  BY <1>1, ClientInvariant, PTL

\* A request is sent by two steps only: of an allowed attempt, and of a denied
\* one that wakes up.
LEMMA WhoSends ==
    ASSUME LimiterTypeOK, ClientInv, [Next]_vars, NEW c \in Callers, Sends(c)
    PROVE  Allowed(c) \/ Awake(c)
<1>1. call \in [Callers -> Call]
  BY DEF ClientInv, ClientTypeOK, Call
<1>2. call'[c] # call[c]
  BY DEF Sends
<1>3. ASSUME NEW d \in Callers, NEW r \in Call, r.stage # "running",
             call' = [call EXCEPT ![d] = r]
      PROVE  FALSE
  <2>1. CASE d = c
    BY <1>1, <1>3, <2>1 DEF Sends
  <2>2. CASE d # c
    BY <1>1, <1>2, <1>3, <2>2
  <2> QED
    BY <2>1, <2>2
<1>4. ASSUME NEW d \in Callers, Begin(d) \/ Retry(d) PROVE FALSE
  <2>1. call'[d].stage = "checking" /\ \A e \in Callers \ {d} : call'[e] = call[e]
    BY <1>1, <1>4 DEF Begin, Retry, Idle
  <2> QED
    BY <1>2, <2>1 DEF Sends
<1>5. ASSUME NEW d \in Callers, Denied(d) PROVE FALSE
  <2>1. call'[d].stage = "waiting" /\ \A e \in Callers \ {d} : call'[e] = call[e]
    BY <1>1, <1>5 DEF Denied, Call
  <2> QED
    BY <1>2, <2>1 DEF Sends
<1>6. ASSUME NEW d \in Callers, LimiterThrew(d) \/ Answered(d) \/ GiveUp(d)
      PROVE  FALSE
  <2>1. now \in Nat /\ ClientTypeOK
    BY DEF LimiterTypeOK, ClientInv
  <2>2. Fail(d) \/ Settle(d) \/ Sleep(d, 2 * delay(d))
    BY <1>6 DEF LimiterThrew, Answered, GiveUp
  <2>3. PICK r \in Call : /\ call' = [call EXCEPT ![d] = r]
                          /\ r.stage \in {"idle", "backoff"}
    BY <2>1, <2>2, FailFacts
  <2> QED
    BY <1>3, <2>3
<1>7. ASSUME NEW d \in Callers, Allowed(d) \/ Awake(d), d # c PROVE FALSE
  BY <1>1, <1>2, <1>7 DEF Allowed, Awake, Run
<1>8. CASE ProcessRestarts
  BY <1>8 DEF ProcessRestarts, Idle, Sends
<1>9. CASE UNCHANGED call
  BY <1>2, <1>9
<1> QED
  BY <1>4, <1>5, <1>6, <1>7, <1>8, <1>9
     DEF Next, Progress, LimiterReplies, ConnectionEnds, EntriesExpire, TimePasses, vars

\* For every limit, window, number of attempts and set of callers, a denied
\* attempt runs only after an entry it was denied for has left the window
\* (ShyftClient.ts:106-114).
THEOREM DenialsAreHonoured == Spec => DenialHonoured
<1>1. ASSUME LimiterTypeOK, ClientInv, [Next]_vars,
             NEW c \in Callers, Sends(c), call[c].stage = "waiting"
      PROVE  \E r \in call[c].counted : r.score + windowMs < now
  <2>1. now >= call[c].wake
    BY <1>1, WhoSends DEF Allowed, Awake
  <2>2. PICK r \in call[c].counted : r.score + windowMs < call[c].wake
    BY <1>1 DEF ClientInv, WaitsLongEnough
  <2>3. /\ r.score \in Nat /\ windowMs \in Nat
        /\ now \in Nat /\ call[c].wake \in Nat
    <3>1. r \in Entry
      BY <1>1 DEF ClientInv, ClientTypeOK
    <3> QED
      BY <1>1, <3>1, LimiterAssumption
         DEF Entry, LimiterTypeOK, ClientInv, ClientTypeOK
  <2>4. r.score + windowMs < now
    BY <2>1, <2>2, <2>3
  <2> QED
    BY <2>4
<1>2. LimiterTypeOK /\ ClientInv /\ [Next]_vars =>
        [\A c \in Callers : Sends(c) /\ call[c].stage = "waiting" =>
           \E r \in call[c].counted : r.score + windowMs < now]_vars
  BY <1>1
<1> QED
  BY <1>2, ClientInvariant, LimiterInvariants, PTL DEF Spec, DenialHonoured

\* For every instance, no two operations share a check: whatever fails, a
\* retry asks again and a denied attempt runs once (ShyftClient.ts:103-114).
THEOREM OperationsArePaid == Spec => EveryOperationPaid
<1>1. ASSUME LimiterTypeOK, ClientInv, [Next]_vars, NEW c \in Callers, Sends(c)
      PROVE  call'[c].id < checks /\ call'[c].id \notin paid
  <2>1. Holds(c) /\ Run(c, Ticket(c))
    BY <1>1, WhoSends DEF Allowed, Awake, Holds, Ticket
  <2>2. call'[c].id = Ticket(c)
    BY <1>1, <2>1 DEF Run, Idle, ClientInv, ClientTypeOK
  <2> QED
    BY <1>1, <2>1, <2>2 DEF ClientInv, TicketsFresh
<1>2. LimiterTypeOK /\ ClientInv /\ [Next]_vars =>
        [\A c \in Callers : Sends(c) =>
           call'[c].id < checks /\ call'[c].id \notin paid]_vars
  BY <1>1
<1> QED
  BY <1>2, ClientInvariant, LimiterInvariants, PTL DEF Spec, EveryOperationPaid
=============================================================================
