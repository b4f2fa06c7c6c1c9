--------------------- MODULE TransactionPipeline_proofs ---------------------
(***************************************************************************)
(* TransactionStreamer.ts and the handlers behind it: what the memory of   *)
(* signatures guarantees, for every value of its two bounds; that effects  *)
(* happen once per memory, and rows follow trades, for any set of          *)
(* transactions and any number of emissions; and that the subscription     *)
(* loops neither multiply nor die, for any number of starts, subscriptions,*)
(* attempts and errors.  The loops share no variable with the rest: what   *)
(* the server delivers, and how often, is left open there.                 *)
(*                                                                         *)
(* The memory: neither RecentRemembered nor MemoryBounded is inductive.    *)
(* The first needs to know where a recent signature sits: the one accepted *)
(* age[s] acceptances ago is age[s] places from the end.  The second needs *)
(* the counter: the memory exceeds MaxProcessed by at most the insertions  *)
(* counted since the last cleanup.                                         *)
(*                                                                         *)
(* The pipeline: OncePerMemory is not inductive: it says nothing of what   *)
(* is under way.  Accounted is: every signature that is not remembered,    *)
(* and every handler that has not taken effect yet, is counted as well.    *)
(* Each step moves one unit from one of these to another, or gives one     *)
(* back to the memory with a mark in forgotten.                            *)
(***************************************************************************)
EXTENDS TransactionPipeline, TransactionStreamer, FiniteSetTheorems, TLAPS

-----------------------------------------------------------------------------
(***************************************************************************)
(* The memory.                                                             *)
(***************************************************************************)
\* A signature of age n < MaxProcessed is the (n+1)-th from the end.
RecentAtTheEnd ==
    \A s \in Signatures :
        age[s] < MaxProcessed =>
            /\ age[s] < Len(processedSignatures)
            /\ processedSignatures[Len(processedSignatures) - age[s]] = s

CountedExcess ==
    Len(processedSignatures) <= MaxProcessed + signatureCleanupCounter

MemoryInv == MemoryTypeOK /\ RecentAtTheEnd /\ CountedExcess

\* What slice(-MAX) keeps: a suffix, in order, of at most MaxProcessed.
LEMMA KeepRecentIsSuffix ==
    ASSUME NEW seq \in Seq(Signatures)
    PROVE  /\ KeepRecent(seq) \in Seq(Signatures)
           /\ Len(KeepRecent(seq)) <= MaxProcessed
           /\ Len(KeepRecent(seq)) <= Len(seq)
           /\ Len(seq) <= MaxProcessed => Len(KeepRecent(seq)) = Len(seq)
           /\ Len(seq) > MaxProcessed => Len(KeepRecent(seq)) = MaxProcessed
           /\ \A n \in Nat : n < Len(KeepRecent(seq)) =>
                 KeepRecent(seq)[Len(KeepRecent(seq)) - n] = seq[Len(seq) - n]
<1>1. CASE Len(seq) <= MaxProcessed
  BY <1>1, MemoryAssumption DEF KeepRecent
<1>2. CASE Len(seq) > MaxProcessed
  <2> DEFINE kept == SubSeq(seq, Len(seq) - MaxProcessed + 1, Len(seq))
  <2>1. KeepRecent(seq) = kept
    BY <1>2, MemoryAssumption DEF KeepRecent
  <2>2. kept \in Seq(Signatures) /\ Len(kept) = MaxProcessed
    BY <1>2, MemoryAssumption
  <2>3. \A n \in Nat : n < MaxProcessed =>
            kept[MaxProcessed - n] = seq[Len(seq) - n]
    BY <1>2, MemoryAssumption
  <2>4. QED
    BY <1>2, <2>1, <2>2, <2>3, MemoryAssumption
<1>3. QED
  BY <1>1, <1>2, MemoryAssumption

LEMMA MemoryInvInit == MemoryInit => MemoryInv
  BY MemoryAssumption
     DEF MemoryInit, MemoryInv, MemoryTypeOK, RecentAtTheEnd, CountedExcess, NeverAccepted

\* Accepting s puts it last, and everybody else one place further away.
LEMMA AcceptKeepsMemory ==
    ASSUME MemoryInv, NEW s \in Signatures, Accept(s)
    PROVE  MemoryInv'
<1> DEFINE added == Append(processedSignatures, s)
<1>1. /\ processedSignatures \in Seq(Signatures)
      /\ signatureCleanupCounter \in 0..(CleanupEvery - 1)
      /\ age \in [Signatures -> 0..MaxProcessed]
      /\ RecentAtTheEnd /\ CountedExcess
  BY DEF MemoryInv, MemoryTypeOK
<1>2. /\ added \in Seq(Signatures)
      /\ Len(added) = Len(processedSignatures) + 1
      /\ added[Len(added)] = s
      /\ \A i \in 1..Len(processedSignatures) : added[i] = processedSignatures[i]
  BY <1>1
<1>3. age' \in [Signatures -> 0..MaxProcessed]
  BY <1>1, MemoryAssumption DEF Accept, AgesAfter
<1>4. \A t \in Signatures :
          age'[t] < MaxProcessed =>
              age'[t] < Len(added) /\ added[Len(added) - age'[t]] = t
  <2> SUFFICES ASSUME NEW t \in Signatures, age'[t] < MaxProcessed
               PROVE  age'[t] < Len(added) /\ added[Len(added) - age'[t]] = t
    OBVIOUS
  <2>1. CASE t = s
    <3>1. age'[t] = 0
      BY <2>1 DEF Accept, AgesAfter
    <3>2. QED
      BY <1>1, <1>2, <2>1, <3>1
  <2>2. CASE t # s
    <3>1. age[t] \in Nat /\ age[t] < MaxProcessed /\ age'[t] = age[t] + 1
      BY <1>1, <2>2, MemoryAssumption DEF Accept, AgesAfter
    <3>2. /\ age[t] < Len(processedSignatures)
          /\ processedSignatures[Len(processedSignatures) - age[t]] = t
      BY <1>1, <3>1 DEF RecentAtTheEnd
    <3>3. Len(added) - age'[t] = Len(processedSignatures) - age[t]
      BY <1>1, <1>2, <3>1
    <3>4. Len(processedSignatures) - age[t] \in 1..Len(processedSignatures)
      BY <1>1, <3>1, <3>2
    <3>5. QED
      BY <1>1, <1>2, <3>1, <3>2, <3>3, <3>4
  <2>3. QED
    BY <2>1, <2>2
<1> HIDE DEF added
<1>5. CASE signatureCleanupCounter + 1 >= CleanupEvery
  <2>1. processedSignatures' = KeepRecent(added) /\ signatureCleanupCounter' = 0
    BY <1>5 DEF Accept, added
  <2>2. MemoryTypeOK'
    BY <1>2, <1>3, <2>1, KeepRecentIsSuffix, MemoryAssumption DEF MemoryTypeOK
  <2>3. CountedExcess'
    BY <1>2, <2>1, KeepRecentIsSuffix, MemoryAssumption DEF CountedExcess
  <2>4. RecentAtTheEnd'
    <3> SUFFICES ASSUME NEW t \in Signatures, age'[t] < MaxProcessed
                 PROVE  /\ age'[t] < Len(processedSignatures')
                        /\ processedSignatures'[Len(processedSignatures') - age'[t]] = t
      BY DEF RecentAtTheEnd
    <3>1. age'[t] \in Nat /\ age'[t] < Len(added) /\ added[Len(added) - age'[t]] = t
      BY <1>3, <1>4
    <3>2. age'[t] < Len(KeepRecent(added))
      BY <1>2, <3>1, KeepRecentIsSuffix, MemoryAssumption
    <3>3. QED
      BY <1>2, <2>1, <3>1, <3>2, KeepRecentIsSuffix
  <2>5. QED
    BY <2>2, <2>3, <2>4 DEF MemoryInv
<1>6. CASE ~(signatureCleanupCounter + 1 >= CleanupEvery)
  <2>1. /\ processedSignatures' = added
        /\ signatureCleanupCounter' = signatureCleanupCounter + 1
    BY <1>6 DEF Accept, added
  <2>2. MemoryTypeOK'
    BY <1>1, <1>2, <1>3, <1>6, <2>1, MemoryAssumption DEF MemoryTypeOK
  <2>3. CountedExcess'
    BY <1>1, <1>2, <2>1, MemoryAssumption DEF CountedExcess
  <2>4. RecentAtTheEnd'
    BY <1>4, <2>1 DEF RecentAtTheEnd
  <2>5. QED
    BY <2>2, <2>3, <2>4 DEF MemoryInv
<1>7. QED
  BY <1>5, <1>6

LEMMA MemoryInvKept == MemoryInv /\ [MemoryNext]_memoryVars => MemoryInv'
<1> SUFFICES ASSUME MemoryInv, [MemoryNext]_memoryVars PROVE MemoryInv'
  OBVIOUS
<1>1. CASE UNCHANGED memoryVars
  BY <1>1 DEF memoryVars, MemoryInv, MemoryTypeOK, RecentAtTheEnd, CountedExcess
<1>2. CASE \E s \in Signatures : Accept(s)
  BY <1>2, AcceptKeepsMemory
<1>3. CASE \E s \in Signatures : Skip(s)
  BY <1>1, <1>3 DEF Skip
<1>4. CASE ForgetAll
  BY <1>4, MemoryAssumption
     DEF ForgetAll, MemoryInv, MemoryTypeOK, RecentAtTheEnd, CountedExcess, NeverAccepted
<1>5. QED
  BY <1>1, <1>2, <1>3, <1>4 DEF MemoryNext

\* The strengthened invariant holds of every reachable state.
LEMMA MemoryInvariant == MemorySpec => []MemoryInv
  BY MemoryInvInit, MemoryInvKept, PTL DEF MemorySpec

\* Types: the cleanup counter never reaches CleanupEvery, so a cleanup is
\* never missed (TransactionStreamer.ts:282-285).
THEOREM MemoryTypeCorrect == MemorySpec => []MemoryTypeOK
<1>1. MemoryInv => MemoryTypeOK
  BY DEF MemoryInv
<1>2. QED
  BY <1>1, MemoryInvariant, PTL

\* What the inductive invariant says of the two promises.
LEMMA RecentFollows == MemoryInv => RecentRemembered
<1> SUFFICES ASSUME MemoryInv, NEW s \in Signatures, age[s] < MaxProcessed
             PROVE  s \in Remembered
  BY DEF RecentRemembered
<1>1. /\ age[s] \in Nat
      /\ age[s] < Len(processedSignatures)
      /\ processedSignatures[Len(processedSignatures) - age[s]] = s
      /\ Len(processedSignatures) \in Nat
  BY MemoryAssumption DEF MemoryInv, MemoryTypeOK, RecentAtTheEnd
<1>2. Len(processedSignatures) - age[s] \in 1..Len(processedSignatures)
  BY <1>1
<1> QED
  BY <1>1, <1>2 DEF Remembered

LEMMA BoundFollows == MemoryInv => MemoryBounded
BY MemoryAssumption DEF MemoryInv, MemoryTypeOK, CountedExcess, MemoryBounded

\* For every size of the memory and every cleanup period, a signature
\* accepted fewer than MaxProcessed acceptances ago is still remembered.
THEOREM RecentAreRemembered == MemorySpec => []RecentRemembered
  BY RecentFollows, MemoryInvariant, PTL

\* For every pair of bounds, the memory never holds MaxProcessed +
\* CleanupEvery signatures.
THEOREM MemoryIsBounded == MemorySpec => []MemoryBounded
  BY BoundFollows, MemoryInvariant, PTL

-----------------------------------------------------------------------------
(***************************************************************************)
(* The pipeline.                                                           *)
(***************************************************************************)
\* Effects and credits together never exceed what the memory allows.
Accounted == \A s \in Signatures : Effects(s) + Credit(s) <= 1 + forgotten[s]

\* A handler past recordTrade has recorded its trade.
RecordedBeforeRow ==
    \A e \in Emissions :
        handler[e].stage \in {"lookup", "insert"} => trades[handler[e].signature] > 0

IInv == PipelineTypeOK /\ Accounted /\ RowHasTrade /\ RecordedBeforeRow

\* The stages of the handlers of index.ts after each await.
AllStages == {"rate", "trade", "lookup", "insert",
              "upsert", "ensure", "monitor", "queue", "done"}

LEMMA StagesAre == Stages = AllStages
  BY DEF Stages, AllStages, SwapStages, CreateStages

LEMMA PendingFinite ==
    ASSUME NEW s
    PROVE  /\ IsFiniteSet(Pending(s)) /\ Cardinality(Pending(s)) \in Nat
           /\ Credit(s) \in Nat
<1>1. IsFiniteSet(Emissions)
  BY PipelineAssumption, FS_Interval DEF Emissions
<1>2. IsFiniteSet(Pending(s)) /\ Cardinality(Pending(s)) \in Nat
  BY <1>1, FS_Subset, FS_CardinalityType DEF Pending
<1>3. QED
  BY <1>2 DEF Credit

\* A handler that goes on without taking effect keeps its credit.
LEMMA GoingOn ==
    ASSUME PipelineTypeOK, NEW e \in Emissions, NEW stage \in Stages,
           Goto(e, stage), UNCHANGED memoryVars,
           handler[e].stage \in BeforeEffect <=> stage \in BeforeEffect
    PROVE  \A s \in Signatures : Credit(s)' = Credit(s)
<1>1. \A s \in Signatures : Pending(s)' = Pending(s)
  BY DEF PipelineTypeOK, Goto, Pending
<1>2. Remembered' = Remembered
  BY DEF memoryVars, Remembered
<1>3. QED
  BY <1>1, <1>2 DEF Credit

\* A handler that takes effect, or fails, gives its credit up; no other
\* signature notices.
LEMMA CreditSpent ==
    ASSUME PipelineTypeOK, NEW e \in Emissions, NEW stage \in Stages,
           Goto(e, stage), UNCHANGED memoryVars,
           handler[e].stage \in BeforeEffect, stage \notin BeforeEffect
    PROVE  \A s \in Signatures :
               Credit(s)' = IF s = handler[e].signature
                            THEN Credit(s) - 1 ELSE Credit(s)
<1>1. Remembered' = Remembered
  BY DEF memoryVars, Remembered
<1> SUFFICES ASSUME NEW s \in Signatures
             PROVE  Credit(s)' = IF s = handler[e].signature
                                 THEN Credit(s) - 1 ELSE Credit(s)
  OBVIOUS
<1>2. CASE s = handler[e].signature
  <2>1. Pending(s)' = Pending(s) \ {e} /\ e \in Pending(s)
    BY <1>2 DEF PipelineTypeOK, Goto, Pending
  <2>2. Cardinality(Pending(s)') = Cardinality(Pending(s)) - 1
    BY <2>1, PendingFinite, FS_RemoveElement
  <2>3. QED
    BY <1>1, <1>2, <2>2, PendingFinite DEF Credit
<1>3. CASE s # handler[e].signature
  <2>1. Pending(s)' = Pending(s)
    BY <1>3 DEF PipelineTypeOK, Goto, Pending
  <2>2. QED
    BY <1>1, <1>3, <2>1 DEF Credit
<1>4. QED
  BY <1>2, <1>3

\* The handlers after one of them went on.
HandlersTyped ==
    /\ handler \in [Emissions -> [signature : Signatures \cup {NoSignature},
                                  stage : Stages]]
    /\ \A e \in Emissions :
          IF e <= emissions THEN handler[e].signature \in Signatures
                            ELSE handler[e] = Idle

\* A handler that is under way has a signature, and stays what it is.
LEMMA GotoTyped ==
    ASSUME PipelineTypeOK, NEW e \in Emissions, NEW stage \in Stages,
           handler[e].stage # "done", Goto(e, stage), UNCHANGED emissions
    PROVE  /\ HandlersTyped'
           /\ handler[e].signature \in Signatures
           /\ \A f \in Emissions : /\ handler'[f].signature = handler[f].signature
                                   /\ f # e => handler'[f] = handler[f]
           /\ handler'[e].stage = stage
<1>1. handler[e].signature \in Signatures /\ e <= emissions
  BY DEF PipelineTypeOK, Idle
<1>2. handler' \in [Emissions -> [signature : Signatures \cup {NoSignature},
                                  stage : Stages]]
  BY DEF PipelineTypeOK, Goto
<1>3. \A f \in Emissions : /\ handler'[f].signature = handler[f].signature
                           /\ f # e => handler'[f] = handler[f]
  BY DEF PipelineTypeOK, Goto
<1>4. handler'[e].stage = stage
  BY DEF PipelineTypeOK, Goto
<1>5. QED
  BY <1>1, <1>2, <1>3, <1>4 DEF PipelineTypeOK, HandlersTyped

\* A step that only reads, or writes a table of tokens: nothing is spent.
LEMMA ReadingKeeps ==
    ASSUME IInv, NEW e \in Emissions, NEW stage \in Stages,
           handler[e].stage # "done", Goto(e, stage),
           handler[e].stage \in BeforeEffect <=> stage \in BeforeEffect,
           stage \in {"lookup", "insert"} => handler[e].stage \in {"lookup", "insert"},
           tokens' \in SUBSET Mints, monitored' \in SUBSET Mints,
           UNCHANGED <<memoryVars, emissions, transactions, trades, jobs, forgotten>>
    PROVE  IInv'
<1>1. PipelineTypeOK'
  BY GotoTyped DEF IInv, PipelineTypeOK, HandlersTyped
<1>2. Accounted'
  BY GoingOn DEF IInv, Accounted, Effects
<1>3. RowHasTrade'
  BY DEF IInv, RowHasTrade
<1>4. RecordedBeforeRow'
  BY GotoTyped DEF IInv, RecordedBeforeRow
<1>5. QED
  BY <1>1, <1>2, <1>3, <1>4 DEF IInv

\* A handler that fails before its effect: its credit is lost.
LEMMA FailingKeeps ==
    ASSUME IInv, NEW e \in Emissions, handler[e].stage \in BeforeEffect,
           Goto(e, "done"),
           UNCHANGED <<memoryVars, emissions, storeVars, forgotten>>
    PROVE  IInv'
<1>1. handler[e].stage # "done" /\ "done" \in Stages /\ "done" \notin BeforeEffect
  BY DEF BeforeEffect, CreateStages, Stages
<1>2. PipelineTypeOK'
  BY <1>1, GotoTyped DEF IInv, PipelineTypeOK, HandlersTyped, storeVars
<1>3. Accounted'
  <2> SUFFICES ASSUME NEW s \in Signatures
               PROVE  Effects(s)' + Credit(s)' <= 1 + forgotten'[s]
    BY DEF Accounted
  <2>1. Effects(s)' = Effects(s) /\ Effects(s) \in Nat
    BY DEF IInv, PipelineTypeOK, Effects, storeVars
  <2>2. Credit(s)' = IF s = handler[e].signature THEN Credit(s) - 1 ELSE Credit(s)
    BY <1>1, CreditSpent DEF IInv
  <2>3. Credit(s) \in Nat /\ forgotten[s] \in Nat
    BY PendingFinite DEF IInv, PipelineTypeOK
  <2>4. QED
    BY <2>1, <2>2, <2>3 DEF IInv, Accounted
<1>4. RowHasTrade'
  BY DEF IInv, RowHasTrade, storeVars
<1>5. RecordedBeforeRow'
  BY <1>1, GotoTyped DEF IInv, RecordedBeforeRow, storeVars
<1>6. QED
  BY <1>2, <1>3, <1>4, <1>5 DEF IInv

\* A trade recorded: the credit becomes an effect.
LEMMA RecordingKeeps ==
    ASSUME IInv, NEW e \in Emissions, handler[e].stage = "trade",
           NEW stage \in {"lookup", "done"}, Goto(e, stage),
           trades' = [trades EXCEPT ![handler[e].signature] = @ + 1],
           UNCHANGED <<memoryVars, emissions, tokens, monitored, transactions,
                       jobs, forgotten>>
    PROVE  IInv'
<1>1. /\ handler[e].stage # "done" /\ stage \in Stages
      /\ handler[e].stage \in BeforeEffect /\ stage \notin BeforeEffect
  BY DEF BeforeEffect, SwapStages, CreateStages, Stages
<1>2. /\ handler[e].signature \in Signatures
      /\ HandlersTyped'
  BY <1>1, GotoTyped DEF IInv
<1>3. /\ trades' \in [Signatures -> Nat]
      /\ \A s \in Signatures :
            trades'[s] = IF s = handler[e].signature THEN trades[s] + 1 ELSE trades[s]
  BY <1>2 DEF IInv, PipelineTypeOK
<1>4. PipelineTypeOK'
  BY <1>2, <1>3 DEF IInv, PipelineTypeOK, HandlersTyped
<1>5. Accounted'
  <2> SUFFICES ASSUME NEW s \in Signatures
               PROVE  Effects(s)' + Credit(s)' <= 1 + forgotten'[s]
    BY DEF Accounted
  <2>1. /\ Effects(s)' = IF s = handler[e].signature THEN Effects(s) + 1 ELSE Effects(s)
        /\ Effects(s) \in Nat
    <3>1. trades[s] \in Nat /\ jobs[s] \in Nat /\ jobs'[s] = jobs[s]
      BY DEF IInv, PipelineTypeOK
    <3>2. trades'[s] = IF s = handler[e].signature THEN trades[s] + 1 ELSE trades[s]
      BY <1>3
    <3>3. QED
      BY <3>1, <3>2 DEF Effects
  <2>2. Credit(s)' = IF s = handler[e].signature THEN Credit(s) - 1 ELSE Credit(s)
    BY <1>1, CreditSpent DEF IInv
  <2>3. Credit(s) \in Nat /\ forgotten[s] \in Nat
    BY PendingFinite DEF IInv, PipelineTypeOK
  <2>4. QED
    BY <2>1, <2>2, <2>3 DEF IInv, Accounted
<1>6. RowHasTrade'
  BY <1>3 DEF IInv, PipelineTypeOK, RowHasTrade
<1>7. RecordedBeforeRow'
  <2> SUFFICES ASSUME NEW f \in Emissions, handler'[f].stage \in {"lookup", "insert"}
               PROVE  trades'[handler'[f].signature] > 0
    BY DEF RecordedBeforeRow
  <2>1. CASE f = e
    BY <1>1, <1>2, <1>3, <2>1, GotoTyped DEF IInv, PipelineTypeOK
  <2>2. CASE f # e
    <3>1. handler'[f] = handler[f]
      BY <1>1, <2>2, GotoTyped DEF IInv
    <3>2. handler[f].signature \in Signatures /\ trades[handler[f].signature] > 0
      <4>1. handler[f].stage \in {"lookup", "insert"}
        BY <3>1
      <4>2. handler[f].signature \in Signatures
        BY <4>1 DEF IInv, PipelineTypeOK, Idle
      <4>3. QED
        BY <4>1, <4>2 DEF IInv, RecordedBeforeRow
    <3>3. QED
      BY <1>3, <3>1, <3>2 DEF IInv, PipelineTypeOK
  <2>3. QED
    BY <2>1, <2>2
<1>8. QED
  BY <1>4, <1>5, <1>6, <1>7 DEF IInv

\* A job queued: the credit becomes an effect.
LEMMA QueueingKeeps ==
    ASSUME IInv, NEW e \in Emissions, handler[e].stage = "queue", Goto(e, "done"),
           jobs' = [jobs EXCEPT ![handler[e].signature] = @ + 1],
           UNCHANGED <<memoryVars, emissions, tokens, monitored, transactions,
                       trades, forgotten>>
    PROVE  IInv'
<1>1. /\ handler[e].stage # "done" /\ "done" \in Stages
      /\ handler[e].stage \in BeforeEffect /\ "done" \notin BeforeEffect
  BY DEF BeforeEffect, SwapStages, CreateStages, Stages
<1>2. handler[e].signature \in Signatures /\ HandlersTyped'
  BY <1>1, GotoTyped DEF IInv
<1>3. /\ jobs' \in [Signatures -> Nat]
      /\ \A s \in Signatures :
            jobs'[s] = IF s = handler[e].signature THEN jobs[s] + 1 ELSE jobs[s]
  BY <1>2 DEF IInv, PipelineTypeOK
<1>4. PipelineTypeOK'
  BY <1>2, <1>3 DEF IInv, PipelineTypeOK, HandlersTyped
<1>5. Accounted'
  <2> SUFFICES ASSUME NEW s \in Signatures
               PROVE  Effects(s)' + Credit(s)' <= 1 + forgotten'[s]
    BY DEF Accounted
  <2>1. /\ Effects(s)' = IF s = handler[e].signature THEN Effects(s) + 1 ELSE Effects(s)
        /\ Effects(s) \in Nat
    <3>1. trades[s] \in Nat /\ jobs[s] \in Nat
      BY DEF IInv, PipelineTypeOK
    <3>2. Effects(s)' = trades[s] + jobs'[s]
      BY DEF Effects
    <3>3. QED
      BY <1>3, <3>1, <3>2 DEF Effects
  <2>2. Credit(s)' = IF s = handler[e].signature THEN Credit(s) - 1 ELSE Credit(s)
    BY <1>1, CreditSpent DEF IInv
  <2>3. Credit(s) \in Nat /\ forgotten[s] \in Nat
    BY PendingFinite DEF IInv, PipelineTypeOK
  <2>4. QED
    BY <2>1, <2>2, <2>3 DEF IInv, Accounted
<1>6. RowHasTrade'
  BY DEF IInv, RowHasTrade
<1>7. RecordedBeforeRow'
  BY <1>1, GotoTyped DEF IInv, RecordedBeforeRow
<1>8. QED
  BY <1>4, <1>5, <1>6, <1>7 DEF IInv

\* A delivery: the credit of the memory becomes that of the new handler,
\* and whoever the cleanup drops is marked forgotten.
LEMMA DeliverKeeps ==
    ASSUME IInv, NEW s \in Signatures, Deliver(s)
    PROVE  IInv'
<1> DEFINE e == emissions + 1
<1> DEFINE started == [signature |-> s, stage |-> FirstStage(s)]
<1>1. /\ e \in Emissions /\ emissions \in Nat
      /\ handler[e] = Idle
      /\ s \notin Remembered
      /\ FirstStage(s) \in {"upsert", "rate", "done"}
  BY PipelineAssumption
     DEF IInv, PipelineTypeOK, Deliver, Emissions, Accept, FirstStage
<1>2. FirstStage(s) \in Stages
  BY <1>1 DEF Stages, SwapStages, CreateStages
<1>3. handler' = [handler EXCEPT ![e] = started]
  BY DEF Deliver
<1>4. UNCHANGED <<tokens, monitored, transactions, trades, jobs>> /\ emissions' = e
  BY DEF Deliver, storeVars
<1>5. \A t \in Signatures :
          forgotten'[t] = IF t \in Remembered \cup {s} /\ t \notin Remembered'
                          THEN forgotten[t] + 1 ELSE forgotten[t]
  BY DEF Deliver, ForgottenAfter
<1>6. forgotten' \in [Signatures -> Nat]
  BY DEF Deliver, ForgottenAfter, IInv, PipelineTypeOK
<1>7. PipelineTypeOK'
  <2>1. emissions' \in 0..MaxEmissions
    BY <1>1, <1>4, PipelineAssumption DEF Deliver, IInv, PipelineTypeOK
  <2>2. handler' \in [Emissions -> [signature : Signatures \cup {NoSignature},
                                    stage : Stages]]
    BY <1>1, <1>2, <1>3 DEF IInv, PipelineTypeOK
  <2>3. \A f \in Emissions : handler'[f] = IF f = e THEN started ELSE handler[f]
    BY <1>1, <1>3 DEF IInv, PipelineTypeOK
  <2>4. \A f \in Emissions :
            IF f <= emissions' THEN handler'[f].signature \in Signatures
                               ELSE handler'[f] = Idle
    <3> SUFFICES ASSUME NEW f \in Emissions
                 PROVE  IF f <= emissions' THEN handler'[f].signature \in Signatures
                                           ELSE handler'[f] = Idle
      OBVIOUS
    <3>1. CASE f = e
      BY <1>1, <1>4, <2>3, <3>1
    <3>2. CASE f # e
      <4>1. f \in Nat /\ (f <= emissions' <=> f <= emissions)
        BY <1>1, <1>4, <3>2 DEF Emissions
      <4>2. QED
        BY <2>3, <3>2, <4>1 DEF IInv, PipelineTypeOK
    <3>3. QED
      BY <3>1, <3>2
  <2>5. QED
    BY <1>4, <1>6, <2>1, <2>2, <2>4 DEF IInv, PipelineTypeOK
<1> HIDE DEF e, started
<1>8. Accounted'
  <2> SUFFICES ASSUME NEW t \in Signatures
               PROVE  Effects(t)' + Credit(t)' <= 1 + forgotten'[t]
    BY DEF Accounted
  <2>1. Effects(t)' = Effects(t) /\ Effects(t) \in Nat
    BY <1>4 DEF IInv, PipelineTypeOK, Effects
  <2>2. forgotten[t] \in Nat /\ Effects(t) + Credit(t) <= 1 + forgotten[t]
    BY DEF IInv, PipelineTypeOK, Accounted
  <2>3. CASE t = s
    <3>1. Pending(t)' \subseteq Pending(t) \cup {e} /\ e \notin Pending(t)
      BY <1>1, <1>3, PipelineAssumption DEF IInv, PipelineTypeOK, Pending, Idle
    <3>2. IsFiniteSet(Pending(t) \cup {e})
          /\ Cardinality(Pending(t) \cup {e}) = Cardinality(Pending(t)) + 1
      BY <3>1, PendingFinite, FS_AddElement
    <3>3. Cardinality(Pending(t)') <= Cardinality(Pending(t)) + 1
          /\ Cardinality(Pending(t)') \in Nat /\ Cardinality(Pending(t)) \in Nat
      BY <3>1, <3>2, PendingFinite, FS_Subset, FS_CardinalityType
    <3>4. Credit(t) = Cardinality(Pending(t)) + 1
      BY <1>1, <2>3 DEF Credit
    <3>5. CASE t \in Remembered'
      <4>1. Credit(t)' = Cardinality(Pending(t)') /\ forgotten'[t] = forgotten[t]
        BY <1>5, <3>3, <3>5 DEF Credit
      <4>2. QED
        BY <2>1, <2>2, <3>3, <3>4, <4>1
    <3>6. CASE t \notin Remembered'
      <4>1. Credit(t)' = Cardinality(Pending(t)') + 1 /\ forgotten'[t] = forgotten[t] + 1
        BY <1>5, <2>3, <3>6 DEF Credit
      <4>2. QED
        BY <2>1, <2>2, <3>3, <3>4, <4>1
    <3>7. QED
      BY <3>5, <3>6
  <2>4. CASE t # s
    <3>1. Pending(t)' = Pending(t)
      BY <1>1, <1>3, <2>4, PipelineAssumption
         DEF IInv, PipelineTypeOK, Pending, Idle, started
    <3>2. Cardinality(Pending(t)) \in Nat
      BY PendingFinite
    <3>3. CASE t \in Remembered
      BY <1>5, <2>1, <2>2, <3>1, <3>2, <3>3 DEF Credit
    <3>4. CASE t \notin Remembered
      BY <1>5, <2>1, <2>2, <2>4, <3>1, <3>2, <3>4 DEF Credit
    <3>5. QED
      BY <3>3, <3>4
  <2>5. QED
    BY <2>3, <2>4
<1>9. RowHasTrade'
  BY <1>4 DEF IInv, RowHasTrade
<1>10. RecordedBeforeRow'
  <2> SUFFICES ASSUME NEW f \in Emissions, handler'[f].stage \in {"lookup", "insert"}
               PROVE  trades'[handler'[f].signature] > 0
    BY DEF RecordedBeforeRow
  <2>1. f # e
    BY <1>1, <1>3 DEF IInv, PipelineTypeOK, started
  <2>2. handler'[f] = handler[f]
    BY <1>3, <2>1 DEF IInv, PipelineTypeOK
  <2>3. QED
    BY <1>4, <2>2 DEF IInv, RecordedBeforeRow
<1>11. QED
  BY <1>7, <1>8, <1>9, <1>10 DEF IInv

\* A restart: the handlers' credits are lost, and whatever the memory held
\* is marked forgotten.
LEMMA RestartKeeps ==
    ASSUME IInv, Restart
    PROVE  IInv'
<1>1. /\ UNCHANGED <<emissions, tokens, monitored, transactions, trades, jobs>>
      /\ forgotten' \in [Signatures -> Nat]
      /\ \A t \in Signatures :
            forgotten'[t] = IF t \in Remembered /\ t \notin Remembered'
                            THEN forgotten[t] + 1 ELSE forgotten[t]
  BY DEF Restart, ForgottenAfter, storeVars, IInv, PipelineTypeOK
<1>2. \A f \in Emissions : /\ handler'[f].signature = handler[f].signature
                           /\ handler'[f].stage = "done"
  BY DEF Restart
<1>3. handler' \in [Emissions -> [signature : Signatures \cup {NoSignature},
                                  stage : Stages]]
  BY DEF Restart, IInv, PipelineTypeOK, Stages
<1>4. \A f \in Emissions :
          IF f <= emissions THEN handler'[f].signature \in Signatures
                            ELSE handler'[f] = Idle
  BY DEF Restart, IInv, PipelineTypeOK, Idle
<1>5. PipelineTypeOK'
  BY <1>1, <1>3, <1>4 DEF IInv, PipelineTypeOK
<1>6. Remembered' = {}
  BY DEF Restart, ForgetAll, Remembered
<1>7. Accounted'
  <2> SUFFICES ASSUME NEW t \in Signatures
               PROVE  Effects(t)' + Credit(t)' <= 1 + forgotten'[t]
    BY DEF Accounted
  <2>1. Effects(t)' = Effects(t) /\ Effects(t) \in Nat
    BY <1>1 DEF IInv, PipelineTypeOK, Effects
  <2>2. forgotten[t] \in Nat /\ Effects(t) + Credit(t) <= 1 + forgotten[t]
    BY DEF IInv, PipelineTypeOK, Accounted
  <2>3. Pending(t)' = {}
    BY <1>2 DEF Pending, BeforeEffect, CreateStages
  <2>4. Credit(t)' = 1
    BY <1>6, <2>3, FS_EmptySet DEF Credit
  <2>5. Credit(t) >= IF t \in Remembered THEN 0 ELSE 1
    BY PendingFinite DEF Credit
  <2>6. Credit(t) \in Nat
    BY PendingFinite
  <2>7. QED
    BY <1>1, <1>6, <2>1, <2>2, <2>4, <2>5, <2>6
<1>8. RowHasTrade'
  BY <1>1 DEF IInv, RowHasTrade
<1>9. RecordedBeforeRow'
  BY <1>2 DEF RecordedBeforeRow
<1>10. QED
  BY <1>5, <1>7, <1>8, <1>9 DEF IInv

\* A row stored by a handler that recorded its trade.
LEMMA InsertingKeeps ==
    ASSUME IInv, NEW e \in Emissions, handler[e].stage = "insert", Goto(e, "done"),
           transactions' \subseteq transactions \cup {handler[e].signature},
           UNCHANGED <<memoryVars, emissions, tokens, monitored, trades, jobs,
                       forgotten>>
    PROVE  IInv'
<1>1. /\ handler[e].stage # "done" /\ "done" \in Stages
      /\ handler[e].stage \notin BeforeEffect /\ "done" \notin BeforeEffect
  BY DEF BeforeEffect, CreateStages, Stages
<1>2. /\ handler[e].signature \in Signatures /\ HandlersTyped'
      /\ trades[handler[e].signature] > 0
  BY <1>1, GotoTyped DEF IInv, RecordedBeforeRow
<1>3. PipelineTypeOK'
  BY <1>2 DEF IInv, PipelineTypeOK, HandlersTyped
<1>4. Accounted'
  BY <1>1, GoingOn DEF IInv, Accounted, Effects
<1>5. RowHasTrade'
  BY <1>2 DEF IInv, RowHasTrade
<1>6. RecordedBeforeRow'
  BY <1>1, GotoTyped DEF IInv, RecordedBeforeRow
<1>7. QED
  BY <1>3, <1>4, <1>5, <1>6 DEF IInv

\* The handler of a swap.
LEMMA SwapStepKeeps ==
    ASSUME IInv, NEW e \in Emissions, SwapStep(e)
    PROVE  IInv'
<1> USE DEF BeforeEffect, SwapStages, CreateStages, Stages
<1>1. CASE SolUsdRate(e)
  <2>1. CASE Goto(e, "trade")
    BY <1>1, <2>1, ReadingKeeps DEF SolUsdRate, storeVars, IInv, PipelineTypeOK
  <2>2. CASE Goto(e, "done")
    BY <1>1, <2>2, FailingKeeps DEF SolUsdRate
  <2>3. QED
    BY <1>1, <2>1, <2>2 DEF SolUsdRate
<1>2. CASE RecordTrade(e)
  <2>1. CASE /\ trades' = [trades EXCEPT ![handler[e].signature] = @ + 1]
             /\ Goto(e, "lookup") \/ Goto(e, "done")
    BY <1>2, <2>1, RecordingKeeps DEF RecordTrade
  <2>2. CASE UNCHANGED trades /\ Goto(e, "done")
    BY <1>2, <2>2, FailingKeeps DEF RecordTrade, storeVars
  <2>3. QED
    BY <1>2, <2>1, <2>2 DEF RecordTrade
<1>3. CASE LookupToken(e)
  BY <1>3, ReadingKeeps DEF LookupToken, storeVars, IInv, PipelineTypeOK
<1>4. CASE InsertTransaction(e)
  <2>1. transactions' \subseteq transactions \cup {handler[e].signature}
    BY <1>4 DEF InsertTransaction
  <2>2. QED
    BY <1>4, <2>1, InsertingKeeps DEF InsertTransaction
<1>5. QED
  BY <1>1, <1>2, <1>3, <1>4 DEF SwapStep

\* The mint of a handler under way is a mint.
LEMMA MintTyped ==
    ASSUME PipelineTypeOK, NEW e \in Emissions, handler[e].stage # "done"
    PROVE  MintOf(e) \in Mints
<1>1. handler[e].signature \in Signatures
  BY DEF PipelineTypeOK, Idle
<1>2. QED
  BY <1>1, PipelineAssumption DEF MintOf

\* The handler of a creation.
LEMMA CreateStepKeeps ==
    ASSUME IInv, NEW e \in Emissions, CreateStep(e)
    PROVE  IInv'
<1> USE DEF BeforeEffect, CreateStages, SwapStages, Stages
<1>1. CASE UpsertToken(e) \/ EnsureToken(e)
  <2>1. /\ handler[e].stage \in {"upsert", "ensure"}
        /\ tokens' = tokens \/ tokens' = tokens \cup {MintOf(e)}
        /\ \E stage \in {"ensure", "monitor", "queue"} : Goto(e, stage)
        /\ UNCHANGED <<memoryVars, emissions, monitored, transactions, trades, jobs,
                       forgotten>>
    BY <1>1 DEF UpsertToken, EnsureToken
  <2>2. tokens' \in SUBSET Mints /\ monitored' \in SUBSET Mints
    BY <2>1, MintTyped DEF IInv, PipelineTypeOK
  <2>3. PICK stage \in {"ensure", "monitor", "queue"} : Goto(e, stage)
    BY <2>1
  <2>4. QED
    BY <2>1, <2>2, <2>3, ReadingKeeps
<1>2. CASE AddTokenToMonitoring(e)
  <2>1. tokens' \in SUBSET Mints /\ monitored' \in SUBSET Mints
    BY <1>2, MintTyped DEF AddTokenToMonitoring, IInv, PipelineTypeOK
  <2>2. QED
    BY <1>2, <2>1, ReadingKeeps DEF AddTokenToMonitoring
<1>3. CASE QueueNewToken(e)
  <2>1. CASE jobs' = [jobs EXCEPT ![handler[e].signature] = @ + 1]
    BY <1>3, <2>1, QueueingKeeps DEF QueueNewToken
  <2>2. CASE UNCHANGED jobs
    BY <1>3, <2>2, FailingKeeps DEF QueueNewToken, storeVars
  <2>3. QED
    BY <1>3, <2>1, <2>2 DEF QueueNewToken
<1>4. QED
  BY <1>1, <1>2, <1>3 DEF CreateStep

LEMMA InitIInv == Init => IInv
<1> SUFFICES ASSUME Init PROVE IInv
  OBVIOUS
<1>1. PipelineTypeOK
  <2>1. emissions = 0 /\ \A e \in Emissions : handler[e] = Idle /\ e > 0
    BY PipelineAssumption DEF Init, Emissions
  <2>2. handler \in [Emissions -> [signature : Signatures \cup {NoSignature},
                                   stage : Stages]]
    BY DEF Init, Idle, Stages
  <2>3. /\ emissions \in 0..MaxEmissions
        /\ \A e \in Emissions : ~(e <= emissions)
    BY <2>1, PipelineAssumption DEF Emissions
  <2>4. /\ tokens \in SUBSET Mints /\ monitored \in SUBSET Mints
        /\ transactions \in SUBSET Signatures
        /\ trades \in [Signatures -> Nat] /\ jobs \in [Signatures -> Nat]
        /\ forgotten \in [Signatures -> Nat]
    BY DEF Init
  <2>5. QED
    BY <2>1, <2>2, <2>3, <2>4 DEF PipelineTypeOK
<1>2. Remembered = {}
  BY DEF Init, MemoryInit, Remembered
<1>3. Accounted
  <2> SUFFICES ASSUME NEW s \in Signatures
               PROVE  Effects(s) + Credit(s) <= 1 + forgotten[s]
    BY DEF Accounted
  <2>1. Pending(s) = {}
    BY DEF Init, Pending, Idle, BeforeEffect, CreateStages
  <2>2. Effects(s) = 0 /\ Credit(s) = 1 /\ forgotten[s] = 0
    BY <1>2, <2>1, FS_EmptySet DEF Init, Effects, Credit
  <2>3. QED
    BY <2>2
<1>4. RowHasTrade /\ RecordedBeforeRow
  BY DEF Init, RowHasTrade, RecordedBeforeRow, Idle
<1>5. QED
  BY <1>1, <1>3, <1>4 DEF IInv

LEMMA NextIInv == IInv /\ [Next]_vars => IInv'
<1> SUFFICES ASSUME IInv, [Next]_vars PROVE IInv'
  OBVIOUS
<1>1. ASSUME UNCHANGED vars PROVE IInv'
  <2>1. \A s \in Signatures : Effects(s)' = Effects(s) /\ Credit(s)' = Credit(s)
    BY <1>1 DEF vars, storeVars, memoryVars, Effects, Credit, Pending, Remembered
  <2>2. PipelineTypeOK' /\ RowHasTrade' /\ RecordedBeforeRow'
    BY <1>1 DEF vars, storeVars, IInv, PipelineTypeOK, RowHasTrade, RecordedBeforeRow
  <2>3. Accounted'
    BY <1>1, <2>1 DEF vars, IInv, Accounted
  <2>4. QED
    BY <2>2, <2>3 DEF IInv
<1>2. ASSUME NEW s \in Signatures, Deliver(s) PROVE IInv'
  BY <1>2, DeliverKeeps
<1>3. ASSUME NEW s \in Signatures, DeliverAgain(s) PROVE IInv'
  BY <1>1, <1>3 DEF DeliverAgain, Skip, memoryVars, vars
<1>4. ASSUME NEW e \in Emissions, SwapStep(e) \/ CreateStep(e) PROVE IInv'
  BY <1>4, SwapStepKeeps, CreateStepKeeps
<1>5. CASE Restart
  BY <1>5, RestartKeeps
<1>6. QED
  BY <1>1, <1>2, <1>3, <1>4, <1>5 DEF Next

\* The accounting holds in every reachable state.
LEMMA Invariant == Spec => []IInv
  BY InitIInv, NextIInv, PTL DEF Spec

\* For any transactions, any size of the memory, and any interleaving of
\* deliveries, duplicates, handlers, failures and restarts, a signature takes
\* effect at most once more than the memory lost it.
THEOREM EffectsOncePerMemory == Spec => []OncePerMemory
<1>1. IInv => OncePerMemory
  <2> SUFFICES ASSUME IInv, NEW s \in Signatures
               PROVE  Effects(s) <= 1 + forgotten[s]
    BY DEF OncePerMemory
  <2>1. Effects(s) + Credit(s) <= 1 + forgotten[s]
    BY DEF IInv, Accounted
  <2>2. Effects(s) \in Nat /\ Credit(s) \in Nat /\ forgotten[s] \in Nat
    BY PendingFinite DEF IInv, PipelineTypeOK, Effects
  <2>3. QED
    BY <2>1, <2>2
<1>2. QED
  BY <1>1, Invariant, PTL

\* A row of transactions is never stored before its trade is recorded,
\* whichever of the two stores fails and wherever the process dies.
THEOREM RowsFollowTrades == Spec => []RowHasTrade
<1>1. IInv => RowHasTrade
  BY DEF IInv
<1>2. QED
  BY <1>1, Invariant, PTL

-----------------------------------------------------------------------------
(***************************************************************************)
(* The pipeline implements TradeLedger.                                    *)
(***************************************************************************)
MemoryTyped == processedSignatures \in Seq(Signatures)

\* The last MaxProcessed members of a longer sequence.
LEMMA SuffixIs ==
    ASSUME NEW seq \in Seq(Signatures), Len(seq) > MaxProcessed
    PROVE  LET kept == SubSeq(seq, Len(seq) - MaxProcessed + 1, Len(seq))
           IN  /\ kept \in Seq(Signatures) /\ Len(kept) = MaxProcessed
               /\ \A i \in 1..MaxProcessed :
                     kept[i] = seq[Len(seq) - MaxProcessed + i]
<1> DEFINE kept == SubSeq(seq, Len(seq) - MaxProcessed + 1, Len(seq))
<1>1. Len(seq) \in Nat /\ MaxProcessed \in Nat \ {0}
  BY MemoryAssumption
<1>2. kept \in Seq(Signatures)
  BY <1>1, SMTT(30)
<1>3. Len(kept) = MaxProcessed
  BY <1>1, SMTT(30)
<1>4. ASSUME NEW i \in 1..MaxProcessed
      PROVE  kept[i] = seq[Len(seq) - MaxProcessed + i]
  BY <1>1, SMTT(30)
<1>5. QED
  BY <1>2, <1>3, <1>4

\* Accepting s makes it remembered, and nobody else.
LEMMA AcceptRemembers ==
    ASSUME MemoryTyped, NEW s \in Signatures, Accept(s)
    PROVE  /\ MemoryTyped'
           /\ s \in Remembered'
           /\ Remembered' \subseteq Remembered \cup {s}
<1> DEFINE added == Append(processedSignatures, s)
<1>1. /\ added \in Seq(Signatures)
      /\ Len(added) = Len(processedSignatures) + 1
      /\ Len(processedSignatures) \in Nat
      /\ added[Len(added)] = s
      /\ \A i \in 1..Len(processedSignatures) : added[i] = processedSignatures[i]
  BY DEF MemoryTyped
<1>2. \A i \in 1..Len(added) : added[i] \in Remembered \cup {s}
  <2> SUFFICES ASSUME NEW i \in 1..Len(added)
               PROVE  added[i] \in Remembered \cup {s}
    OBVIOUS
  <2>1. CASE i = Len(added)
    BY <1>1, <2>1
  <2>2. CASE i # Len(added)
    <3>1. i \in 1..Len(processedSignatures)
      BY <1>1, <2>2
    <3>2. QED
      BY <1>1, <3>1 DEF Remembered
  <2>3. QED
    BY <2>1, <2>2
<1> HIDE DEF added
<1>3. CASE processedSignatures' = added
  <2>1. s \in Remembered'
    <3>1. Len(added) \in 1..Len(added)
      BY <1>1
    <3>2. QED
      BY <1>1, <1>3, <3>1 DEF Remembered
  <2>2. QED
    BY <1>1, <1>2, <1>3, <2>1 DEF MemoryTyped, Remembered
<1>4. CASE /\ Len(added) > MaxProcessed
           /\ processedSignatures' =
                  SubSeq(added, Len(added) - MaxProcessed + 1, Len(added))
  <2> DEFINE kept == SubSeq(added, Len(added) - MaxProcessed + 1, Len(added))
  <2>1. /\ kept \in Seq(Signatures) /\ Len(kept) = MaxProcessed
        /\ \A i \in 1..MaxProcessed :
              kept[i] = added[Len(added) - MaxProcessed + i]
    BY <1>1, <1>4, SuffixIs
  <2>2. kept[MaxProcessed] = s
    <3>1. MaxProcessed \in 1..MaxProcessed
      BY MemoryAssumption
    <3>2. kept[MaxProcessed] = added[Len(added) - MaxProcessed + MaxProcessed]
      BY <2>1, <3>1
    <3>3. Len(added) - MaxProcessed + MaxProcessed = Len(added)
      BY <1>1, MemoryAssumption
    <3>4. QED
      BY <1>1, <3>2, <3>3
  <2>3. \A i \in 1..MaxProcessed : kept[i] \in Remembered \cup {s}
    <3> SUFFICES ASSUME NEW i \in 1..MaxProcessed
                 PROVE  kept[i] \in Remembered \cup {s}
      OBVIOUS
    <3>1. Len(added) - MaxProcessed + i \in 1..Len(added)
      BY <1>1, <1>4, MemoryAssumption
    <3>2. QED
      BY <1>2, <2>1, <3>1
  <2> HIDE DEF kept
  <2>4. processedSignatures' = kept
    BY <1>4 DEF kept
  <2>5. MaxProcessed \in 1..MaxProcessed
    BY MemoryAssumption
  <2>6. QED
    BY <2>1, <2>2, <2>3, <2>4, <2>5 DEF MemoryTyped, Remembered
<1>5. processedSignatures' = added \/ processedSignatures' = KeepRecent(added)
  BY DEF Accept, added
<1>6. KeepRecent(added) =
          IF Len(added) <= MaxProcessed THEN added
          ELSE SubSeq(added, Len(added) - MaxProcessed + 1, Len(added))
  BY DEF KeepRecent
<1>7. Len(added) <= MaxProcessed \/ Len(added) > MaxProcessed
  BY <1>1, MemoryAssumption
<1>8. QED
  BY <1>3, <1>4, <1>5, <1>6, <1>7

\* The invariant under which steps map to steps.
LInv == IInv /\ MemoryTyped

LEMMA LInvariant == Spec => []LInv
<1>1. Init => MemoryTyped
  BY DEF Init, MemoryInit, MemoryTyped
<1>2. MemoryTyped /\ [Next]_vars => MemoryTyped'
  <2> SUFFICES ASSUME MemoryTyped, [Next]_vars PROVE MemoryTyped'
    OBVIOUS
  <2>1. ASSUME UNCHANGED memoryVars PROVE MemoryTyped'
    BY <2>1 DEF memoryVars, MemoryTyped
  <2>2. ASSUME NEW s \in Signatures, Deliver(s) PROVE MemoryTyped'
    BY <2>2, AcceptRemembers DEF Deliver
  <2>3. ASSUME NEW s \in Signatures, DeliverAgain(s) PROVE MemoryTyped'
    BY <2>1, <2>3 DEF DeliverAgain, Skip, memoryVars
  <2>4. ASSUME NEW e \in Emissions, SwapStep(e) PROVE MemoryTyped'
    BY <2>1, <2>4 DEF SwapStep, SolUsdRate, RecordTrade, LookupToken, InsertTransaction
  <2>5. ASSUME NEW e \in Emissions, CreateStep(e) PROVE MemoryTyped'
    BY <2>1, <2>5
       DEF CreateStep, UpsertToken, EnsureToken, AddTokenToMonitoring, QueueNewToken
  <2>6. CASE Restart
    BY <2>6 DEF Restart, ForgetAll, MemoryTyped
  <2>7. CASE UNCHANGED vars
    BY <2>1, <2>7 DEF vars
  <2>8. QED
    BY <2>2, <2>3, <2>4, <2>5, <2>6, <2>7 DEF Next
<1>3. QED
  BY <1>1, <1>2, Invariant, PTL DEF Spec, LInv

LEMMA InitLedger == Init => Ledger!LedgerInit
<1> SUFFICES ASSUME Init PROVE Ledger!LedgerInit
  OBVIOUS
<1>1. Remembered = {}
  BY DEF Init, MemoryInit, Remembered
<1>2. ASSUME NEW s \in Signatures PROVE Credit(s) = 1 /\ Effects(s) = 0
  <2>1. Pending(s) = {}
    BY DEF Init, Pending, Idle, BeforeEffect, CreateStages
  <2>2. QED
    BY <1>1, <1>2, <2>1, FS_EmptySet DEF Init, Effects, Credit
<1>3. QED
  BY <1>2 DEF Init, Ledger!LedgerInit

\* Nothing that the ledger sees has changed.
LEMMA SameLedger ==
    ASSUME \A s \in Signatures : Credit(s)' = Credit(s) /\ Effects(s)' = Effects(s),
           UNCHANGED <<transactions, forgotten>>
    PROVE  UNCHANGED Ledger!ledgerVars
  BY DEF Ledger!ledgerVars

\* A handler under way has a credit to spend.
LEMMA CreditLeft ==
    ASSUME PipelineTypeOK, NEW e \in Emissions, handler[e].stage \in BeforeEffect
    PROVE  handler[e].signature \in Signatures /\ Credit(handler[e].signature) > 0
<1>1. handler[e].signature \in Signatures
  BY DEF PipelineTypeOK, Idle, BeforeEffect, CreateStages
<1>2. e \in Pending(handler[e].signature)
  BY <1>1 DEF Pending
<1>3. Cardinality(Pending(handler[e].signature)) # 0
  BY <1>2, PendingFinite, FS_EmptySet
<1>4. Cardinality(Pending(handler[e].signature)) \in Nat
  BY PendingFinite
<1>5. QED
  BY <1>1, <1>3, <1>4 DEF Credit

\* Failing before the effect is a Waste.
LEMMA FailingIsWaste ==
    ASSUME PipelineTypeOK, NEW e \in Emissions, handler[e].stage \in BeforeEffect,
           Goto(e, "done"),
           UNCHANGED <<memoryVars, emissions, storeVars, forgotten>>
    PROVE  Ledger!LedgerNext
<1> DEFINE s == handler[e].signature
<1>1. s \in Signatures /\ Credit(s) > 0
  BY CreditLeft
<1>2. "done" \in Stages /\ "done" \notin BeforeEffect
  BY DEF Stages, BeforeEffect, CreateStages
<1>3. \A t \in Signatures : Credit(t)' = IF t = s THEN Credit(t) - 1 ELSE Credit(t)
  BY <1>2, CreditSpent
<1>4. \A t \in Signatures : Effects(t)' = Effects(t)
  BY DEF Effects, storeVars
<1> HIDE DEF s
<1>5. Ledger!Waste(s)
  BY <1>1, <1>3, <1>4 DEF Ledger!Waste, storeVars
<1>6. QED
  BY <1>1, <1>5 DEF Ledger!LedgerNext

\* Recording a trade, or queueing a job, is a TakeEffect.
LEMMA EffectIsTaken ==
    ASSUME PipelineTypeOK, NEW e \in Emissions, handler[e].stage \in BeforeEffect,
           NEW stage \in Stages, stage \notin BeforeEffect, Goto(e, stage),
           \A t \in Signatures :
               Effects(t)' = IF t = handler[e].signature
                             THEN Effects(t) + 1 ELSE Effects(t),
           UNCHANGED <<memoryVars, emissions, transactions, forgotten>>
    PROVE  Ledger!LedgerNext
<1> DEFINE s == handler[e].signature
<1>1. s \in Signatures /\ Credit(s) > 0
  BY CreditLeft
<1>2. \A t \in Signatures : Credit(t)' = IF t = s THEN Credit(t) - 1 ELSE Credit(t)
  BY CreditSpent
<1>3. \A t \in Signatures : Effects(t)' = IF t = s THEN Effects(t) + 1 ELSE Effects(t)
  OBVIOUS
<1> HIDE DEF s
<1>4. Ledger!TakeEffect(s)
  BY <1>1, <1>2, <1>3 DEF Ledger!TakeEffect
<1>5. QED
  BY <1>1, <1>4 DEF Ledger!LedgerNext

\* Reading, or writing a table of tokens, is no step of the ledger.
LEMMA ReadingIsStutter ==
    ASSUME PipelineTypeOK, NEW e \in Emissions, NEW stage \in Stages,
           Goto(e, stage),
           handler[e].stage \in BeforeEffect <=> stage \in BeforeEffect,
           UNCHANGED <<memoryVars, transactions, trades, jobs, forgotten>>
    PROVE  UNCHANGED Ledger!ledgerVars
  BY GoingOn, SameLedger DEF Effects

LEMMA SwapStepMaps ==
    ASSUME IInv, NEW e \in Emissions, SwapStep(e)
    PROVE  [Ledger!LedgerNext]_(Ledger!ledgerVars)
<1> USE DEF BeforeEffect, SwapStages, CreateStages, Stages
<1>1. CASE SolUsdRate(e)
  <2>1. CASE Goto(e, "trade")
    BY <1>1, <2>1, ReadingIsStutter DEF SolUsdRate, storeVars, IInv
  <2>2. CASE Goto(e, "done")
    BY <1>1, <2>2, FailingIsWaste DEF SolUsdRate, IInv
  <2>3. QED
    BY <1>1, <2>1, <2>2 DEF SolUsdRate
<1>2. CASE RecordTrade(e)
  <2>1. CASE /\ trades' = [trades EXCEPT ![handler[e].signature] = @ + 1]
             /\ Goto(e, "lookup") \/ Goto(e, "done")
    <3>1. PICK stage \in {"lookup", "done"} : Goto(e, stage)
      BY <2>1
    <3>2. handler[e].stage \in BeforeEffect /\ stage \in Stages /\ stage \notin BeforeEffect
      BY <1>2, <3>1 DEF RecordTrade
    <3>3. \A t \in Signatures :
              Effects(t)' = IF t = handler[e].signature THEN Effects(t) + 1 ELSE Effects(t)
      BY <1>2, <2>1 DEF RecordTrade, Effects, IInv, PipelineTypeOK
    <3>4. QED
      BY <1>2, <3>1, <3>2, <3>3, EffectIsTaken DEF RecordTrade, IInv
  <2>2. CASE UNCHANGED trades /\ Goto(e, "done")
    BY <1>2, <2>2, FailingIsWaste DEF RecordTrade, storeVars, IInv
  <2>3. QED
    BY <1>2, <2>1, <2>2 DEF RecordTrade
<1>3. CASE LookupToken(e)
  BY <1>3, ReadingIsStutter DEF LookupToken, storeVars, IInv
<1>4. CASE InsertTransaction(e)
  <2>1. \A s \in Signatures : Credit(s)' = Credit(s) /\ Effects(s)' = Effects(s)
    BY <1>4, GoingOn DEF InsertTransaction, Effects, IInv
  <2>2. CASE transactions' = transactions \cup {handler[e].signature}
    <3> DEFINE s == handler[e].signature
    <3>1. s \in Signatures
      BY <1>4, GotoTyped DEF InsertTransaction, IInv
    <3>2. trades[s] > 0 /\ trades[s] \in Nat /\ jobs[s] \in Nat
      BY <1>4, <3>1 DEF InsertTransaction, IInv, RecordedBeforeRow, PipelineTypeOK
    <3>3. Effects(s) > 0
      BY <3>2 DEF Effects
    <3> HIDE DEF s
    <3>4. transactions' = transactions \cup {s} /\ UNCHANGED forgotten
      BY <1>4, <2>2 DEF InsertTransaction, s
    <3>5. Ledger!Store(s)
      BY <2>1, <3>1, <3>3, <3>4 DEF Ledger!Store
    <3>6. QED
      BY <3>1, <3>5 DEF Ledger!LedgerNext
  <2>3. CASE UNCHANGED transactions
    BY <1>4, <2>1, <2>3, SameLedger DEF InsertTransaction
  <2>4. QED
    BY <1>4, <2>2, <2>3 DEF InsertTransaction
<1>5. QED
  BY <1>1, <1>2, <1>3, <1>4 DEF SwapStep

LEMMA CreateStepMaps ==
    ASSUME IInv, NEW e \in Emissions, CreateStep(e)
    PROVE  [Ledger!LedgerNext]_(Ledger!ledgerVars)
<1> USE DEF BeforeEffect, CreateStages, SwapStages, Stages
<1>1. CASE UpsertToken(e) \/ EnsureToken(e) \/ AddTokenToMonitoring(e)
  <2>1. /\ handler[e].stage \in {"upsert", "ensure", "monitor"}
        /\ \E stage \in {"ensure", "monitor", "queue"} : Goto(e, stage)
        /\ UNCHANGED <<memoryVars, transactions, trades, jobs, forgotten>>
    BY <1>1 DEF UpsertToken, EnsureToken, AddTokenToMonitoring
  <2>2. QED
    BY <2>1, ReadingIsStutter DEF IInv
<1>2. CASE QueueNewToken(e)
  <2>1. CASE jobs' = [jobs EXCEPT ![handler[e].signature] = @ + 1]
    <3>1. \A t \in Signatures : trades[t] \in Nat /\ jobs[t] \in Nat
      BY DEF IInv, PipelineTypeOK
    <3>2. \A t \in Signatures :
              jobs'[t] = IF t = handler[e].signature THEN jobs[t] + 1 ELSE jobs[t]
      BY <2>1 DEF IInv, PipelineTypeOK
    <3>3. \A t \in Signatures :
              Effects(t)' = IF t = handler[e].signature THEN Effects(t) + 1 ELSE Effects(t)
      BY <1>2, <3>1, <3>2 DEF QueueNewToken, Effects
    <3>4. QED
      BY <1>2, <3>3, EffectIsTaken DEF QueueNewToken, IInv
  <2>2. CASE UNCHANGED jobs
    BY <1>2, <2>2, FailingIsWaste DEF QueueNewToken, storeVars, IInv
  <2>3. QED
    BY <1>2, <2>1, <2>2 DEF QueueNewToken
<1>3. QED
  BY <1>1, <1>2 DEF CreateStep

\* A delivery gives the credits of the memory it displaces back.
LEMMA DeliverMaps ==
    ASSUME LInv, NEW s \in Signatures, Deliver(s)
    PROVE  Ledger!LedgerNext
<1> DEFINE e == emissions + 1
<1> DEFINE S == {t \in Signatures : t \in Remembered
                                   /\ t \notin Remembered'}
<1> DEFINE W == IF FirstStage(s) = "done" THEN {s} ELSE {}
<1>1. /\ e \in Emissions /\ handler[e] = Idle /\ s \notin Remembered
      /\ FirstStage(s) \in {"upsert", "rate", "done"}
  BY PipelineAssumption
     DEF LInv, IInv, PipelineTypeOK, Deliver, Emissions, Accept, FirstStage
<1>2. /\ s \in Remembered'
      /\ Remembered' \subseteq Remembered \cup {s}
  BY AcceptRemembers DEF LInv, Deliver
<1>3. \A f \in Emissions :
          handler'[f] = IF f = e THEN [signature |-> s, stage |-> FirstStage(s)]
                        ELSE handler[f]
  BY <1>1 DEF Deliver, LInv, IInv, PipelineTypeOK
<1>4. /\ UNCHANGED transactions
      /\ \A t \in Signatures : Effects(t)' = Effects(t)
  BY DEF Deliver, storeVars, Effects
<1>5. forgotten' = [t \in Signatures |-> IF t \in S THEN forgotten[t] + 1 ELSE forgotten[t]]
  BY <1>1, <1>2 DEF Deliver, ForgottenAfter
<1> HIDE DEF e
<1>6. \A t \in Signatures :
          Credit(t)' = IF t \in W THEN Credit(t) - 1
                       ELSE IF t \in S THEN Credit(t) + 1 ELSE Credit(t)
  <2> SUFFICES ASSUME NEW t \in Signatures
               PROVE  Credit(t)' = IF t \in W THEN Credit(t) - 1
                                   ELSE IF t \in S THEN Credit(t) + 1 ELSE Credit(t)
    OBVIOUS
  <2>1. Cardinality(Pending(t)) \in Nat
    BY PendingFinite
  <2>2. e \notin Pending(t)
    BY <1>1 DEF Pending, Idle, BeforeEffect, CreateStages
  <2>3. CASE t = s /\ FirstStage(s) = "done"
    <3>1. Pending(t)' = Pending(t)
      BY <1>1, <1>3, <2>2, <2>3 DEF Pending, BeforeEffect, CreateStages
    <3>2. QED
      BY <1>1, <1>2, <2>1, <2>3, <3>1 DEF Credit
  <2>4. CASE t = s /\ FirstStage(s) # "done"
    <3>1. Pending(t)' = Pending(t) \cup {e}
      BY <1>1, <1>3, <2>2, <2>4 DEF Pending, BeforeEffect, CreateStages
    <3>2. Cardinality(Pending(t)') = Cardinality(Pending(t)) + 1
      BY <2>2, <3>1, PendingFinite, FS_AddElement
    <3>3. QED
      BY <1>1, <1>2, <2>1, <2>4, <3>2 DEF Credit
  <2>5. CASE t # s
    <3>1. Pending(t)' = Pending(t)
      BY <1>1, <1>3, <2>2, <2>5 DEF Pending
    <3>2. QED
      BY <1>2, <2>1, <2>5, <3>1 DEF Credit
  <2>6. QED
    BY <2>3, <2>4, <2>5
<1>7. \A t \in W : t \in Signatures /\ Credit(t) > 0 /\ t \notin S
  BY <1>1, PendingFinite DEF Credit
<1>8. S \in SUBSET Signatures /\ W \in SUBSET Signatures
  OBVIOUS
<1> HIDE DEF S, W
<1>9. Ledger!Forget(S, W)
  BY <1>4, <1>5, <1>6, <1>7, <1>8 DEF Ledger!Forget, Ledger!Bump
<1>10. QED
  BY <1>8, <1>9 DEF Ledger!LedgerNext

\* A restart starts the ledger over.
LEMMA RestartMaps ==
    ASSUME LInv, Restart
    PROVE  Ledger!LedgerNext
<1> DEFINE S == {t \in Signatures : t \in Remembered}
<1>1. Remembered' = {}
  BY DEF Restart, ForgetAll, Remembered
<1>2. ASSUME NEW t \in Signatures PROVE Credit(t)' = 1
  <2>1. Pending(t)' = {}
    BY DEF Restart, Pending, BeforeEffect, CreateStages
  <2>2. QED
    BY <1>1, <2>1, FS_EmptySet DEF Credit
<1>3. /\ UNCHANGED transactions
      /\ \A t \in Signatures : Effects(t)' = Effects(t)
  BY DEF Restart, storeVars, Effects
<1>4. forgotten' = [t \in Signatures |-> IF t \in S THEN forgotten[t] + 1 ELSE forgotten[t]]
  BY <1>1 DEF Restart, ForgottenAfter
<1>5. \A t \in Signatures \ S : Credit(t) > 0
  BY PendingFinite DEF Credit
<1>6. S \in SUBSET Signatures
  OBVIOUS
<1> HIDE DEF S
<1>7. Ledger!StartOver(S)
  BY <1>2, <1>3, <1>4, <1>5, <1>6 DEF Ledger!StartOver, Ledger!Bump
<1>8. QED
  BY <1>6, <1>7 DEF Ledger!LedgerNext

LEMMA NextMaps == LInv /\ [Next]_vars => [Ledger!LedgerNext]_(Ledger!ledgerVars)
<1> SUFFICES ASSUME LInv, [Next]_vars
             PROVE  [Ledger!LedgerNext]_(Ledger!ledgerVars)
  OBVIOUS
<1>1. ASSUME UNCHANGED vars PROVE UNCHANGED Ledger!ledgerVars
  <2>1. \A s \in Signatures : Effects(s)' = Effects(s) /\ Credit(s)' = Credit(s)
    BY <1>1 DEF vars, storeVars, memoryVars, Effects, Credit, Pending, Remembered
  <2>2. QED
    BY <1>1, <2>1, SameLedger DEF vars, storeVars
<1>2. ASSUME NEW s \in Signatures, DeliverAgain(s) PROVE UNCHANGED Ledger!ledgerVars
  BY <1>1, <1>2 DEF DeliverAgain, Skip, memoryVars, vars
<1>3. QED
  BY <1>1, <1>2, DeliverMaps, SwapStepMaps, CreateStepMaps, RestartMaps DEF Next, LInv

\* The pipeline implements the ledger: for any transactions and bounds, every
\* step of a handler, a delivery or a restart is a step of TradeLedger or
\* leaves it alone.
THEOREM PipelineKeepsLedger == Spec => KeepsLedger
  BY InitLedger, NextMaps, LInvariant, PTL DEF Spec, KeepsLedger, Ledger!LedgerSpec

-----------------------------------------------------------------------------
\* What the pipeline does to the memory, a step of the memory: it accepts,
\* skips, or forgets everything when the process starts again.
LEMMA PipelineStepIsMemoryStep == [Next]_vars => [MemoryNext]_memoryVars
<1> SUFFICES ASSUME [Next]_vars PROVE [MemoryNext]_memoryVars
  OBVIOUS
<1>1. ASSUME NEW s \in Signatures, Deliver(s) \/ DeliverAgain(s) PROVE MemoryNext
  BY <1>1 DEF Deliver, DeliverAgain, MemoryNext
<1>2. ASSUME NEW e \in Emissions, SwapStep(e) \/ CreateStep(e)
      PROVE  UNCHANGED memoryVars
  BY <1>2 DEF SwapStep, CreateStep, SolUsdRate, RecordTrade, LookupToken,
              InsertTransaction, UpsertToken, EnsureToken, AddTokenToMonitoring,
              QueueNewToken
<1>3. CASE Restart
  BY <1>3 DEF Restart, MemoryNext
<1>4. CASE UNCHANGED vars
  BY <1>4 DEF vars
<1> QED
  BY <1>1, <1>2, <1>3, <1>4 DEF Next

LEMMA PipelineMemory == Spec => []MemoryInv
<1>1. Init => MemoryInv
  BY MemoryInvInit DEF Init
<1>2. MemoryInv /\ [Next]_vars => MemoryInv'
  BY PipelineStepIsMemoryStep, MemoryInvKept
<1> QED
  BY <1>1, <1>2, PTL DEF Spec

\* Every variable of the pipeline has its type, its memory included: there is
\* one handler for each emission and the cleanup counter stays in its range
\* (index.ts:243-351, TransactionStreamer.ts:281-285).
THEOREM TypeCorrect == Spec => []TypeOK
<1>1. IInv /\ MemoryInv => TypeOK
  BY DEF IInv, MemoryInv, TypeOK
<1> QED
  BY <1>1, Invariant, PipelineMemory, PTL

\* The memory keeps its two promises inside the pipeline, whatever is
\* delivered while handlers fail and the process restarts: what was accepted
\* recently is skipped, and the bound of the cleanup holds
\* (TransactionStreamer.ts:269-285, 739-755).
THEOREM PipelineRemembers == Spec => [](RecentRemembered /\ MemoryBounded)
<1>1. MemoryInv => RecentRemembered /\ MemoryBounded
  BY RecentFollows, BoundFollows
<1> QED
  BY <1>1, PipelineMemory, PTL

-----------------------------------------------------------------------------
(***************************************************************************)
(* The stream that the transactions come from.  LoopsBounded is inductive  *)
(* with the types.  A step adds a loop only together with a start or       *)
(* against a timer, and adds a timer only against a loop, so that the      *)
(* lemmas on Loops, one per kind of change of a subscription, are what the *)
(* proof rests on.                                                         *)
(***************************************************************************)
LoopInv == StreamTypeOK /\ LoopsBounded

\* A subscription of a free slot is one more loop.
LEMMA LoopAdded ==
    ASSUME StreamTypeOK, NEW s \in Subscriptions, Grpc!Subscribe(s)
    PROVE  /\ Grpc!GrpcTypeOK'
           /\ Loops' = Loops \cup {s}
           /\ Cardinality(Loops') = Cardinality(Loops) + 1
           /\ Cardinality(Loops) \in Nat
<1>1. Grpc!GrpcTypeOK'
  BY StreamerAssumption
     DEF StreamTypeOK, Grpc!GrpcTypeOK, Grpc!Subscribe, Grpc!Connect, Grpc!To,
         Grpc!SubscriptionStages
<1>2. Loops' = Loops \cup {s} /\ s \notin Loops
  BY DEF StreamTypeOK, Grpc!GrpcTypeOK, Loops, Grpc!Active, Grpc!Subscribe, Grpc!To
<1>3. IsFiniteSet(Loops)
  BY StreamerAssumption, FS_Subset DEF Loops
<1>4. QED
  BY <1>1, <1>2, <1>3, FS_AddElement, FS_CardinalityType

\* Going on from one stage to the next, a loop stays a loop.
LEMMA LoopKept ==
    ASSUME StreamTypeOK, NEW s \in Subscriptions, Grpc!Active(s),
           NEW stage, stage # "none", Grpc!To(s, stage)
    PROVE  Loops' = Loops
  BY DEF StreamTypeOK, Grpc!GrpcTypeOK, Loops, Grpc!Active, Grpc!To

\* A subscription that resolves or rejects is one loop less.
LEMMA LoopRemoved ==
    ASSUME StreamTypeOK, NEW s \in Subscriptions, Grpc!Active(s), Grpc!To(s, "none")
    PROVE  /\ Loops' = Loops \ {s}
           /\ Cardinality(Loops') = Cardinality(Loops) - 1
           /\ Cardinality(Loops) \in Nat
<1>1. Loops' = Loops \ {s} /\ s \in Loops
  BY DEF StreamTypeOK, Grpc!GrpcTypeOK, Loops, Grpc!Active, Grpc!To
<1>2. IsFiniteSet(Loops)
  BY StreamerAssumption, FS_Subset DEF Loops
<1>3. QED
  BY <1>1, <1>2, FS_RemoveElement, FS_CardinalityType

LEMMA LoopsCounted == Cardinality(Loops) \in Nat
<1>1. IsFiniteSet(Loops)
  BY StreamerAssumption, FS_Subset DEF Loops
<1>2. QED
  BY <1>1, FS_CardinalityType

LEMMA InitLoopInv == StreamInit => LoopInv
<1> SUFFICES ASSUME StreamInit PROVE LoopInv
  OBVIOUS
<1>1. StreamTypeOK
  <2>1. isConnectedFlag \in BOOLEAN /\ isRunning \in BOOLEAN
    BY DEF StreamInit, Grpc!Init
  <2>2. /\ reconnectAttempt \in 0..maxReconnectAttempts
        /\ subscription \in [Subscriptions -> Grpc!SubscriptionStages]
    BY StreamerAssumption DEF StreamInit, Grpc!Init, Grpc!SubscriptionStages
  <2>3. /\ startTimers \in Nat /\ loopTimers \in Nat
        /\ starts \in 0..MaxStarts /\ errors \in 0..MaxErrors
        /\ ends \in 0..MaxEnds
    BY StreamerAssumption DEF StreamInit
  <2>4. QED
    BY <2>1, <2>2, <2>3 DEF StreamTypeOK, Grpc!GrpcTypeOK
<1>2. Loops = {}
  BY DEF StreamInit, Grpc!Init, Loops, Grpc!Active
<1>3. LoopsBounded
  BY <1>2, FS_EmptySet DEF StreamInit, LoopsBounded
<1>4. QED
  BY <1>1, <1>3 DEF LoopInv

\* A start adds one loop and counts itself.
LEMMA StartLoopKeeps ==
    ASSUME LoopInv, NEW timers \in Nat, StartLoop(timers)
    PROVE  LoopInv'
<1>1. PICK s \in Subscriptions : Grpc!Subscribe(s)
  BY DEF StartLoop
<1>2. StreamTypeOK'
  BY <1>1, LoopAdded, StreamerAssumption DEF LoopInv, StreamTypeOK, StartLoop
<1>3. LoopsBounded'
  BY <1>1, LoopAdded DEF LoopInv, StreamTypeOK, LoopsBounded, StartLoop
<1>4. QED
  BY <1>2, <1>3 DEF LoopInv

\* A start that fails adds a timer of its own kind only.
LEMMA StartFailsKeeps ==
    ASSUME LoopInv, NEW timers \in Nat, StartFails(timers)
    PROVE  LoopInv'
<1>1. Loops' = Loops
  BY DEF StartFails, Loops, Grpc!Active
<1>2. StreamTypeOK'
  BY StreamerAssumption DEF LoopInv, StreamTypeOK, Grpc!GrpcTypeOK, StartFails, Grpc!ConnectThrows
<1>3. LoopsBounded'
  BY <1>1 DEF LoopInv, LoopsBounded, StartFails
<1>4. QED
  BY <1>2, <1>3 DEF LoopInv

\* An error makes of a loop a sleeping loop, or at most a timer.
LEMMA BreakKeeps ==
    ASSUME LoopInv, NEW s \in Subscriptions, Break(s)
    PROVE  LoopInv'
<1>1. Grpc!Active(s)
  BY DEF Break, Grpc!Failing, Grpc!Active
<1>2. CASE Grpc!Retry(s) /\ UNCHANGED loopTimers
  <2>1. Loops' = Loops
    BY <1>1, <1>2, LoopKept DEF LoopInv, Grpc!Retry
  <2>2. StreamTypeOK'
    BY <1>2, StreamerAssumption
       DEF LoopInv, StreamTypeOK, Grpc!GrpcTypeOK, Break, Grpc!Retry, Grpc!To,
           Grpc!SubscriptionStages
  <2>3. LoopsBounded'
    BY <1>2, <2>1 DEF LoopInv, LoopsBounded, Break
  <2>4. QED
    BY <2>2, <2>3 DEF LoopInv
<1>3. CASE Grpc!GiveUp(s) /\ SubscribeRejects(loopTimers)
  <2>1. /\ Cardinality(Loops') = Cardinality(Loops) - 1
        /\ Cardinality(Loops) \in Nat
    BY <1>1, <1>3, LoopRemoved DEF LoopInv, Grpc!GiveUp
  <2>2. StreamTypeOK'
    BY <1>3, StreamerAssumption
       DEF LoopInv, StreamTypeOK, Grpc!GrpcTypeOK, Break, Grpc!GiveUp, Grpc!To,
           Grpc!SubscriptionStages, SubscribeRejects
  <2>3. LoopsBounded'
    BY <1>3, <2>1 DEF LoopInv, StreamTypeOK, LoopsBounded, Break, SubscribeRejects
  <2>4. QED
    BY <2>2, <2>3 DEF LoopInv
<1>4. QED
  BY <1>2, <1>3 DEF Break

\* The steps of one subscription.
LEMMA LoopStepKeeps ==
    ASSUME LoopInv, NEW s \in Subscriptions, LoopStep(s)
    PROVE  LoopInv'
<1>1. CASE Opened(s)
  <2>1. Loops' = Loops
    BY <1>1, LoopKept DEF LoopInv, Opened, Grpc!Opened, Grpc!Active
  <2>2. StreamTypeOK'
    BY <1>1, StreamerAssumption
       DEF LoopInv, StreamTypeOK, Grpc!GrpcTypeOK, Opened, Grpc!Opened, Grpc!To,
           Grpc!SubscriptionStages
  <2>3. QED
    BY <1>1, <2>1, <2>2 DEF LoopInv, LoopsBounded, Opened
<1>2. CASE Break(s)
  BY <1>2, BreakKeeps
<1>3. CASE Reconnected(s)
  <2>1. Loops' = Loops
    BY <1>3, LoopKept DEF LoopInv, Reconnected, Grpc!Reconnected, Grpc!Active
  <2>2. StreamTypeOK'
    BY <1>3, StreamerAssumption
       DEF LoopInv, StreamTypeOK, Grpc!GrpcTypeOK, Reconnected, Grpc!Reconnected,
           Grpc!Connect, Grpc!To, Grpc!SubscriptionStages
  <2>3. QED
    BY <1>3, <2>1, <2>2 DEF LoopInv, LoopsBounded, Reconnected
<1>4. CASE ServerEnds(s)
  <2>1. /\ Cardinality(Loops') = Cardinality(Loops) - 1
        /\ Cardinality(Loops) \in Nat
    BY <1>4, LoopRemoved DEF LoopInv, ServerEnds, Grpc!Ends, Grpc!Active
  <2>2. StreamTypeOK'
    BY <1>4, StreamerAssumption
       DEF LoopInv, StreamTypeOK, Grpc!GrpcTypeOK, ServerEnds, Grpc!Ends, Grpc!To,
           Grpc!SubscriptionStages
  <2>3. QED
    BY <1>4, <2>1, <2>2 DEF LoopInv, StreamTypeOK, LoopsBounded, ServerEnds
<1>5. QED
  BY <1>1, <1>2, <1>3, <1>4 DEF LoopStep

\* A timer of the loop makes way for a loop, or for another timer.
LEMMA LoopTimerKeeps ==
    ASSUME LoopInv, LoopTimer
    PROVE  LoopInv'
<1>1. CASE /\ isRunning
           /\ \E s \in Subscriptions : Grpc!Subscribe(s)
           /\ loopTimers' = loopTimers - 1
           /\ UNCHANGED errors
  <2>1. PICK s \in Subscriptions : Grpc!Subscribe(s)
    BY <1>1
  <2>2. StreamTypeOK'
    BY <1>1, <2>1, LoopAdded DEF LoopInv, StreamTypeOK, LoopTimer
  <2>3. LoopsBounded'
    BY <1>1, <2>1, LoopAdded DEF LoopInv, StreamTypeOK, LoopsBounded, LoopTimer
  <2>4. QED
    BY <2>2, <2>3 DEF LoopInv
<1>2. CASE /\ isRunning
           /\ errors < MaxErrors
           /\ Grpc!ConnectThrows
           /\ SubscribeRejects(loopTimers - 1)
           /\ errors' = errors + 1
           /\ UNCHANGED subscription
  <2>1. Loops' = Loops
    BY <1>2 DEF Loops, Grpc!Active
  <2>2. StreamTypeOK'
    BY <1>2, StreamerAssumption
       DEF LoopInv, StreamTypeOK, Grpc!GrpcTypeOK, Grpc!ConnectThrows, SubscribeRejects,
           LoopTimer
  <2>3. LoopsBounded'
    BY <1>2, <2>1 DEF LoopInv, StreamTypeOK, LoopsBounded, SubscribeRejects, LoopTimer
  <2>4. QED
    BY <2>2, <2>3 DEF LoopInv
<1>3. CASE /\ ~isRunning
           /\ loopTimers' = loopTimers - 1
           /\ UNCHANGED <<grpcVars, errors>>
  <2>1. Loops' = Loops
    BY <1>3 DEF Loops, Grpc!Active, grpcVars
  <2>2. StreamTypeOK'
    BY <1>3 DEF LoopInv, StreamTypeOK, Grpc!GrpcTypeOK, grpcVars, LoopTimer
  <2>3. LoopsBounded'
    BY <1>3, <2>1, LoopsCounted DEF LoopInv, StreamTypeOK, LoopsBounded, LoopTimer
  <2>4. QED
    BY <2>2, <2>3 DEF LoopInv
<1>4. QED
  BY <1>1, <1>2, <1>3 DEF LoopTimer

LEMMA NextLoopInv == LoopInv /\ [StreamNext]_streamVars => LoopInv'
<1> SUFFICES ASSUME LoopInv, [StreamNext]_streamVars PROVE LoopInv'
  OBVIOUS
<1>1. startTimers \in Nat
  BY DEF LoopInv, StreamTypeOK
<1>2. CASE Start
  BY <1>1, <1>2, StartLoopKeeps, StartFailsKeeps DEF Start
<1>3. CASE StartTimer
  <2>1. startTimers - 1 \in Nat
    BY <1>1, <1>3 DEF StartTimer
  <2>2. CASE /\ isRunning
             /\ startTimers' = startTimers - 1
             /\ UNCHANGED <<grpcVars, isRunning, loopTimers, starts, errors, ends>>
    BY <2>1, <2>2
       DEF LoopInv, StreamTypeOK, Grpc!GrpcTypeOK, LoopsBounded, Loops, Grpc!Active, grpcVars
  <2>3. QED
    BY <1>3, <2>1, <2>2, StartLoopKeeps, StartFailsKeeps DEF StartTimer
<1>4. CASE Stop
  BY <1>4
     DEF LoopInv, StreamTypeOK, Grpc!GrpcTypeOK, LoopsBounded, Loops, Grpc!Active, Stop,
         Grpc!Disconnect
<1>5. CASE LoopTimer
  BY <1>5, LoopTimerKeeps
<1>6. CASE \E s \in Subscriptions : LoopStep(s)
  BY <1>6, LoopStepKeeps
<1>7. CASE UNCHANGED streamVars
  BY <1>7
     DEF streamVars, grpcVars, LoopInv, StreamTypeOK, Grpc!GrpcTypeOK, LoopsBounded, Loops,
         Grpc!Active
<1>8. QED
  BY <1>2, <1>3, <1>4, <1>5, <1>6, <1>7 DEF StreamNext

\* Types and the bound on the loops hold together in every reachable state.
LEMMA LoopInvariant == StreamSpec => []LoopInv
  BY InitLoopInv, NextLoopInv, PTL DEF StreamSpec

\* The attempts never exceed their maximum, however many subscriptions share
\* the client (GrpcClient.ts:129-149).
THEOREM StreamTypeCorrect == StreamSpec => []StreamTypeOK
<1>1. LoopInv => StreamTypeOK
  BY DEF LoopInv
<1>2. QED
  BY <1>1, LoopInvariant, PTL

\* For any number of starts and any errors, timers, stops and streams that
\* end, there are never more loops than starts.
THEOREM LoopsAreBounded == StreamSpec => []LoopsBounded
<1>1. LoopInv => LoopsBounded
  BY DEF LoopInv
<1>2. QED
  BY <1>1, LoopInvariant, PTL

\* A step of one subscription leaves a loop, or sets a timer.
LEMMA LoopStepServes ==
    ASSUME LoopInv, RunningIsServed, NEW s \in Subscriptions, LoopStep(s),
           ~ServerEnds(s)
    PROVE  RunningIsServed'
<1>1. CASE Opened(s)
  BY <1>1, LoopKept
     DEF LoopInv, RunningIsServed, Opened, Grpc!Opened, Grpc!Active
<1>2. CASE Break(s)
  <2>1. Grpc!Active(s)
    BY <1>2 DEF Break, Grpc!Failing, Grpc!Active
  <2>2. CASE Grpc!Retry(s) /\ UNCHANGED loopTimers
    BY <1>2, <2>1, <2>2, LoopKept
       DEF LoopInv, RunningIsServed, Break, Grpc!Retry
  <2>3. CASE Grpc!GiveUp(s) /\ SubscribeRejects(loopTimers)
    BY <1>2, <2>3
       DEF LoopInv, StreamTypeOK, RunningIsServed, Break, SubscribeRejects
  <2>4. QED
    BY <1>2, <2>2, <2>3 DEF Break
<1>3. CASE Reconnected(s)
  BY <1>3, LoopKept
     DEF LoopInv, RunningIsServed, Reconnected, Grpc!Reconnected, Grpc!Active
<1>4. QED
  BY <1>1, <1>2, <1>3 DEF LoopStep

\* A new subscription serves the streamer, running or not.
LEMMA SubscribeServes ==
    ASSUME StreamTypeOK, NEW s \in Subscriptions, Grpc!Subscribe(s)
    PROVE  RunningIsServed'
  BY LoopAdded DEF RunningIsServed

\* Only ServerEnds counts a stream that the server ended.
LEMMA EndsCounted ==
    ASSUME LoopInv, [StreamNext]_streamVars
    PROVE  /\ ends \in Nat
           /\ ends' = ends \/ ends' = ends + 1
           /\ \A s \in Subscriptions : ServerEnds(s) => ends' = ends + 1
<1>1. ends \in Nat
  BY StreamerAssumption DEF LoopInv, StreamTypeOK
<1>2. ends' = ends \/ ends' = ends + 1
  BY DEF StreamNext, streamVars, Start, StartLoop, StartFails, StartTimer, Stop, LoopTimer, LoopStep,
         Opened, Break, Reconnected, ServerEnds
<1>3. QED
  BY <1>1, <1>2 DEF ServerEnds

LEMMA NextServes == LoopInv /\ ErrorsAreRetried /\ [StreamNext]_streamVars => ErrorsAreRetried'
<1> SUFFICES ASSUME LoopInv, ErrorsAreRetried, [StreamNext]_streamVars, ends' = 0
             PROVE  RunningIsServed'
  BY DEF ErrorsAreRetried
<1>0. RunningIsServed /\ \A s \in Subscriptions : ~ServerEnds(s)
  BY EndsCounted DEF ErrorsAreRetried
<1>1. ASSUME NEW timers, StartLoop(timers) PROVE RunningIsServed'
  BY <1>1, SubscribeServes DEF LoopInv, StartLoop
<1>2. ASSUME NEW timers, StartFails(timers) PROVE RunningIsServed'
  BY <1>0, <1>2 DEF StartFails, RunningIsServed
<1>3. ASSUME UNCHANGED <<grpcVars, isRunning, loopTimers>> PROVE RunningIsServed'
  BY <1>0, <1>3 DEF RunningIsServed, Loops, Grpc!Active, grpcVars
<1>4. CASE Start
  BY <1>1, <1>2, <1>4 DEF Start
<1>5. CASE StartTimer
  BY <1>1, <1>2, <1>3, <1>5 DEF StartTimer
<1>6. CASE Stop
  BY <1>6 DEF Stop, RunningIsServed
<1>7. CASE LoopTimer
  <2>1. CASE ~isRunning
    BY <1>7, <2>1 DEF LoopTimer, RunningIsServed
  <2>2. CASE \E s \in Subscriptions : Grpc!Subscribe(s)
    BY <2>2, SubscribeServes DEF LoopInv
  <2>3. CASE isRunning /\ SubscribeRejects(loopTimers - 1)
    BY <1>7, <2>3 DEF LoopInv, StreamTypeOK, LoopTimer, SubscribeRejects, RunningIsServed
  <2>4. QED
    BY <1>7, <2>1, <2>2, <2>3 DEF LoopTimer
<1>8. CASE \E s \in Subscriptions : LoopStep(s)
  BY <1>0, <1>8, LoopStepServes
<1>9. CASE UNCHANGED streamVars
  BY <1>3, <1>9 DEF streamVars
<1>10. QED
  BY <1>4, <1>5, <1>6, <1>7, <1>8, <1>9 DEF StreamNext

\* As long as the server ends no stream without an error, a running streamer
\* is never left without a subscription or a timer that makes one, for any
\* number of errors and attempts.
THEOREM FailuresAreRetried == StreamSpec => []ErrorsAreRetried
<1>1. StreamInit => ErrorsAreRetried
  BY DEF StreamInit, ErrorsAreRetried, RunningIsServed
<1>2. QED
  BY <1>1, NextServes, LoopInvariant, PTL DEF StreamSpec
=============================================================================
