------------------------- MODULE PoolMonitor_proofs -------------------------
(***************************************************************************)
(* No value is taken over in silence, for any number of readers of a pool. *)
(*                                                                         *)
(* HeldIsReported is not inductive: Unchanged stores, and Store and the    *)
(* two writes before it keep, what a reader has carried across its awaits. *)
(* So the invariant says where that came from: what a reader noted was     *)
(* reported or came with addPool(), and so has what it carries once its    *)
(* event is out.                                                           *)
(***************************************************************************)
EXTENDS PoolMonitor, TLAPS

Told == reported \cup added

CarriedIsTold ==
    \A r \in Readers :
        /\ previousInfo[r] # None => previousInfo[r] \in Told
        /\ stage[r] \in {"caching", "saving", "saved"} => currentInfo[r] \in reported

IInv == TypeOK /\ HeldIsReported /\ CarriedIsTold

LEMMA NoneIsNoReserve == None \notin Reserves
  BY PoolAssumption DEF Reserves, Versions

LEMMA InitIInv == Init => IInv
  BY PoolAssumption
     DEF Init, IInv, TypeOK, HeldIsReported, CarriedIsTold, Told, Stages, Reserves, Versions

LEMMA VisitKeepsIInv ==
    ASSUME IInv, NEW r \in Readers, Visit(r)
    PROVE  IInv'
<1>1. TypeOK'
  BY NoneIsNoReserve DEF IInv, TypeOK, Visit, Stages, history
<1>2. HeldIsReported'
  BY DEF IInv, HeldIsReported, Visit, history
<1>3. CarriedIsTold'
  BY DEF IInv, TypeOK, HeldIsReported, CarriedIsTold, Told, Visit, history
<1>4. QED
  BY <1>1, <1>2, <1>3 DEF IInv

\* What addPool() does before it stores the pool: nothing but its own reader.
LEMMA AddingKeepsIInv ==
    ASSUME IInv, NEW r \in Readers, BeginAdd(r) \/ AddAnswered(r)
    PROVE  IInv'
<1>1. TypeOK'
  <2>1. CASE BeginAdd(r)
    BY <2>1 DEF IInv, TypeOK, BeginAdd, GoTo, Stages, history
  <2>2. CASE AddAnswered(r)
    BY <2>2, NoneIsNoReserve DEF IInv, TypeOK, AddAnswered, Stages, Reserves, history
  <2>3. QED
    BY <2>1, <2>2
<1>2. HeldIsReported'
  BY DEF IInv, HeldIsReported, BeginAdd, AddAnswered, history
<1>3. CarriedIsTold'
  BY DEF IInv, TypeOK, CarriedIsTold, Told, BeginAdd, AddAnswered, GoTo, history
<1>4. QED
  BY <1>1, <1>2, <1>3 DEF IInv

LEMMA AddedKeepsIInv ==
    ASSUME IInv, NEW r \in Readers, Added(r)
    PROVE  IInv'
<1>1. currentInfo[r] \in Reserves
  BY DEF IInv, TypeOK, Added
<1>2. TypeOK'
  BY <1>1 DEF IInv, TypeOK, Added, Finish, Stages
<1>3. HeldIsReported'
  BY DEF IInv, HeldIsReported, Added
<1>4. CarriedIsTold'
  BY DEF IInv, TypeOK, CarriedIsTold, Told, Added, Finish
<1>5. QED
  BY <1>2, <1>3, <1>4 DEF IInv

LEMMA AnsweredKeepsIInv ==
    ASSUME IInv, NEW r \in Readers, Answered(r)
    PROVE  IInv'
<1>1. TypeOK'
  BY NoneIsNoReserve DEF IInv, TypeOK, Answered, Stages, Reserves, history
<1>2. HeldIsReported'
  BY DEF IInv, HeldIsReported, Answered, history
<1>3. CarriedIsTold'
  BY DEF IInv, TypeOK, CarriedIsTold, Told, Answered, history
<1>4. QED
  BY <1>1, <1>2, <1>3 DEF IInv

LEMMA EmitKeepsIInv ==
    ASSUME IInv, NEW r \in Readers, Emit(r)
    PROVE  IInv'
<1>1. currentInfo[r] \in Reserves
  BY DEF IInv, TypeOK, Emit
<1>2. TypeOK'
  BY <1>1 DEF IInv, TypeOK, Emit, GoTo, Stages
<1>3. HeldIsReported'
  BY DEF IInv, HeldIsReported, Emit
<1>4. CarriedIsTold'
  BY DEF IInv, TypeOK, CarriedIsTold, Told, Emit, GoTo
<1>5. QED
  BY <1>2, <1>3, <1>4 DEF IInv

\* The answer is what was noted, and that has been told.
LEMMA UnchangedKeepsIInv ==
    ASSUME IInv, NEW r \in Readers, Unchanged(r)
    PROVE  IInv'
<1>1. currentInfo[r] \in Reserves /\ currentInfo[r] \in Told
  <2>1. currentInfo[r] \in Reserves
    BY DEF IInv, TypeOK, Unchanged
  <2>2. previousInfo[r] # None
    BY DEF IInv, TypeOK, Unchanged
  <2>3. QED
    BY <2>1, <2>2 DEF IInv, CarriedIsTold, Unchanged, hasPoolChanged
<1>2. TypeOK'
  BY <1>1 DEF IInv, TypeOK, Unchanged, Finish, Stages, history
<1>3. HeldIsReported'
  BY <1>1 DEF IInv, HeldIsReported, Told, Unchanged, history
<1>4. CarriedIsTold'
  BY DEF IInv, TypeOK, CarriedIsTold, Told, Unchanged, Finish, history
<1>5. QED
  BY <1>2, <1>3, <1>4 DEF IInv

\* The two writes, each of which may fail.
LEMMA WritesKeepIInv ==
    ASSUME IInv, NEW r \in Readers, CacheUpdate(r) \/ SavePool(r)
    PROVE  IInv'
<1>1. currentInfo[r] \in Reserves /\ currentInfo[r] \in reported
  BY DEF IInv, TypeOK, CarriedIsTold, CacheUpdate, SavePool
<1>2. TypeOK'
  <2>1. CASE CacheUpdate(r)
    BY <2>1, <1>1, PoolAssumption DEF IInv, TypeOK, CacheUpdate, GoTo, Fault, Stages, history
  <2>2. CASE SavePool(r)
    BY <2>2, <1>1, PoolAssumption DEF IInv, TypeOK, SavePool, GoTo, Fault, Stages, history
  <2>3. QED
    BY <2>1, <2>2
<1>3. HeldIsReported'
  BY <1>1 DEF IInv, HeldIsReported, CacheUpdate, SavePool, history
<1>4. CarriedIsTold'
  BY DEF IInv, TypeOK, CarriedIsTold, Told, CacheUpdate, SavePool, GoTo, history
<1>5. QED
  BY <1>2, <1>3, <1>4 DEF IInv

LEMMA StoreKeepsIInv ==
    ASSUME IInv, NEW r \in Readers, Store(r)
    PROVE  IInv'
<1>1. currentInfo[r] \in Reserves /\ currentInfo[r] \in reported
  BY DEF IInv, TypeOK, CarriedIsTold, Store
<1>2. TypeOK'
  BY <1>1 DEF IInv, TypeOK, Store, Finish, Stages, history
<1>3. HeldIsReported'
  BY <1>1 DEF IInv, HeldIsReported, Store, history
<1>4. CarriedIsTold'
  BY DEF IInv, TypeOK, CarriedIsTold, Told, Store, Finish, history
<1>5. QED
  BY <1>2, <1>3, <1>4 DEF IInv

LEMMA RequestFailsKeepsIInv ==
    ASSUME IInv, NEW r \in Readers, RequestFails(r)
    PROVE  IInv'
<1>1. TypeOK'
  BY PoolAssumption DEF IInv, TypeOK, RequestFails, Finish, Fault, Stages, history
<1>2. HeldIsReported'
  BY DEF IInv, HeldIsReported, RequestFails, history
<1>3. CarriedIsTold'
  BY DEF IInv, TypeOK, CarriedIsTold, Told, RequestFails, Finish, history
<1>4. QED
  BY <1>1, <1>2, <1>3 DEF IInv

\* The chain, the cache's clock, the end of the process, and stuttering.
LEMMA OutsideKeepsIInv ==
    ASSUME IInv, ChainMoves \/ CacheExpires \/ Restart \/ UNCHANGED vars
    PROVE  IInv'
<1>1. CASE ChainMoves
  BY <1>1, PoolAssumption
     DEF IInv, TypeOK, HeldIsReported, CarriedIsTold, Told, ChainMoves,
         Versions, reader, history
<1>2. CASE CacheExpires
  BY <1>2
     DEF IInv, TypeOK, HeldIsReported, CarriedIsTold, Told, CacheExpires, reader, history
<1>3. CASE Restart
  BY <1>3, PoolAssumption
     DEF IInv, TypeOK, HeldIsReported, CarriedIsTold, Told, Restart, Stages, history
<1>4. CASE UNCHANGED vars
  BY <1>4
     DEF IInv, TypeOK, HeldIsReported, CarriedIsTold, Told, vars, reader, history
<1>5. QED
  BY <1>1, <1>2, <1>3, <1>4

LEMMA NextKeepsIInv == IInv /\ [Next]_vars => IInv'
<1> SUFFICES ASSUME IInv, [Next]_vars
             PROVE  IInv'
  OBVIOUS
<1>1. ASSUME NEW r \in Readers, BeginAdd(r) \/ Visit(r) \/ Continue(r) \/ RequestFails(r)
      PROVE  IInv'
  BY <1>1, AddingKeepsIInv, AddedKeepsIInv, VisitKeepsIInv, AnsweredKeepsIInv,
     EmitKeepsIInv, UnchangedKeepsIInv, WritesKeepIInv, StoreKeepsIInv,
     RequestFailsKeepsIInv DEF Continue
<1>2. QED
  BY <1>1, OutsideKeepsIInv DEF Next

\* The monitor keeps its types, and a reader holds what its stage says it holds.
THEOREM TypeCorrect == Spec => []TypeOK
<1>1. Spec => []IInv
  BY InitIInv, NextKeepsIInv, PTL DEF Spec
<1>2. IInv => TypeOK
  BY DEF IInv
<1>3. QED
  BY <1>1, <1>2, PTL

\* For any number of overlapping polls, refreshes and addPool() calls, with calls
\* that fail and restarts, everything the monitor keeps, caches or saves has been
\* in a poolUpdate event, or came with the pool when it was added.
THEOREM NothingIsTakenOverInSilence == Spec => []HeldIsReported
<1>1. Spec => []IInv
  BY InitIInv, NextKeepsIInv, PTL DEF Spec
<1>2. IInv => HeldIsReported
  BY DEF IInv
<1>3. QED
  BY <1>1, <1>2, PTL
=============================================================================
