------------------------- MODULE PriceCaches_proofs -------------------------
(***************************************************************************)
(* The age of stored data and of answers is bounded by the times to live   *)
(* they passed through, for any times to live, any latency, any number of  *)
(* callers, calls and failures.                                            *)
(*                                                                         *)
(* Neither bound is inductive: what is stored next is in the hands of a    *)
(* caller, and has grown older there.  The invariant adds how old the data *)
(* was that a caller is about to store when its call began (Source), that  *)
(* a call lasts no longer than MaxLatency (Clock), and the age of the      *)
(* SOL/USD rate that getTokenPrice holds meanwhile (Rates).  Each store    *)
(* then adds one time to live and one latency, which is what Bound adds.   *)
(*                                                                         *)
(* The second part is about failures: the one place where getTokenPrice    *)
(* lets one out, once it has looked into the cache, is the SOL/USD rate.   *)
(*                                                                         *)
(* The last part shows that no call is stuck.                              *)
(***************************************************************************)
EXTENDS PriceCaches, TLAPS

\* How old data that f is about to store may have been when it was called.
Source(f) ==
    CASE f = "inSol" -> Lives("poolsSol")
      [] f = "solUsd" -> Larger(Lives("poolsUsdc"), Lives("poolsUsdt"))
      [] f = "full" -> Larger(OfSol, OfSolUsd)
      [] f = "unified" -> Larger(OfFull, Larger(OfRate, Lives("onchain")))
      [] f = "cap" -> Larger(OfUnified, Lives("supply"))
      [] OTHER -> 0

\* The stages in which getTokenPrice holds a rate it may still use.
Rated == {"shyft", "find", "chain", "store"}

Typed ==
    /\ roster \in Rosters
    /\ now \in 0..MaxTime
    /\ frame \in [Callers -> [Functions -> [stage : Stages, born : 0..MaxTime]]]
    /\ rate \in [Callers -> 0..MaxTime]
    /\ started \in [Callers -> 0..MaxTime]

Clock ==
    \A c \in Callers :
        /\ started[c] <= now
        /\ Running(c) => now <= started[c] + MaxLatency

\* What one call of f holds.
Held(c, f, stage, born) ==
    /\ stage = "value" => started[c] <= born + Reach(f)
    /\ stage \in Storing => started[c] <= born + Source(f)

Holdings ==
    \A c \in Callers, f \in Functions :
        Held(c, f, frame[c][f].stage, frame[c][f].born)

Rates ==
    \A c \in Callers :
        frame[c]["unified"].stage \in Rated => started[c] <= rate[c] + OfRate

\* A key that is there holds data, no older than its bound when it expires.
Entries ==
    [born : 0..MaxTime, expires : Nat]

Sound(k, entry) ==
    /\ entry \in Entries
    /\ now < entry.expires
    /\ entry.expires <= entry.born + Bound(k)

Cached ==
    /\ cache \in [Keys -> Entries \cup {None}]
    /\ \A k \in Keys : cache[k] # None => Sound(k, cache[k])

IInv == Typed /\ Clock /\ Holdings /\ Rates /\ Cached

-----------------------------------------------------------------------------
(***************************************************************************)
(* Bounds.                                                                 *)
(***************************************************************************)
LEMMA LargerBounds ==
    ASSUME NEW a \in Nat, NEW b \in Nat
    PROVE  /\ Larger(a, b) \in Nat
           /\ a <= Larger(a, b) /\ b <= Larger(a, b)
  BY DEF Larger

LEMMA LivesNat == \A k \in Keys : Lives(k) \in Nat /\ Ttl[k] <= Lives(k)
  BY PriceAssumption DEF Lives

LEMMA OfNat ==
    /\ OfSol \in Nat /\ OfSolUsd \in Nat /\ OfFull \in Nat
    /\ OfRate \in Nat /\ OfUnified \in Nat /\ OfCap \in Nat
<1>1. /\ Lives("inSol") \in Nat /\ Lives("poolsSol") \in Nat
      /\ Lives("solUsd") \in Nat /\ Lives("poolsUsdc") \in Nat
      /\ Lives("poolsUsdt") \in Nat /\ Lives("full") \in Nat
      /\ Lives("oracle") \in Nat /\ Lives("fallback") \in Nat
      /\ Lives("onchain") \in Nat /\ Lives("unified") \in Nat
      /\ Lives("cap") \in Nat /\ Lives("supply") \in Nat
  BY LivesNat DEF Keys, Functions
<1>2. OfSol \in Nat /\ OfSolUsd \in Nat
  BY <1>1 DEF OfSol, OfSolUsd, Larger
<1>3. OfFull \in Nat /\ OfRate \in Nat
  BY <1>1, <1>2 DEF OfFull, OfRate, Larger
<1>4. OfUnified \in Nat
  BY <1>1, <1>3 DEF OfUnified, Larger
<1>5. OfCap \in Nat
  BY <1>1, <1>4 DEF OfCap, Larger
<1>6. QED
  BY <1>2, <1>3, <1>4, <1>5

\* What is stored may be kept for one time to live and one latency more.
LEMMA BoundIsSource ==
    \A f \in Functions :
        /\ Source(f) \in Nat
        /\ Bound(f) = Lives(f) + Source(f)
        /\ Source(f) <= Reach(f) /\ Bound(f) <= Reach(f)
        /\ Reach(f) \in Nat
<1> SUFFICES ASSUME NEW f \in Functions
             PROVE  /\ Source(f) \in Nat
                    /\ Bound(f) = Lives(f) + Source(f)
                    /\ Source(f) <= Reach(f) /\ Bound(f) <= Reach(f)
                    /\ Reach(f) \in Nat
  OBVIOUS
<1> USE LivesNat, LargerBounds, OfNat
<1>1. Lives(f) \in Nat
  BY DEF Keys
<1>2. /\ Source(f) \in Nat
      /\ Bound(f) = Lives(f) + Source(f)
  <2>1. CASE f = "inSol"
    BY <2>1, <1>1 DEF Source, Bound, OfSol, Keys, Functions
  <2>2. CASE f = "solUsd"
    BY <2>2, <1>1 DEF Source, Bound, OfSolUsd, Keys, Functions
  <2>3. CASE f = "full"
    BY <2>3, <1>1 DEF Source, Bound, OfFull, Keys, Functions
  <2>4. CASE f = "unified"
    BY <2>4, <1>1 DEF Source, Bound, OfUnified, Keys, Functions
  <2>5. CASE f = "cap"
    BY <2>5, <1>1 DEF Source, Bound, OfCap, Keys, Functions
  <2>6. CASE f \notin {"inSol", "solUsd", "full", "unified", "cap"}
    BY <2>6, <1>1 DEF Source, Bound
  <2>7. QED
    BY <2>1, <2>2, <2>3, <2>4, <2>5, <2>6
<1>3. Bound(f) \in Nat /\ Source(f) <= Bound(f)
  <2> HIDE LivesNat, LargerBounds, OfNat
  <2> QED
    BY <1>1, <1>2
<1>4. Bound(f) <= Reach(f) /\ Reach(f) \in Nat
  <2>1. CASE f = "oracle"
    BY <2>1 DEF Reach, Bound, Keys, Functions
  <2>2. CASE f # "oracle"
    <3>1. Reach(f) = Bound(f)
      BY <2>2 DEF Reach
    <3>2. QED
      BY <3>1, <1>3
  <2>3. QED
    BY <2>1, <2>2
<1> HIDE LivesNat, LargerBounds, OfNat
<1>5. Source(f) <= Reach(f)
  BY <1>2, <1>3, <1>4
<1>6. QED
  BY <1>2, <1>4, <1>5

\* What a function is given is no older than what it may store.
LEMMA SourcesFit ==
    /\ Reach("poolsSol") <= Source("inSol")
    /\ Reach("poolsUsdc") <= Source("solUsd")
    /\ Reach("poolsUsdt") <= Source("solUsd")
    /\ Reach("inSol") <= Source("full")
    /\ Reach("solUsd") <= Source("full")
    /\ Reach("full") <= Source("unified")
    /\ Reach("onchain") <= Source("unified")
    /\ OfRate <= Source("unified")
    /\ Reach("unified") <= Source("cap")
    /\ Reach("supply") <= Source("cap")
    /\ Reach("oracle") <= OfRate
    /\ Reach("solUsd") <= OfRate
    /\ Lives("fallback") <= Reach("oracle")
    /\ Bound("fallback") = Lives("fallback") + Source("oracle")
<1> USE LivesNat, LargerBounds, OfNat
<1>1. /\ Reach("poolsSol") <= Source("inSol")
      /\ Reach("poolsUsdc") <= Source("solUsd")
      /\ Reach("poolsUsdt") <= Source("solUsd")
  BY DEF Reach, Bound, Source, Keys, Functions
<1>2. /\ Reach("inSol") <= Source("full")
      /\ Reach("solUsd") <= Source("full")
  BY DEF Reach, Bound, Source
<1>3. /\ Reach("full") <= Source("unified")
      /\ Reach("onchain") <= Source("unified")
      /\ OfRate <= Source("unified")
  <2> DEFINE R == Larger(OfRate, Lives("onchain"))
  <2>1. R \in Nat /\ OfRate <= R /\ Lives("onchain") <= R
    BY DEF Keys, Functions
  <2>2. OfFull <= Larger(OfFull, R) /\ R <= Larger(OfFull, R) /\ Larger(OfFull, R) \in Nat
    BY <2>1
  <2>3. /\ Source("unified") = Larger(OfFull, R)
        /\ Reach("full") = OfFull /\ Reach("onchain") = Lives("onchain")
    BY DEF Source, Reach, Bound
  <2>4. Lives("onchain") \in Nat
    BY DEF Keys, Functions
  <2> HIDE DEF R
  <2>5. Reach("full") <= Source("unified")
    BY <2>2, <2>3
  <2>6. OfRate \in Nat
    OBVIOUS
  <2> HIDE LivesNat, LargerBounds, OfNat
  <2>7. R <= Source("unified") /\ Source("unified") \in Nat
    BY <2>2, <2>3
  <2>8. OfRate <= Source("unified")
    BY <2>1, <2>6, <2>7
  <2>9. Reach("onchain") <= Source("unified")
    BY <2>1, <2>3, <2>4, <2>7
  <2>10. QED
    BY <2>5, <2>8, <2>9
<1>4. Reach("unified") <= Source("cap") /\ Reach("supply") <= Source("cap")
  BY DEF Reach, Bound, Source, Keys, Functions
<1>5. /\ Reach("oracle") <= OfRate
      /\ Reach("solUsd") <= OfRate
      /\ Lives("fallback") <= Reach("oracle")
  <2> DEFINE R == Larger(Lives("oracle"), Lives("fallback"))
  <2>1. R \in Nat /\ Lives("fallback") <= R
    BY DEF Keys, Functions
  <2>2. R <= Larger(R, OfSolUsd) /\ OfSolUsd <= Larger(R, OfSolUsd)
    BY <2>1
  <2>3. /\ Reach("oracle") = R /\ Reach("solUsd") = OfSolUsd
        /\ OfRate = Larger(R, OfSolUsd)
    BY DEF Reach, Bound, OfRate
  <2> HIDE DEF R
  <2>4. QED
    BY <2>1, <2>2, <2>3
<1>6. Bound("fallback") = Lives("fallback") + Source("oracle")
  <2>1. Lives("fallback") \in Nat
    BY DEF Keys
  <2>2. Bound("fallback") = Lives("fallback") /\ Source("oracle") = 0
    BY DEF Bound, Source
  <2>3. QED
    BY <2>1, <2>2
<1>7. QED
  BY <1>1, <1>2, <1>3, <1>4, <1>5, <1>6

-----------------------------------------------------------------------------
LEMMA InitIInv == Init => IInv
<1> SUFFICES ASSUME Init PROVE IInv
  OBVIOUS
<1>1. Typed
  BY PriceAssumption DEF Init, Typed, Idle, Stages
<1>2. Clock
  <2>1. now = 0 /\ \A c \in Callers : started[c] = 0
    BY DEF Init
  <2>2. MaxLatency \in Nat
    BY PriceAssumption
  <2>3. ASSUME NEW c \in Callers
        PROVE  started[c] <= now /\ now <= started[c] + MaxLatency
    BY <2>1, <2>2
  <2>4. QED
    BY <2>3 DEF Clock
<1>3. Holdings
  BY DEF Init, Holdings, Held, Idle, Storing
<1>4. Rates
  BY DEF Init, Rates, Rated, Idle, Functions
<1>5. Cached
  BY DEF Init, Cached
<1>6. QED
  BY <1>1, <1>2, <1>3, <1>4, <1>5 DEF IInv

(***************************************************************************)
(* A step of one call: what it holds fits the bounds, what the others hold *)
(* is as it was or begins anew.                                            *)
(***************************************************************************)
LEMMA MoveKeeps ==
    ASSUME Typed, Clock, Holdings, Rates,
           NEW c \in Callers, NEW f \in Functions,
           NEW stage \in Stages, NEW born \in 0..MaxTime, NEW asked,
           Move(c, f, stage, born, asked),
           frame[c][f].stage \in Pending,
           UNCHANGED <<roster, now, started>>,
           rate' \in [Callers -> 0..MaxTime],
           \A d \in Callers : d # c \/ f # "unified" => rate'[d] = rate[d],
           Held(c, f, stage, born),
           f = "unified" /\ stage \in Rated => started[c] <= rate'[c] + OfRate
    PROVE  Typed' /\ Clock' /\ Holdings' /\ Rates'
<1> DEFINE new(g) ==
      IF g = f THEN [stage |-> stage, born |-> born]
      ELSE IF g \in asked THEN Called
      ELSE IF g \in Uses(f) /\ stage \notin Waiting /\ Over(c, g) THEN Idle
      ELSE frame[c][g]
<1>0. frame' = [frame EXCEPT ![c] = [g \in Functions |-> new(g)]]
  BY DEF Move
<1>1. \A g \in Functions : new(g) \in [stage : Stages, born : 0..MaxTime]
  BY PriceAssumption DEF Typed, Called, Idle, Stages, Pending
<1>2. /\ \A g \in Functions : frame'[c][g] = new(g)
      /\ \A d \in Callers \ {c} : frame'[d] = frame[d]
      /\ frame' \in [Callers -> [Functions -> [stage : Stages, born : 0..MaxTime]]]
  BY <1>0, <1>1, Zenon DEF Typed
<1>3. \A g \in Functions \ {f} :
         new(g) = Called \/ new(g) = Idle \/ new(g) = frame[c][g]
  OBVIOUS
<1>4. new(f) = [stage |-> stage, born |-> born]
  OBVIOUS
<1> HIDE DEF new
<1>5. Typed'
  BY <1>2 DEF Typed
<1>6. Clock'
  <2> SUFFICES ASSUME NEW d \in Callers
               PROVE  started'[d] <= now' /\ (Running(d)' => now' <= started'[d] + MaxLatency)
    BY DEF Clock
  <2>1. Running(d)' => Running(d)
    <3>1. CASE d = c
      BY <3>1 DEF Running
    <3>2. CASE d # c
      BY <3>2, <1>2 DEF Running
    <3>3. QED
      BY <3>1, <3>2
  <2>2. QED
    BY <2>1 DEF Clock
<1>7. Holdings'
  <2> SUFFICES ASSUME NEW d \in Callers, NEW g \in Functions
               PROVE  Held(d, g, frame[d][g].stage, frame[d][g].born)'
    BY DEF Holdings
  <2>1. CASE d # c
    BY <2>1, <1>2 DEF Holdings, Held
  <2>2. CASE d = c /\ g = f
    BY <2>2, <1>2, <1>4 DEF Held
  <2>3. CASE d = c /\ g # f
    <3>1. frame'[c][g] \in {Called, Idle, frame[c][g]}
      BY <2>3, <1>2, <1>3
    <3>2. CASE frame'[c][g] \in {Called, Idle}
      <4>1. frame'[c][g].stage \in {"called", "idle"}
        BY <3>2 DEF Called, Idle
      <4>2. QED
        BY <4>1, <2>3 DEF Held, Storing
    <3>3. CASE frame'[c][g] = frame[c][g]
      BY <3>3, <2>3 DEF Holdings, Held
    <3>4. QED
      BY <3>1, <3>2, <3>3
  <2>4. QED
    BY <2>1, <2>2, <2>3
<1>8. Rates'
  <2> SUFFICES ASSUME NEW d \in Callers
               PROVE  (frame[d]["unified"].stage \in Rated => started[d] <= rate[d] + OfRate)'
    BY DEF Rates
  <2>0. "unified" \in Functions
    BY DEF Functions
  <2>1. CASE d # c
    BY <2>1, <1>2 DEF Rates
  <2>2. CASE d = c /\ f = "unified"
    BY <2>2, <2>0, <1>2, <1>4
  <2>3. CASE d = c /\ f # "unified"
    BY <2>3, <2>0, <1>2, <1>3 DEF Rates, Called, Idle, Rated
  <2>4. QED
    BY <2>1, <2>2, <2>3
<1>9. QED
  BY <1>5, <1>6, <1>7, <1>8

LEMMA BoundNat == \A k \in Keys : Bound(k) \in Nat
<1> SUFFICES ASSUME NEW k \in Keys PROVE Bound(k) \in Nat
  OBVIOUS
<1>1. CASE k = "fallback"
  BY <1>1, LivesNat DEF Bound
<1>2. CASE k \in Functions
  <2>1. Lives(k) \in Nat
    BY LivesNat
  <2>2. Bound(k) = Lives(k) + Source(k) /\ Source(k) \in Nat
    BY <1>2, BoundIsSource
  <2>3. QED
    BY <2>1, <2>2
<1>3. QED
  BY <1>1, <1>2 DEF Keys

\* A key that is written, or not, within its bound.
LEMMA EntryKeeps ==
    ASSUME Typed, Cached, now' = now,
           NEW k \in Keys, NEW born \in 0..MaxTime,
           now + Ttl[k] <= born + Bound(k),
           cache' \in {cache, Entry(k, born)}
    PROVE  Cached'
<1>1. CASE cache' = cache
  BY <1>1 DEF Cached, Sound
<1>2. CASE cache' = Entry(k, born)
  <2> DEFINE entry == [born |-> born, expires |-> now + Ttl[k]]
  <2>1. now \in Nat /\ Ttl[k] \in Nat
    BY PriceAssumption DEF Typed
  <2>2. /\ entry.born = born /\ entry.expires = now + Ttl[k]
        /\ entry \in Entries
    BY <2>1 DEF Entries
  <2>3. /\ cache'[k] = None \/ (Ttl[k] # 0 /\ cache'[k] = entry)
        /\ \A j \in Keys \ {k} : cache'[j] = cache[j]
        /\ cache' \in [Keys -> Entries \cup {None}]
    BY <1>2, <2>2 DEF Entry, Cached
  <2>4. Ttl[k] # 0 => Sound(k, entry)
    BY <2>1, <2>2 DEF Sound
  <2> HIDE DEF entry
  <2>5. ASSUME NEW j \in Keys, cache'[j] # None
        PROVE  Sound(j, cache'[j])
    BY <2>3, <2>4, <2>5 DEF Cached
  <2>6. QED
    BY <2>3, <2>5 DEF Cached, Sound
<1>3. QED
  BY <1>1, <1>2

\* One time to live more is within the bound, as the call has not lasted
\* longer than its latency.
LEMMA StoreFits ==
    ASSUME Typed, Clock, Holdings,
           NEW c \in Callers, NEW f \in Functions, NEW k \in Keys,
           frame[c][f].stage \in Storing,
           Bound(k) = Lives(k) + Source(f)
    PROVE  now + Ttl[k] <= frame[c][f].born + Bound(k)
<1>1. started[c] <= frame[c][f].born + Source(f)
  BY DEF Holdings, Held
<1>2. now <= started[c] + MaxLatency
  BY DEF Clock, Running, Pending
<1>3. /\ now \in Nat /\ started[c] \in Nat /\ MaxLatency \in Nat
      /\ Ttl[k] \in Nat /\ Source(f) \in Nat
      /\ frame[c][f] \in [stage : Stages, born : 0..MaxTime]
  BY PriceAssumption, BoundIsSource DEF Typed
<1>4. frame[c][f].born \in Nat
  BY <1>3, PriceAssumption
<1>5. Bound(k) = Ttl[k] + MaxLatency + Source(f)
  BY DEF Lives
<1>6. QED
  BY <1>1, <1>2, <1>3, <1>4, <1>5

(***************************************************************************)
(* The steps of a call that leave the rate alone, the cache within its     *)
(* bounds and the clock where it is.                                       *)
(***************************************************************************)
LEMMA StepKeeps ==
    ASSUME IInv, NEW c \in Callers, NEW f \in Functions,
           NEW stage \in Stages, NEW born \in 0..MaxTime, NEW asked,
           Move(c, f, stage, born, asked),
           frame[c][f].stage \in Pending,
           UNCHANGED <<book, rate>>, cache' = cache \/ Cached',
           Held(c, f, stage, born),
           f = "unified" /\ stage \in Rated => started[c] <= rate[c] + OfRate
    PROVE  IInv'
<1>1. Typed' /\ Clock' /\ Holdings' /\ Rates'
  <2>1. UNCHANGED <<roster, now, started>> /\ rate' = rate
    BY DEF book
  <2>2. rate' \in [Callers -> 0..MaxTime]
    BY <2>1 DEF IInv, Typed
  <2>3. QED
    BY <2>1, <2>2, MoveKeeps DEF IInv
<1>2. Cached'
  BY DEF IInv, Cached, Sound, book
<1>3. QED
  BY <1>1, <1>2 DEF IInv

\* It waits, or ends without a value.
LEMMA AskKeeps ==
    ASSUME IInv, NEW c \in Callers, NEW f \in Functions, NEW asked,
           NEW stage \in Waiting \cup {"null", "threw"},
           Ask(c, f, stage, asked),
           frame[c][f].stage \in Pending,
           UNCHANGED <<book, rate>>, cache' = cache \/ Cached',
           f = "unified" /\ stage \in Rated => started[c] <= rate[c] + OfRate
    PROVE  IInv'
<1>1. stage \in Stages /\ stage # "value" /\ stage \notin Storing
  BY DEF Stages, Pending, Waiting, Later, Ended, Storing
<1>2. 0 \in 0..MaxTime
  BY PriceAssumption
<1>3. Held(c, f, stage, 0)
  BY <1>1 DEF Held
<1>4. QED
  BY <1>1, <1>2, <1>3, StepKeeps DEF Ask

\* It has something to store.
LEMMA KeepKeeps ==
    ASSUME IInv, NEW c \in Callers, NEW f \in Functions,
           NEW stage \in {"store", "storeChain"}, NEW born \in 0..MaxTime,
           Move(c, f, stage, born, {}),
           frame[c][f].stage \in Pending,
           UNCHANGED <<book, cache, rate>>,
           started[c] <= born + Source(f),
           f = "unified" /\ stage \in Rated => started[c] <= rate[c] + OfRate
    PROVE  IInv'
<1>1. stage \in Stages /\ stage # "value"
  BY DEF Stages, Pending, Storing
<1>2. Held(c, f, stage, born)
  BY <1>1 DEF Held
<1>3. QED
  BY <1>1, <1>2, StepKeeps

\* What a function is given, and what it is when two answers come together.
LEMMA Given ==
    ASSUME IInv, NEW c \in Callers, NEW f \in Functions, NEW g \in Functions,
           At(c, g, "value"), Reach(g) <= Source(f)
    PROVE  /\ frame[c][g].born \in 0..MaxTime
           /\ started[c] <= frame[c][g].born + Source(f)
<1>1. started[c] <= frame[c][g].born + Reach(g)
  BY DEF IInv, Holdings, Held, At
<1>2. /\ frame[c][g] \in [stage : Stages, born : 0..MaxTime]
      /\ started[c] \in 0..MaxTime
  BY DEF IInv, Typed
<1>3. Reach(g) \in Nat /\ Source(f) \in Nat
  BY BoundIsSource
<1>4. frame[c][g].born \in 0..MaxTime
  BY <1>2
<1>5. QED
  BY <1>1, <1>2, <1>3, <1>4, PriceAssumption

LEMMA OldestGiven ==
    ASSUME NEW a \in 0..MaxTime, NEW b \in 0..MaxTime, NEW t, NEW n,
           t <= a + n, t <= b + n
    PROVE  Oldest(a, b) \in 0..MaxTime /\ t <= Oldest(a, b) + n
  BY DEF Oldest

-----------------------------------------------------------------------------
(***************************************************************************)
(* cache.get and cache.set.                                                *)
(***************************************************************************)
\* A call begins: whatever is left of the caller's last one is over.
LEMMA CallKeeps ==
    ASSUME IInv, NEW c \in Callers, NEW f \in Functions, Call(c, f)
    PROVE  IInv'
<1>1. /\ started' = [started EXCEPT ![c] = now]
      /\ rate' = [rate EXCEPT ![c] = 0]
      /\ UNCHANGED <<roster, now, cache>>
      /\ frame' = [frame EXCEPT ![c] =
                      [g \in Functions |-> IF g = f THEN Called ELSE Idle]]
  BY DEF Call
<1>2. /\ now \in 0..MaxTime /\ 0 \in 0..MaxTime /\ now <= now + MaxLatency
  BY PriceAssumption DEF IInv, Typed
<1>3. Called \in [stage : Stages, born : 0..MaxTime] /\ Idle \in [stage : Stages, born : 0..MaxTime]
  BY <1>2 DEF Called, Idle, Stages, Pending
<1>4. Typed'
  BY <1>1, <1>2, <1>3 DEF IInv, Typed
<1>5. /\ \A g \in Functions : frame'[c][g] \in {Called, Idle}
      /\ \A d \in Callers \ {c} : frame'[d] = frame[d]
      /\ started'[c] = now /\ \A d \in Callers \ {c} : started'[d] = started[d]
      /\ \A d \in Callers \ {c} : rate'[d] = rate[d]
  BY <1>1 DEF IInv, Typed
<1>6. \A g \in Functions : frame'[c][g].stage \in {"called", "idle"}
  BY <1>5 DEF Called, Idle
<1>7. Clock'
  <2> SUFFICES ASSUME NEW d \in Callers
               PROVE  started'[d] <= now' /\ (Running(d)' => now' <= started'[d] + MaxLatency)
    BY DEF Clock
  <2>1. CASE d = c
    BY <2>1, <1>1, <1>2, <1>5
  <2>2. CASE d # c
    <3>1. Running(d)' => Running(d)
      BY <2>2, <1>5 DEF Running
    <3>2. QED
      BY <2>2, <3>1, <1>1, <1>5 DEF IInv, Clock
  <2>3. QED
    BY <2>1, <2>2
<1>8. Holdings'
  <2> SUFFICES ASSUME NEW d \in Callers, NEW g \in Functions
               PROVE  Held(d, g, frame[d][g].stage, frame[d][g].born)'
    BY DEF Holdings
  <2>1. CASE d = c
    BY <2>1, <1>6 DEF Held, Storing
  <2>2. CASE d # c
    BY <2>2, <1>5 DEF IInv, Holdings, Held
  <2>3. QED
    BY <2>1, <2>2
<1>9. Rates'
  <2> SUFFICES ASSUME NEW d \in Callers
               PROVE  (frame[d]["unified"].stage \in Rated => started[d] <= rate[d] + OfRate)'
    BY DEF Rates
  <2>1. CASE d = c
    BY <2>1, <1>6 DEF Rated, Functions
  <2>2. CASE d # c
    BY <2>2, <1>5 DEF IInv, Rates
  <2>3. QED
    BY <2>1, <2>2
<1>10. Cached'
  BY <1>1 DEF IInv, Cached, Sound
<1>11. QED
  BY <1>4, <1>7, <1>8, <1>9, <1>10 DEF IInv

\* No roster goes beyond the bounds.
LEMMA RosterBounds ==
    ASSUME NEW r \in Rosters
    PROVE  /\ r.time \in 0..MaxTime
           /\ r.calls \in 0..MaxCalls
           /\ r.faults \in 0..MaxFaults
BY PriceAssumption

\* The clock waits for whoever is at the end of his latency, and takes the
\* keys that are over with it.
LEMMA TickKeeps ==
    ASSUME IInv, Tick
    PROVE  IInv'
<1>1. /\ now < roster.time /\ now' = now + 1
      /\ \A c \in Callers : Running(c) => now < started[c] + MaxLatency
      /\ UNCHANGED <<roster, frame, rate, started>>
      /\ cache' = [k \in Keys |->
                      IF cache[k] # None /\ cache[k].expires <= now' THEN None ELSE cache[k]]
  BY DEF Tick
<1>2. now \in Nat /\ now' \in 0..MaxTime /\ MaxLatency \in Nat
  <2>1. roster \in Rosters /\ now \in 0..MaxTime
    BY DEF IInv, Typed
  <2>2. roster.time \in 0..MaxTime
    BY <2>1, RosterBounds
  <2>3. QED
    BY <1>1, <2>1, <2>2, PriceAssumption
<1>3. Typed'
  BY <1>1, <1>2 DEF IInv, Typed
<1>4. Clock'
  <2> SUFFICES ASSUME NEW c \in Callers
               PROVE  started'[c] <= now' /\ (Running(c)' => now' <= started'[c] + MaxLatency)
    BY DEF Clock
  <2>1. started[c] \in Nat /\ started[c] <= now
    BY PriceAssumption DEF IInv, Typed, Clock
  <2>2. started'[c] = started[c] /\ (Running(c)' => Running(c))
    BY <1>1 DEF Running
  <2>3. Running(c) => now < started[c] + MaxLatency
    BY <1>1
  <2>4. QED
    BY <1>1, <1>2, <2>1, <2>2, <2>3
<1>5. Holdings'
  BY <1>1 DEF IInv, Holdings, Held
<1>6. Rates'
  BY <1>1 DEF IInv, Rates
<1>7. Cached'
  <2>1. cache' \in [Keys -> Entries \cup {None}]
    BY <1>1 DEF IInv, Cached
  <2>2. ASSUME NEW k \in Keys, cache'[k] # None
        PROVE  Sound(k, cache[k])' /\ cache'[k] = cache[k]
    <3>1. cache'[k] = cache[k] /\ ~(cache[k].expires <= now')
      BY <1>1, <2>2
    <3>2. Sound(k, cache[k])
      BY <3>1, <2>2 DEF IInv, Cached
    <3>3. cache[k].expires \in Nat
      BY <3>2 DEF Sound, Entries
    <3>4. now' < cache[k].expires
      BY <3>1, <3>3, <1>2, PriceAssumption
    <3>5. QED
      BY <3>1, <3>2, <3>4 DEF Sound
  <2>3. QED
    BY <2>1, <2>2 DEF Cached
<1>8. QED
  BY <1>3, <1>4, <1>5, <1>6, <1>7 DEF IInv

\* What is in the cache is no older than its bound allows when it expires.
LEMMA ReadFits ==
    ASSUME IInv, NEW c \in Callers, NEW f \in Functions, NEW k \in Keys,
           Live(k), Bound(k) <= Reach(f)
    PROVE  cache[k].born \in 0..MaxTime /\ started[c] <= cache[k].born + Reach(f)
<1>1. Sound(k, cache[k])
  BY DEF IInv, Cached, Live
<1>2. /\ cache[k].born \in 0..MaxTime /\ cache[k].expires \in Nat
      /\ now < cache[k].expires
      /\ cache[k].expires <= cache[k].born + Bound(k)
  BY <1>1 DEF Sound, Entries
<1>3. started[c] <= now /\ started[c] \in Nat /\ now \in Nat
  BY PriceAssumption DEF IInv, Clock, Typed
<1>4. Bound(k) \in Nat /\ Reach(f) \in Nat
  BY BoundNat, BoundIsSource
<1>5. QED
  BY <1>2, <1>3, <1>4, PriceAssumption

LEMMA HitKeeps ==
    ASSUME IInv, NEW c \in Callers, NEW f \in Functions, Hit(c, f)
    PROVE  IInv'
<1>1. /\ frame[c][f].stage \in Pending /\ Live(f)
      /\ Move(c, f, "value", cache[f].born, {})
      /\ UNCHANGED <<book, cache, rate>>
  BY DEF Hit, At, Pending
<1>2. f \in Keys /\ Bound(f) <= Reach(f)
  BY BoundIsSource DEF Keys
<1>3. /\ cache[f].born \in 0..MaxTime
      /\ started[c] <= cache[f].born + Reach(f)
  BY <1>1, <1>2, ReadFits
<1>4. Held(c, f, "value", cache[f].born)
  BY <1>3 DEF Held, Storing
<1>5. "value" \in Stages /\ "value" \notin Rated
  BY DEF Stages, Ended, Rated
<1>6. QED
  BY <1>1, <1>3, <1>4, <1>5, StepKeeps

LEMMA MissKeeps ==
    ASSUME IInv, NEW c \in Callers, NEW f \in Functions, Miss(c, f)
    PROVE  IInv'
<1>1. /\ frame[c][f].stage \in Pending
      /\ Ask(c, f, "work", First(f))
      /\ UNCHANGED <<book, cache, rate>>
  BY DEF Miss, At, Pending
<1>2. "work" \in Waiting /\ "work" \notin Rated
  BY DEF Waiting, Rated
<1>3. QED
  BY <1>1, <1>2, AskKeeps

LEMMA LookFailsKeeps ==
    ASSUME IInv, NEW c \in Callers, NEW f \in Functions, LookFails(c, f)
    PROVE  IInv'
<1>1. /\ frame[c][f].stage \in Pending
      /\ UNCHANGED <<book, cache, rate>>
      /\ Ask(c, f, "null", {}) \/ Ask(c, f, "threw", {})
  BY DEF LookFails, At, Pending, Goto, Ask
<1>2. "null" \notin Rated /\ "threw" \notin Rated
  BY DEF Rated
<1>3. QED
  BY <1>1, <1>2, AskKeeps

\* A call that stores: what it holds, and the key it may write.
LEMMA Holds ==
    ASSUME IInv, NEW c \in Callers, NEW f \in Functions,
           frame[c][f].stage \in Storing
    PROVE  /\ frame[c][f].stage \in Pending
           /\ frame[c][f].born \in 0..MaxTime
           /\ started[c] <= frame[c][f].born + Source(f)
           /\ started[c] <= frame[c][f].born + Reach(f)
<1>1. frame[c][f].stage \in Pending
  BY DEF Pending
<1>2. /\ frame[c][f] \in [stage : Stages, born : 0..MaxTime]
      /\ started[c] \in Nat
  BY PriceAssumption DEF IInv, Typed
<1>3. frame[c][f].born \in 0..MaxTime
  BY <1>2
<1>4. started[c] <= frame[c][f].born + Source(f)
  BY DEF IInv, Holdings, Held
<1>5. Source(f) \in Nat /\ Reach(f) \in Nat /\ Source(f) <= Reach(f)
  BY BoundIsSource
<1>6. started[c] <= frame[c][f].born + Reach(f)
  BY <1>2, <1>3, <1>4, <1>5, PriceAssumption
<1>7. QED
  BY <1>1, <1>3, <1>4, <1>6

LEMMA WriteKeeps ==
    ASSUME IInv, NEW c \in Callers, NEW f \in Functions, NEW k \in Keys,
           frame[c][f].stage \in Storing, Bound(k) = Lives(k) + Source(f),
           cache' \in {cache, Entry(k, frame[c][f].born)}, UNCHANGED book
    PROVE  Cached'
<1>1. now + Ttl[k] <= frame[c][f].born + Bound(k)
  BY StoreFits DEF IInv
<1>2. frame[c][f].born \in 0..MaxTime /\ now' = now
  BY Holds DEF book
<1>3. QED
  BY <1>1, <1>2, EntryKeeps DEF IInv

LEMMA StoredKeeps ==
    ASSUME IInv, NEW c \in Callers, NEW f \in Functions, Stored(c, f)
    PROVE  IInv'
<1> DEFINE next == IF f = "oracle" THEN "storeFallback" ELSE "value"
<1>1. /\ frame[c][f].stage \in Storing
      /\ cache' = Entry(f, frame[c][f].born)
      /\ Move(c, f, next, frame[c][f].born, {})
      /\ UNCHANGED <<book, rate>>
  BY DEF Stored, At, Storing
<1>2. Cached'
  BY <1>1, WriteKeeps, BoundIsSource DEF Keys
<1>3. next \in Stages /\ next \notin Rated
  BY DEF Stages, Pending, Storing, Ended, Rated
<1>4. Held(c, f, next, frame[c][f].born)
  BY <1>1, Holds DEF Held
<1> HIDE DEF next
<1>5. QED
  BY <1>1, <1>2, <1>3, <1>4, Holds, StepKeeps

\* PriceService turns from Shyft to the chain with the rate it holds.
LEMMA StoreFailsKeeps ==
    ASSUME IInv, NEW c \in Callers, NEW f \in Functions, StoreFails(c, f)
    PROVE  IInv'
<1>1. /\ frame[c][f].stage \in Storing /\ frame[c][f].stage \in Pending
      /\ cache' \in {cache, Entry(f, frame[c][f].born)}
      /\ AfterStoreFails(c, f)
      /\ UNCHANGED <<book, rate>>
  BY DEF StoreFails, At, Storing, Pending
<1>2. Cached'
  BY <1>1, WriteKeeps, BoundIsSource DEF Keys
<1>3. \/ Ask(c, f, "threw", {})
      \/ f = "oracle" /\ Ask(c, f, "fallback", {})
      \/ f = "unified" /\ At(c, f, "store") /\ Ask(c, f, "find", {})
      \/ Ask(c, f, "null", {})
  <2>1. \/ Goto(c, f, "threw")
        \/ f = "oracle" /\ Goto(c, f, "fallback")
        \/ f = "unified" /\ At(c, f, "store") /\ Goto(c, f, "find")
        \/ Goto(c, f, "null")
    BY <1>1, Zenon DEF AfterStoreFails
  <2>2. QED
    BY <2>1 DEF Goto, Ask
<1>4. f = "unified" /\ At(c, f, "store") => started[c] <= rate[c] + OfRate
  BY DEF IInv, Rates, Rated, At
<1>5. /\ "threw" \notin Rated /\ "null" \notin Rated
      /\ "fallback" \in Waiting /\ "find" \in Waiting
  BY DEF Rated, Waiting, Later
<1>6. CASE Ask(c, f, "threw", {}) \/ Ask(c, f, "null", {})
  BY <1>1, <1>2, <1>5, <1>6, AskKeeps
<1>7. CASE f = "oracle" /\ Ask(c, f, "fallback", {})
  BY <1>1, <1>2, <1>5, <1>7, AskKeeps
<1>8. CASE f = "unified" /\ At(c, f, "store") /\ Ask(c, f, "find", {})
  BY <1>1, <1>2, <1>4, <1>5, <1>8, AskKeeps
<1>9. QED
  BY <1>3, <1>6, <1>7, <1>8

-----------------------------------------------------------------------------
(***************************************************************************)
(* The remote services.                                                    *)
(***************************************************************************)
\* What is fetched now is not older than the call.
LEMMA FetchedKeeps ==
    ASSUME IInv, NEW c \in Callers, NEW f \in Functions \ {"unified"},
           frame[c][f].stage = "work", Keep(c, f, now),
           UNCHANGED <<book, cache, rate>>
    PROVE  IInv'
<1>1. now \in 0..MaxTime /\ started[c] <= now /\ started[c] \in Nat
  BY PriceAssumption DEF IInv, Typed, Clock
<1>2. Source(f) \in Nat
  BY BoundIsSource
<1>3. started[c] <= now + Source(f)
  BY <1>1, <1>2, PriceAssumption
<1>4. Move(c, f, "store", now, {}) /\ frame[c][f].stage \in Pending
  BY DEF Keep, Pending, Waiting
<1>5. QED
  BY <1>1, <1>3, <1>4, KeepKeeps

\* A function that waits gives up or asks for something else.
LEMMA TurnKeeps ==
    ASSUME IInv, NEW c \in Callers, NEW f \in Functions \ {"unified"}, NEW asked,
           NEW stage \in Waiting \cup {"null", "threw"},
           frame[c][f].stage \in Waiting, Ask(c, f, stage, asked),
           UNCHANGED <<book, cache, rate>>
    PROVE  IInv'
  BY AskKeeps DEF Pending

LEMMA FetchKeeps ==
    ASSUME IInv, NEW c \in Callers,
           \/ \E f \in Pools : FetchPools(c, f)
           \/ FetchPyth(c) \/ FetchPoolInfo(c) \/ FetchSupply(c)
    PROVE  IInv'
<1>1. ASSUME NEW f \in Functions \ {"unified"}, At(c, f, "work"),
             NEW stage \in {"null", "threw", "fallback"},
             Keep(c, f, now) \/ Goto(c, f, stage),
             UNCHANGED <<book, cache, rate>>
      PROVE  IInv'
  <2>1. CASE Keep(c, f, now)
    BY <1>1, <2>1, FetchedKeeps DEF At
  <2>2. CASE Goto(c, f, stage)
    <3>1. /\ Ask(c, f, stage, {}) /\ frame[c][f].stage \in Waiting
          /\ stage \in Waiting \cup {"null", "threw"}
      BY <1>1, <2>2 DEF Goto, Ask, At, Waiting, Later
    <3>2. QED
      BY <1>1, <3>1, TurnKeeps
  <2>3. QED
    BY <1>1, <2>1, <2>2
<1>2. ASSUME NEW f \in Pools, FetchPools(c, f)
      PROVE  IInv'
  <2>1. f \in Functions \ {"unified"}
    BY DEF Pools, Functions
  <2>2. /\ At(c, f, "work") /\ UNCHANGED <<book, cache, rate>>
        /\ Keep(c, f, now) \/ Goto(c, f, "null") \/ Goto(c, f, "threw")
    BY <1>2 DEF FetchPools
  <2>3. QED
    BY <2>1, <2>2, <1>1
<1>3. CASE FetchPyth(c)
  BY <1>3, <1>1 DEF FetchPyth, Functions
<1>4. CASE FetchPoolInfo(c)
  BY <1>4, <1>1 DEF FetchPoolInfo, Functions
<1>5. CASE FetchSupply(c)
  BY <1>5, <1>1 DEF FetchSupply, Functions
<1>6. QED
  BY <1>2, <1>3, <1>4, <1>5

\* The second key of the oracle, written and read.
LEMMA StoreFallbackKeeps ==
    ASSUME IInv, NEW c \in Callers, StoreFallback(c)
    PROVE  IInv'
<1> DEFINE held == frame[c]["oracle"].born
<1>1. /\ frame[c]["oracle"].stage \in Storing
      /\ cache' \in {cache, Entry("fallback", held)}
      /\ Move(c, "oracle", "value", held, {}) \/ Goto(c, "oracle", "fallback")
      /\ UNCHANGED <<book, rate>>
  BY DEF StoreFallback, At, Storing
<1>2. "oracle" \in Functions /\ "fallback" \in Keys
  BY DEF Functions, Keys
<1>3. Cached'
  BY <1>1, <1>2, WriteKeeps, SourcesFit
<1>4. CASE Move(c, "oracle", "value", held, {})
  <2>1. Held(c, "oracle", "value", held) /\ "value" \in Stages
    BY <1>1, <1>2, Holds DEF Held, Storing, Stages, Ended
  <2>2. QED
    BY <1>1, <1>2, <1>3, <1>4, <2>1, Holds, StepKeeps
<1>5. CASE Goto(c, "oracle", "fallback")
  <2>1. Ask(c, "oracle", "fallback", {}) /\ "fallback" \in Waiting
    BY <1>5 DEF Goto, Ask, Waiting, Later
  <2>2. QED
    BY <1>1, <1>2, <1>3, <2>1, Holds, AskKeeps
<1>6. QED
  BY <1>1, <1>4, <1>5

LEMMA FallbackKeeps ==
    ASSUME IInv, NEW c \in Callers, Fallback(c)
    PROVE  IInv'
<1>1. /\ frame[c]["oracle"].stage \in Waiting /\ UNCHANGED <<book, cache, rate>>
      /\ \/ Live("fallback") /\ Move(c, "oracle", "value", cache["fallback"].born, {})
         \/ Goto(c, "oracle", "null") \/ Goto(c, "oracle", "threw")
  BY DEF Fallback, At, Waiting, Later
<1>2. "oracle" \in Functions \ {"unified"} /\ "fallback" \in Keys
  BY DEF Functions, Keys
<1>3. CASE Live("fallback") /\ Move(c, "oracle", "value", cache["fallback"].born, {})
  <2>1. Bound("fallback") <= Reach("oracle")
    <3>1. Bound("fallback") = Lives("fallback")
      BY DEF Bound
    <3>2. QED
      BY <3>1, SourcesFit
  <2>2. /\ cache["fallback"].born \in 0..MaxTime
        /\ started[c] <= cache["fallback"].born + Reach("oracle")
    BY <1>2, <1>3, <2>1, ReadFits
  <2>3. Held(c, "oracle", "value", cache["fallback"].born) /\ "value" \in Stages
    BY <2>2 DEF Held, Storing, Stages, Ended
  <2>4. QED
    BY <1>1, <1>2, <1>3, <2>2, <2>3, StepKeeps DEF Pending
<1>4. CASE Goto(c, "oracle", "null") \/ Goto(c, "oracle", "threw")
  <2>1. Ask(c, "oracle", "null", {}) \/ Ask(c, "oracle", "threw", {})
    BY <1>4 DEF Goto, Ask
  <2>2. QED
    BY <1>1, <1>2, <2>1, TurnKeeps
<1>5. QED
  BY <1>1, <1>3, <1>4

-----------------------------------------------------------------------------
(***************************************************************************)
(* Answers that are made of answers.                                       *)
(***************************************************************************)
\* f stores what g gave it.
LEMMA PassKeeps ==
    ASSUME IInv, NEW c \in Callers,
           NEW f \in Functions \ {"unified"}, NEW g \in Functions,
           frame[c][f].stage \in Waiting, At(c, g, "value"),
           Reach(g) <= Source(f), Keep(c, f, frame[c][g].born),
           UNCHANGED <<book, cache, rate>>
    PROVE  IInv'
<1>1. /\ frame[c][g].born \in 0..MaxTime
      /\ started[c] <= frame[c][g].born + Source(f)
  BY Given
<1>2. Move(c, f, "store", frame[c][g].born, {}) /\ frame[c][f].stage \in Pending
  BY DEF Keep, Pending
<1>3. QED
  BY <1>1, <1>2, KeepKeeps

\* f stores what g and h gave it, as old as the older of the two.
LEMMA CombineKeeps ==
    ASSUME IInv, NEW c \in Callers,
           NEW f \in Functions \ {"unified"}, NEW g \in Functions, NEW h \in Functions,
           frame[c][f].stage \in Waiting, At(c, g, "value"), At(c, h, "value"),
           Reach(g) <= Source(f), Reach(h) <= Source(f),
           Keep(c, f, Oldest(frame[c][g].born, frame[c][h].born)),
           UNCHANGED <<book, cache, rate>>
    PROVE  IInv'
<1> DEFINE born == Oldest(frame[c][g].born, frame[c][h].born)
<1>1. born \in 0..MaxTime /\ started[c] <= born + Source(f)
  BY Given, OldestGiven
<1>2. Move(c, f, "store", born, {}) /\ frame[c][f].stage \in Pending
  BY DEF Keep, Pending
<1> HIDE DEF born
<1>3. QED
  BY <1>1, <1>2, KeepKeeps

LEMMA PriceInSolKeeps ==
    ASSUME IInv, NEW c \in Callers, PriceInSol(c)
    PROVE  IInv'
<1>1. /\ frame[c]["inSol"].stage \in Waiting /\ UNCHANGED <<book, cache, rate>>
      /\ \/ At(c, "poolsSol", "value") /\ Keep(c, "inSol", frame[c]["poolsSol"].born)
         \/ Ask(c, "inSol", "null", {})
  BY DEF PriceInSol, At, Waiting, Goto, Ask
<1>2. "inSol" \in Functions \ {"unified"} /\ "poolsSol" \in Functions
  BY DEF Functions
<1>3. CASE At(c, "poolsSol", "value") /\ Keep(c, "inSol", frame[c]["poolsSol"].born)
  BY <1>1, <1>2, <1>3, SourcesFit, PassKeeps
<1>4. CASE Ask(c, "inSol", "null", {})
  BY <1>1, <1>2, <1>4, TurnKeeps
<1>5. QED
  BY <1>1, <1>3, <1>4

LEMMA SolUsdRateKeeps ==
    ASSUME IInv, NEW c \in Callers, SolUsdRate(c)
    PROVE  IInv'
<1>1. /\ frame[c]["solUsd"].stage \in Waiting /\ UNCHANGED <<book, cache, rate>>
      /\ \/ /\ At(c, "poolsUsdc", "value")
            /\ Keep(c, "solUsd", frame[c]["poolsUsdc"].born)
         \/ /\ At(c, "poolsUsdt", "value")
            /\ Keep(c, "solUsd", frame[c]["poolsUsdt"].born)
         \/ Ask(c, "solUsd", "usdt", {"poolsUsdt"})
         \/ Ask(c, "solUsd", "threw", {})
  BY DEF SolUsdRate, At, Waiting, Later, Goto, Ask
<1>2. /\ "solUsd" \in Functions \ {"unified"}
      /\ "poolsUsdc" \in Functions /\ "poolsUsdt" \in Functions
  BY DEF Functions
<1>3. CASE /\ At(c, "poolsUsdc", "value")
           /\ Keep(c, "solUsd", frame[c]["poolsUsdc"].born)
  BY <1>1, <1>2, <1>3, SourcesFit, PassKeeps
<1>4. CASE /\ At(c, "poolsUsdt", "value")
           /\ Keep(c, "solUsd", frame[c]["poolsUsdt"].born)
  BY <1>1, <1>2, <1>4, SourcesFit, PassKeeps
<1>5. CASE Ask(c, "solUsd", "usdt", {"poolsUsdt"})
  BY <1>1, <1>2, <1>5, TurnKeeps DEF Waiting, Later
<1>6. CASE Ask(c, "solUsd", "threw", {})
  BY <1>1, <1>2, <1>6, TurnKeeps
<1>7. QED
  BY <1>1, <1>3, <1>4, <1>5, <1>6

LEMMA FullPriceKeeps ==
    ASSUME IInv, NEW c \in Callers, FullPrice(c)
    PROVE  IInv'
<1>1. /\ frame[c]["full"].stage \in Waiting /\ UNCHANGED <<book, cache, rate>>
      /\ \/ Ask(c, "full", "threw", {}) \/ Ask(c, "full", "null", {})
         \/ /\ At(c, "inSol", "value") /\ At(c, "solUsd", "value")
            /\ Keep(c, "full", Oldest(frame[c]["inSol"].born, frame[c]["solUsd"].born))
  BY DEF FullPrice, At, Waiting, Goto, Ask
<1>2. /\ "full" \in Functions \ {"unified"}
      /\ "inSol" \in Functions /\ "solUsd" \in Functions
  BY DEF Functions
<1>3. CASE Ask(c, "full", "threw", {}) \/ Ask(c, "full", "null", {})
  BY <1>1, <1>2, <1>3, TurnKeeps
<1>4. CASE /\ At(c, "inSol", "value") /\ At(c, "solUsd", "value")
           /\ Keep(c, "full", Oldest(frame[c]["inSol"].born, frame[c]["solUsd"].born))
  BY <1>1, <1>2, <1>4, SourcesFit, CombineKeeps
<1>5. QED
  BY <1>1, <1>3, <1>4

LEMMA MarketCapKeeps ==
    ASSUME IInv, NEW c \in Callers, MarketCap(c)
    PROVE  IInv'
<1>1. /\ frame[c]["cap"].stage \in Waiting /\ UNCHANGED <<book, cache, rate>>
      /\ \/ Ask(c, "cap", "null", {})
         \/ /\ At(c, "unified", "value") /\ At(c, "supply", "value")
            /\ Keep(c, "cap", Oldest(frame[c]["unified"].born, frame[c]["supply"].born))
  BY DEF MarketCap, At, Waiting, Goto, Ask
<1>2. /\ "cap" \in Functions \ {"unified"}
      /\ "unified" \in Functions /\ "supply" \in Functions
  BY DEF Functions
<1>3. CASE Ask(c, "cap", "null", {})
  BY <1>1, <1>2, <1>3, TurnKeeps
<1>4. CASE /\ At(c, "unified", "value") /\ At(c, "supply", "value")
           /\ Keep(c, "cap", Oldest(frame[c]["unified"].born, frame[c]["supply"].born))
  BY <1>1, <1>2, <1>4, SourcesFit, CombineKeeps
<1>5. QED
  BY <1>1, <1>3, <1>4

(***************************************************************************)
(* getTokenPrice, which holds a rate from its first answer on.             *)
(***************************************************************************)
\* The oracle's rate, or that of the pools.
LEMMA RateOfKeeps ==
    ASSUME IInv, NEW c \in Callers, NEW f \in {"oracle", "solUsd"},
           frame[c]["unified"].stage \in Waiting,
           RateOf(c, f), UNCHANGED <<book, cache>>
    PROVE  IInv'
<1>1. "unified" \in Functions /\ f \in Functions /\ "shyft" \in Stages
  BY DEF Functions, Stages, Pending, Waiting, Later
<1>2. /\ At(c, f, "value")
      /\ rate' = [rate EXCEPT ![c] = frame[c][f].born]
      /\ Move(c, "unified", "shyft", 0, {"full"})
      /\ UNCHANGED <<roster, now, started, cache>>
  BY DEF RateOf, Ask, book
<1>3. Reach(f) <= OfRate
  BY SourcesFit
<1>4. started[c] <= frame[c][f].born + Reach(f)
  BY <1>1, <1>2 DEF IInv, Holdings, Held, At
<1>5. /\ frame[c][f] \in [stage : Stages, born : 0..MaxTime]
      /\ started[c] \in Nat /\ Reach(f) \in Nat /\ 0 \in 0..MaxTime
  BY <1>1, BoundIsSource, PriceAssumption DEF IInv, Typed
<1>6. frame[c][f].born \in 0..MaxTime
  BY <1>5
<1>7. started[c] <= frame[c][f].born + OfRate
  BY <1>3, <1>4, <1>5, <1>6, OfNat, PriceAssumption
<1>8. /\ rate' \in [Callers -> 0..MaxTime]
      /\ rate'[c] = frame[c][f].born
      /\ \A d \in Callers : d # c => rate'[d] = rate[d]
  BY <1>2, <1>6 DEF IInv, Typed
<1>9. Held(c, "unified", "shyft", 0) /\ frame[c]["unified"].stage \in Pending
  BY DEF Held, Storing, Pending
<1>10. Typed' /\ Clock' /\ Holdings' /\ Rates'
  BY <1>1, <1>2, <1>5, <1>7, <1>8, <1>9, MoveKeeps DEF IInv
<1>11. Cached'
  BY <1>2 DEF IInv, Cached, Sound
<1>12. QED
  BY <1>10, <1>11 DEF IInv

LEMMA RateKeeps ==
    ASSUME IInv, NEW c \in Callers, Rate(c)
    PROVE  IInv'
<1>1. /\ frame[c]["unified"].stage \in Waiting /\ UNCHANGED <<book, cache>>
      /\ \/ RateOf(c, "oracle") \/ RateOf(c, "solUsd")
         \/ Ask(c, "unified", "pools", {"solUsd"}) /\ rate' = rate
         \/ Ask(c, "unified", "threw", {}) /\ rate' = rate
  BY DEF Rate, At, Waiting, Later, Goto, Ask
<1>2. /\ "unified" \in Functions /\ frame[c]["unified"].stage \in Pending
      /\ "pools" \in Waiting /\ "pools" \notin Rated /\ "threw" \notin Rated
  BY <1>1 DEF Functions, Pending, Waiting, Later, Rated
<1>3. CASE RateOf(c, "oracle") \/ RateOf(c, "solUsd")
  BY <1>1, <1>3, RateOfKeeps
<1>4. CASE Ask(c, "unified", "pools", {"solUsd"}) /\ rate' = rate
  BY <1>1, <1>2, <1>4, AskKeeps
<1>5. CASE Ask(c, "unified", "threw", {}) /\ rate' = rate
  BY <1>1, <1>2, <1>5, AskKeeps
<1>6. QED
  BY <1>1, <1>3, <1>4, <1>5

LEMMA ShyftPriceKeeps ==
    ASSUME IInv, NEW c \in Callers, ShyftPrice(c)
    PROVE  IInv'
<1>1. /\ At(c, "unified", "shyft") /\ UNCHANGED <<book, cache, rate>>
      /\ \/ At(c, "full", "value") /\ Move(c, "unified", "store", frame[c]["full"].born, {})
         \/ Ask(c, "unified", "find", {})
  BY DEF ShyftPrice, Goto, Ask, Keep
<1>2. /\ "unified" \in Functions /\ "full" \in Functions
      /\ frame[c]["unified"].stage \in Pending /\ "find" \in Waiting
  BY <1>1 DEF At, Functions, Pending, Waiting, Later
<1>3. started[c] <= rate[c] + OfRate
  BY <1>1 DEF IInv, Rates, Rated, At
<1>4. CASE At(c, "full", "value") /\ Move(c, "unified", "store", frame[c]["full"].born, {})
  BY <1>1, <1>2, <1>3, <1>4, SourcesFit, Given, KeepKeeps
<1>5. CASE Ask(c, "unified", "find", {})
  BY <1>1, <1>2, <1>3, <1>5, AskKeeps
<1>6. QED
  BY <1>1, <1>4, <1>5

LEMMA FindPoolsKeeps ==
    ASSUME IInv, NEW c \in Callers, FindPools(c)
    PROVE  IInv'
<1>1. /\ At(c, "unified", "find") /\ UNCHANGED <<book, cache, rate>>
      /\ \/ Ask(c, "unified", "chain", {"onchain"})
         \/ Ask(c, "unified", "null", {})
  BY DEF FindPools, Goto, Ask
<1>2. /\ "unified" \in Functions /\ frame[c]["unified"].stage \in Pending
      /\ "chain" \in Waiting
  BY <1>1 DEF At, Functions, Pending, Waiting, Later
<1>3. started[c] <= rate[c] + OfRate
  BY <1>1 DEF IInv, Rates, Rated, At
<1>4. CASE Ask(c, "unified", "chain", {"onchain"})
  BY <1>1, <1>2, <1>3, <1>4, AskKeeps
<1>5. CASE Ask(c, "unified", "null", {})
  BY <1>1, <1>2, <1>3, <1>5, AskKeeps
<1>6. QED
  BY <1>1, <1>4, <1>5

\* The pool's price by the rate: as old as the older of the two.
LEMMA OnchainPriceKeeps ==
    ASSUME IInv, NEW c \in Callers, OnchainPrice(c)
    PROVE  IInv'
<1>1. /\ At(c, "unified", "chain") /\ UNCHANGED <<book, cache, rate>>
      /\ \/ At(c, "onchain", "value") /\ Move(c, "unified", "storeChain", UsdPrice(c), {})
         \/ Ask(c, "unified", "null", {})
  BY DEF OnchainPrice, Goto, Ask
<1>2. /\ "unified" \in Functions /\ "onchain" \in Functions
      /\ frame[c]["unified"].stage \in Pending
      /\ "storeChain" \notin Rated /\ "null" \notin Rated
  BY <1>1 DEF At, Functions, Pending, Waiting, Later, Rated
<1>3. started[c] <= rate[c] + OfRate
  BY <1>1 DEF IInv, Rates, Rated, At
<1>4. CASE At(c, "onchain", "value") /\ Move(c, "unified", "storeChain", UsdPrice(c), {})
  <2>1. /\ frame[c]["onchain"].born \in 0..MaxTime
        /\ started[c] <= frame[c]["onchain"].born + Source("unified")
    BY <1>2, <1>4, SourcesFit, Given
  <2>2. rate[c] \in 0..MaxTime /\ started[c] \in Nat /\ Source("unified") \in Nat
    BY <1>2, BoundIsSource, PriceAssumption DEF IInv, Typed
  <2>3. started[c] <= rate[c] + Source("unified")
    BY <1>3, <2>2, SourcesFit, OfNat, PriceAssumption
  <2>4. UsdPrice(c) \in 0..MaxTime /\ started[c] <= UsdPrice(c) + Source("unified")
    BY <2>1, <2>2, <2>3, OldestGiven DEF UsdPrice
  <2>5. QED
    BY <1>1, <1>2, <1>4, <2>4, KeepKeeps
<1>5. CASE Ask(c, "unified", "null", {})
  BY <1>1, <1>2, <1>5, AskKeeps
<1>6. QED
  BY <1>1, <1>4, <1>5

-----------------------------------------------------------------------------
LEMMA StepOfCallKeeps ==
    ASSUME IInv, NEW c \in Callers, Step(c)
    PROVE  IInv'
<1>1. CASE \E f \in Functions :
              \/ Hit(c, f) \/ Miss(c, f) \/ LookFails(c, f)
              \/ Stored(c, f) \/ StoreFails(c, f)
  BY <1>1, HitKeeps, MissKeeps, LookFailsKeeps, StoredKeeps, StoreFailsKeeps
<1>2. CASE \/ \E f \in Pools : FetchPools(c, f)
           \/ FetchPyth(c) \/ FetchPoolInfo(c) \/ FetchSupply(c)
  BY <1>2, FetchKeeps
<1>3. CASE PriceInSol(c) \/ SolUsdRate(c) \/ FullPrice(c) \/ MarketCap(c)
  BY <1>3, PriceInSolKeeps, SolUsdRateKeeps, FullPriceKeeps, MarketCapKeeps
<1>4. CASE StoreFallback(c) \/ Fallback(c)
  BY <1>4, StoreFallbackKeeps, FallbackKeeps
<1>5. CASE Rate(c) \/ ShyftPrice(c) \/ FindPools(c) \/ OnchainPrice(c)
  BY <1>5, RateKeeps, ShyftPriceKeeps, FindPoolsKeeps, OnchainPriceKeeps
<1>6. QED
  BY <1>1, <1>2, <1>3, <1>4, <1>5 DEF Step

LEMMA NextKeepsIInv ==
    ASSUME IInv, [Next]_vars
    PROVE  IInv'
<1>1. ASSUME NEW c \in Callers, NEW f \in roster.asks[c], Call(c, f)
      PROVE  IInv'
  <2>1. f \in Functions
    <3>1. roster.asks[c] \subseteq {"cap", "unified", "solUsd"}
      BY PriceAssumption DEF IInv, Typed
    <3>2. QED
      BY <3>1 DEF Functions
  <2>2. QED
    BY <1>1, <2>1, CallKeeps
<1>2. CASE UNCHANGED vars
  <2>1. UNCHANGED <<roster, now, started, frame, rate, cache>>
    BY <1>2 DEF vars, book
  <2>2. Typed' /\ Rates'
    BY <2>1 DEF IInv, Typed, Rates
  <2>3. Clock' /\ Holdings'
    BY <2>1 DEF IInv, Clock, Running, Holdings, Held
  <2>4. Cached'
    BY <2>1 DEF IInv, Cached, Sound
  <2>5. QED
    BY <2>2, <2>3, <2>4 DEF IInv
<1>3. QED
  BY <1>1, <1>2, StepOfCallKeeps, TickKeeps DEF Next

\* Every reachable state keeps the invariant; in particular nothing is typed
\* but as the program may have it: a key of Redis is None or holds a birth and
\* an expiry, a call is at one of its stages (PriceService.ts:83-157 and the
\* functions below it).
THEOREM InvariantHolds == Spec => []IInv
<1>1. Init => IInv
  BY InitIInv
<1>2. IInv /\ [Next]_vars => IInv'
  BY NextKeepsIInv
<1>3. QED
  BY <1>1, <1>2, PTL DEF Spec

\* The bounds of the model: a step fails once at most, and only Call counts calls.
Counted ==
    roster \in Rosters /\ calls \in 0..MaxCalls /\ faults \in 0..MaxFaults

LEMMA StepFailsOnce ==
    ASSUME NEW c \in Callers, Step(c)
    PROVE  roster' = roster /\ calls' = calls /\ (Well \/ Fault)
<1>1. CASE \E f \in Functions :
              \/ Hit(c, f) \/ Miss(c, f) \/ LookFails(c, f)
              \/ Stored(c, f) \/ StoreFails(c, f)
  BY <1>1 DEF Hit, Miss, LookFails, Stored, StoreFails, book, Well
<1>2. CASE \/ \E f \in Pools : FetchPools(c, f)
           \/ FetchPyth(c) \/ FetchPoolInfo(c) \/ FetchSupply(c)
  BY <1>2 DEF FetchPools, FetchPyth, FetchPoolInfo, FetchSupply, book
<1>3. CASE PriceInSol(c) \/ SolUsdRate(c) \/ FullPrice(c) \/ MarketCap(c)
  BY <1>3 DEF PriceInSol, SolUsdRate, FullPrice, MarketCap, Nothing, Useless, book, Well
<1>4. CASE StoreFallback(c) \/ Fallback(c)
  BY <1>4 DEF StoreFallback, Fallback, book, Well
<1>5. CASE Rate(c) \/ ShyftPrice(c) \/ FindPools(c) \/ OnchainPrice(c)
  BY <1>5 DEF Rate, RateOf, ShyftPrice, FindPools, OnchainPrice, Nothing, Useless, book
<1>6. QED
  BY <1>1, <1>2, <1>3, <1>4, <1>5 DEF Step

LEMMA CountedHolds == Spec => []Counted
<1>1. Init => Counted
  BY PriceAssumption DEF Init, Counted
<1>2. ASSUME Counted, [Next]_vars
      PROVE  Counted'
  <2>1. /\ MaxCalls \in Nat /\ MaxFaults \in Nat /\ roster \in Rosters
        /\ roster.calls \in 0..MaxCalls /\ roster.faults \in 0..MaxFaults
    BY <1>2, RosterBounds, PriceAssumption DEF Counted
  <2>2. CASE \E c \in Callers : \E f \in roster.asks[c] : Call(c, f)
    BY <1>2, <2>1, <2>2 DEF Call, Counted
  <2>3. CASE \E c \in Callers : Step(c)
    <3>1. roster' = roster /\ calls' = calls /\ (Well \/ Fault)
      BY <2>3, StepFailsOnce
    <3>2. QED
      BY <1>2, <2>1, <3>1 DEF Well, Fault, Counted
  <2>4. CASE Tick \/ UNCHANGED vars
    BY <1>2, <2>4 DEF Tick, vars, book, Counted
  <2>5. QED
    BY <1>2, <2>2, <2>3, <2>4 DEF Next
<1>3. QED
  BY <1>1, <1>2, PTL DEF Spec

\* Every variable keeps its type: what Redis holds under a key is data born at
\* a time of the run, a call is at one of the stages of its function, and the
\* rate held is as old as something that was fetched.
THEOREM TypeCorrect == Spec => []TypeOK
<1>1. IInv /\ Counted => TypeOK
  BY DEF IInv, Typed, Cached, Entries, Counted, TypeOK, Data
<1>2. QED
  BY <1>1, InvariantHolds, CountedHolds, PTL

\* No data stays in Redis for longer than the times to live it passed
\* through, whatever callers, failures and times to live (PriceService.ts:90,
\* 110-111).
THEOREM StoredDataIsBounded == Spec => []StoredBounded
<1>1. IInv => StoredBounded
  BY DEF IInv, Cached, Sound, StoredBounded
<1>2. QED
  BY <1>1, InvariantHolds, PTL

\* No answer is older than that, although it is stamped with the time at
\* which it was put together (PriceService.ts:110, MarketCapCalculator.ts:223).
THEOREM AnswersAreBounded == Spec => []AnswersBounded
<1>1. IInv => AnswersBounded
  BY DEF IInv, Holdings, Held, At, AnswersBounded
<1>2. QED
  BY <1>1, InvariantHolds, PTL

-----------------------------------------------------------------------------
(***************************************************************************)
(* What escapes getTokenPrice.  Its frame is moved by its own steps, begun *)
(* by getMarketCap, and dropped when that has its answer; only a step of   *)
(* its own makes it throw.                                                 *)
(***************************************************************************)
\* What another function does makes nobody's getTokenPrice throw.
LEMMA OthersContain ==
    ASSUME Typed, NEW c \in Callers, NEW f \in Functions \ {"unified"},
           NEW stage, NEW born, NEW asked, Move(c, f, stage, born, asked)
    PROVE  \A d \in Callers : Escapes(d)
<1> SUFFICES ASSUME NEW d \in Callers, At(d, "unified", "threw")'
             PROVE  At(d, "unified", "threw")
  BY DEF Escapes
<1>1. "unified" \in Functions /\ "unified" # f
  BY DEF Functions
<1>2. CASE d # c
  <2>1. frame'[d] = frame[d]
    BY <1>2 DEF Move, Typed
  <2>2. QED
    BY <2>1 DEF At
<1>3. CASE d = c
  <2>1. frame'[c]["unified"] \in {Called, Idle, frame[c]["unified"]}
    BY <1>1 DEF Move, Typed
  <2>2. frame'[c]["unified"].stage = "threw"
    BY <1>3 DEF At
  <2>3. Called.stage # "threw" /\ Idle.stage # "threw"
    BY DEF Called, Idle
  <2>4. frame'[c]["unified"] = frame[c]["unified"]
    BY <2>1, <2>2, <2>3
  <2>5. QED
    BY <1>3, <2>2, <2>4 DEF At
<1>4. QED
  BY <1>2, <1>3

\* A step of getTokenPrice that does not throw, or may.
LEMMA OwnContains ==
    ASSUME Typed, NEW c \in Callers,
           NEW stage, NEW born, NEW asked, Move(c, "unified", stage, born, asked),
           \/ stage # "threw"
           \/ At(c, "unified", "called")
           \/ At(c, "unified", "pools") /\ At(c, "solUsd", "threw")
    PROVE  \A d \in Callers : Escapes(d)
<1> SUFFICES ASSUME NEW d \in Callers, At(d, "unified", "threw")'
             PROVE  \/ At(d, "unified", "threw") \/ At(d, "unified", "called")
                    \/ At(d, "unified", "pools") /\ At(d, "solUsd", "threw")
  BY DEF Escapes
<1>1. CASE d # c
  <2>1. frame'[d] = frame[d]
    BY <1>1 DEF Move, Typed
  <2>2. QED
    BY <2>1 DEF At
<1>2. CASE d = c
  <2>1. frame'[c]["unified"] = [stage |-> stage, born |-> born]
    BY DEF Move, Typed, Functions
  <2>2. stage = "threw"
    BY <1>2, <2>1 DEF At
  <2>3. QED
    BY <1>2, <2>2
<1>3. QED
  BY <1>1, <1>2

\* cache.get and cache.set: getTokenPrice throws only when it looks.
LEMMA CacheStepsContain ==
    ASSUME Typed, NEW c \in Callers, NEW f \in Functions,
           \/ Hit(c, f) \/ Miss(c, f) \/ LookFails(c, f)
           \/ Stored(c, f) \/ StoreFails(c, f)
    PROVE  \A d \in Callers : Escapes(d)
<1>1. \E stage, born, asked :
         /\ Move(c, f, stage, born, asked)
         /\ f = "unified" => stage # "threw" \/ At(c, "unified", "called")
  <2>1. CASE Hit(c, f) \/ Miss(c, f)
    <3>1. Move(c, f, "value", cache[f].born, {}) \/ Move(c, f, "work", 0, First(f))
      BY <2>1 DEF Hit, Miss, Ask
    <3>2. QED
      BY <3>1
  <2>2. CASE LookFails(c, f)
    <3>1. At(c, f, "called") /\ Move(c, f, IF f = "onchain" THEN "null" ELSE "threw", 0, {})
      BY <2>2 DEF LookFails, Goto
    <3>2. QED
      BY <3>1
  <2>3. CASE Stored(c, f)
    <3>1. Move(c, f, IF f = "oracle" THEN "storeFallback" ELSE "value",
               frame[c][f].born, {})
      BY <2>3 DEF Stored
    <3>2. f = "unified" => (IF f = "oracle" THEN "storeFallback" ELSE "value") # "threw"
      OBVIOUS
    <3>3. QED
      BY <3>1, <3>2
  <2>4. CASE StoreFails(c, f)
    <3>1. AfterStoreFails(c, f)
      BY <2>4 DEF StoreFails
    <3>2. \/ f # "unified" /\ Move(c, f, "threw", 0, {})
          \/ Move(c, f, "fallback", 0, {}) \/ Move(c, f, "find", 0, {})
          \/ Move(c, f, "null", 0, {})
      BY <3>1 DEF AfterStoreFails, Goto, Pools
    <3>3. QED
      BY <3>2
  <2>5. QED
    BY <2>1, <2>2, <2>3, <2>4
<1>2. PICK stage, born, asked :
         /\ Move(c, f, stage, born, asked)
         /\ f = "unified" => stage # "threw" \/ At(c, "unified", "called")
  BY <1>1
<1>3. CASE f = "unified"
  BY <1>2, <1>3, OwnContains
<1>4. CASE f # "unified"
  BY <1>2, <1>4, OthersContain
<1>5. QED
  BY <1>3, <1>4

\* The functions getTokenPrice asks, directly or not, and getMarketCap.
LEMMA SourcesContain ==
    ASSUME Typed, NEW c \in Callers,
           \/ \E f \in Pools : FetchPools(c, f)
           \/ PriceInSol(c) \/ SolUsdRate(c) \/ FullPrice(c)
           \/ FetchPyth(c) \/ StoreFallback(c) \/ Fallback(c)
           \/ FetchPoolInfo(c) \/ FetchSupply(c) \/ MarketCap(c)
    PROVE  \A d \in Callers : Escapes(d)
<1>1. \E f \in Functions \ {"unified"} :
         \E stage, born, asked : Move(c, f, stage, born, asked)
  <2> USE DEF Goto, Ask, Keep
  <2>1. CASE \E f \in Pools : FetchPools(c, f)
    <3>1. PICK f \in Pools : FetchPools(c, f)
      BY <2>1
    <3>2. f \in Functions \ {"unified"}
      BY DEF Pools, Functions
    <3>3. \E stage, born, asked : Move(c, f, stage, born, asked)
      BY <3>1 DEF FetchPools
    <3>4. QED
      BY <3>2, <3>3
  <2>2. CASE PriceInSol(c)
    <3>1. \E stage, born, asked : Move(c, "inSol", stage, born, asked)
      BY <2>2 DEF PriceInSol
    <3>2. QED
      BY <3>1 DEF Functions
  <2>3. CASE SolUsdRate(c)
    <3>1. \E stage, born, asked : Move(c, "solUsd", stage, born, asked)
      BY <2>3 DEF SolUsdRate
    <3>2. QED
      BY <3>1 DEF Functions
  <2>4. CASE FullPrice(c)
    <3>1. \E stage, born, asked : Move(c, "full", stage, born, asked)
      BY <2>4 DEF FullPrice
    <3>2. QED
      BY <3>1 DEF Functions
  <2>5. CASE FetchPyth(c) \/ StoreFallback(c) \/ Fallback(c)
    <3>1. \E stage, born, asked : Move(c, "oracle", stage, born, asked)
      BY <2>5 DEF FetchPyth, StoreFallback, Fallback
    <3>2. QED
      BY <3>1 DEF Functions
  <2>6. CASE FetchPoolInfo(c)
    <3>1. \E stage, born, asked : Move(c, "onchain", stage, born, asked)
      BY <2>6 DEF FetchPoolInfo
    <3>2. QED
      BY <3>1 DEF Functions
  <2>7. CASE FetchSupply(c)
    <3>1. \E stage, born, asked : Move(c, "supply", stage, born, asked)
      BY <2>7 DEF FetchSupply
    <3>2. QED
      BY <3>1 DEF Functions
  <2>8. CASE MarketCap(c)
    <3>1. \E stage, born, asked : Move(c, "cap", stage, born, asked)
      BY <2>8 DEF MarketCap
    <3>2. QED
      BY <3>1 DEF Functions
  <2>9. QED
    BY <2>1, <2>2, <2>3, <2>4, <2>5, <2>6, <2>7, <2>8
<1>2. QED
  BY <1>1, OthersContain

\* getTokenPrice itself: it throws when the pools have no rate either.
LEMMA PriceServiceContains ==
    ASSUME Typed, NEW c \in Callers,
           Rate(c) \/ ShyftPrice(c) \/ FindPools(c) \/ OnchainPrice(c)
    PROVE  \A d \in Callers : Escapes(d)
<1>1. \E stage, born, asked :
         /\ Move(c, "unified", stage, born, asked)
         /\ \/ stage # "threw"
            \/ At(c, "unified", "pools") /\ At(c, "solUsd", "threw")
  <2> USE DEF Goto, Ask, Keep
  <2>1. CASE Rate(c)
    <3>1. \/ Move(c, "unified", "shyft", 0, {"full"})
          \/ Move(c, "unified", "pools", 0, {"solUsd"})
          \/ /\ At(c, "unified", "pools") /\ At(c, "solUsd", "threw")
             /\ Move(c, "unified", "threw", 0, {})
      BY <2>1 DEF Rate, RateOf
    <3>2. QED
      BY <3>1
  <2>2. CASE ShyftPrice(c)
    <3>1. \/ Move(c, "unified", "store", frame[c]["full"].born, {})
          \/ Move(c, "unified", "find", 0, {})
      BY <2>2 DEF ShyftPrice
    <3>2. QED
      BY <3>1
  <2>3. CASE FindPools(c)
    <3>1. \/ Move(c, "unified", "chain", 0, {"onchain"})
          \/ Move(c, "unified", "null", 0, {})
      BY <2>3 DEF FindPools
    <3>2. QED
      BY <3>1
  <2>4. CASE OnchainPrice(c)
    <3>1. \/ Move(c, "unified", "storeChain", UsdPrice(c), {})
          \/ Move(c, "unified", "null", 0, {})
      BY <2>4 DEF OnchainPrice
    <3>2. QED
      BY <3>1
  <2>5. QED
    BY <2>1, <2>2, <2>3, <2>4
<1>2. QED
  BY <1>1, OwnContains

\* Once there is a SOL/USD rate, nothing that a source of the price or a
\* write to the cache throws leaves getTokenPrice (PriceService.ts:93-156).
THEOREM FailuresStayInside == Spec => FailuresAreContained
<1>1. ASSUME Typed, [Next]_vars
      PROVE  [\A c \in Callers : Escapes(c)]_vars
  <2>1. ASSUME NEW c \in Callers, NEW f \in roster.asks[c], Call(c, f)
        PROVE  \A d \in Callers : Escapes(d)
    <3>1. frame'[c] = [g \in Functions |-> IF g = f THEN Called ELSE Idle]
      BY <1>1, <2>1 DEF Call, Typed
    <3>2. frame'[c]["unified"] \in {Called, Idle}
      BY <3>1 DEF Functions
    <3>3. frame'[c]["unified"].stage # "threw"
      BY <3>2 DEF Called, Idle
    <3>4. \A d \in Callers \ {c} : frame'[d] = frame[d]
      BY <1>1, <2>1 DEF Call, Typed
    <3>5. QED
      BY <3>3, <3>4 DEF Escapes, At
  <2>2. ASSUME NEW c \in Callers, Step(c)
        PROVE  \A d \in Callers : Escapes(d)
    BY <1>1, <2>2, CacheStepsContain, SourcesContain, PriceServiceContains DEF Step
  <2>3. CASE Tick
    BY <2>3 DEF Tick, Escapes, At
  <2>4. QED
    BY <1>1, <2>1, <2>2, <2>3 DEF Next
<1>2. IInv => Typed
  BY DEF IInv
<1>3. QED
  BY <1>1, <1>2, InvariantHolds, PTL DEF Spec, FailuresAreContained

-----------------------------------------------------------------------------
(***************************************************************************)
(* Nobody is stuck.  ENABLED is beyond the prover; what follows says the   *)
(* same without it.  GoOn(c, f) is one way in which c's call of f goes on, *)
(* with nothing failing: it gives every variable its next value, so that   *)
(* it can be taken whenever CanGoOn(c, f), and it is a step of c.  As long *)
(* as c is inside a call, one of its functions can go on.                  *)
(***************************************************************************)
\* The stages of a function: getPriceFromShyftPool never throws, and
\* getSolUsdRate never returns null.
StagesOf(f) ==
    CASE f = "unified" -> {"idle", "called", "work", "pools", "shyft", "find", "chain",
                           "store", "storeChain"} \cup Ended
      [] f = "oracle" -> {"idle", "called", "work", "store", "storeFallback", "fallback"} \cup Ended
      [] f = "solUsd" -> {"idle", "called", "work", "usdt", "store", "value", "threw"}
      [] f = "onchain" -> {"idle", "called", "work", "store", "value", "null"}
      [] OTHER -> {"idle", "called", "work", "store"} \cup Ended

\* Whose answers f waits for at a stage.
Awaited(f, stage) ==
    CASE stage = "work" -> First(f)
      [] stage = "usdt" -> {"poolsUsdt"}
      [] stage = "pools" -> {"solUsd"}
      [] stage = "shyft" -> {"full"}
      [] stage = "chain" -> {"onchain"}
      [] OTHER -> {}

CanGoOn(c, f) ==
    /\ frame[c][f].stage \in Pending
    /\ \A g \in Awaited(f, frame[c][f].stage) : Over(c, g)

\* Where f goes on to from a stage other than "work", and from there.
Onward(c, f) ==
    CASE At(c, f, "called") -> IF Live(f) THEN "value" ELSE "work"
      [] At(c, f, "store") -> IF f = "oracle" THEN "storeFallback" ELSE "value"
      [] At(c, f, "fallback") -> IF Live("fallback") THEN "value" ELSE "null"
      [] At(c, f, "usdt") -> IF At(c, "poolsUsdt", "value") THEN "store" ELSE "threw"
      [] At(c, f, "pools") -> IF At(c, "solUsd", "value") THEN "shyft" ELSE "threw"
      [] At(c, f, "shyft") -> IF At(c, "full", "value") THEN "store" ELSE "find"
      [] At(c, f, "find") -> "chain"
      [] At(c, f, "chain") -> IF At(c, "onchain", "value") THEN "storeChain" ELSE "null"
      [] OTHER -> "value"

Worked(c, f) ==
    CASE f = "cap" -> IF At(c, "unified", "value") /\ At(c, "supply", "value")
                      THEN "store" ELSE "null"
      [] f = "unified" -> IF At(c, "oracle", "value") THEN "shyft" ELSE "pools"
      [] f = "full" -> IF At(c, "inSol", "threw") \/ At(c, "solUsd", "threw") THEN "threw"
                       ELSE IF At(c, "inSol", "null") THEN "null" ELSE "store"
      [] f = "inSol" -> IF At(c, "poolsSol", "value") THEN "store" ELSE "null"
      [] f = "solUsd" -> IF At(c, "poolsUsdc", "value") THEN "store"
                         ELSE IF At(c, "poolsUsdc", "null") THEN "usdt" ELSE "threw"
      [] OTHER -> "store"

NextStage(c, f) == IF At(c, f, "work") THEN Worked(c, f) ELSE Onward(c, f)

\* How old what it then holds is.
BornAtWork(c, f) ==
    LET b(g) == frame[c][g].born
    IN  CASE f = "cap" -> Oldest(b("unified"), b("supply"))
          [] f = "full" -> Oldest(b("inSol"), b("solUsd"))
          [] f = "inSol" -> b("poolsSol")
          [] f = "solUsd" -> b("poolsUsdc")
          [] OTHER -> now

BornLater(c, f) ==
    CASE At(c, f, "called") -> cache[f].born
      [] At(c, f, "fallback") -> cache["fallback"].born
      [] At(c, f, "usdt") -> frame[c]["poolsUsdt"].born
      [] At(c, f, "shyft") -> frame[c]["full"].born
      [] At(c, f, "chain") -> UsdPrice(c)
      [] OTHER -> frame[c][f].born

NextBorn(c, f) ==
    IF NextStage(c, f) \notin {"value"} \cup Storing THEN 0
    ELSE IF At(c, f, "work") THEN BornAtWork(c, f)
    ELSE BornLater(c, f)

GoOn(c, f) ==
    /\ CanGoOn(c, f)
    /\ Move(c, f, NextStage(c, f), NextBorn(c, f), Awaited(f, NextStage(c, f)))
    /\ cache' = CASE frame[c][f].stage \in {"store", "storeChain"} -> Entry(f, frame[c][f].born)
                  [] At(c, f, "storeFallback") -> Entry("fallback", frame[c][f].born)
                  [] OTHER -> cache
    /\ rate' = CASE f = "unified" /\ At(c, f, "work") /\ At(c, "oracle", "value") ->
                        [rate EXCEPT ![c] = frame[c]["oracle"].born]
                 [] f = "unified" /\ At(c, f, "pools") /\ At(c, "solUsd", "value") ->
                        [rate EXCEPT ![c] = frame[c]["solUsd"].born]
                 [] OTHER -> rate
    /\ UNCHANGED <<book, faults>>

\* Whoever waits has asked: what it waits for is under way or has ended.  The
\* solUsd of getTokenPrice and that of ShyftPriceCalculator's getTokenPrice do
\* not get into each other's way, as the latter is asked for afterwards.
Asked(c) ==
    /\ \A f \in Functions : frame[c][f].stage \in StagesOf(f)
    /\ \A f \in Functions : \A g \in Awaited(f, frame[c][f].stage) : ~At(c, g, "idle")
    /\ frame[c]["full"].stage \in Pending => At(c, "unified", "shyft")
    /\ At(c, "cap", "called") => At(c, "unified", "idle")

WInv == Typed /\ \A c \in Callers : Asked(c)

SomebodyCanGoOn == \A c \in Callers : Running(c) => \E f \in Functions : CanGoOn(c, f)

\* A step of f that asks for what it then waits for.
Turn(c, f, stage, born) ==
    /\ Move(c, f, stage, born, Awaited(f, stage))
    /\ frame[c][f].stage \in Pending
    /\ stage \in StagesOf(f) \ {"idle", "called"}
    /\ stage = "work" => At(c, f, "called")
    /\ f = "unified" /\ At(c, "unified", "shyft") => Over(c, "full")

LEMMA AskedFunctions ==
    \A f \in Functions : \A stage \in StagesOf(f) :
        /\ Awaited(f, stage) \subseteq Functions /\ f \notin Awaited(f, stage)
        /\ "cap" \notin Awaited(f, stage)
        /\ "unified" \in Awaited(f, stage) => f = "cap" /\ stage = "work"
        /\ "full" \in Awaited(f, stage) => f = "unified" /\ stage = "shyft"
        /\ Awaited(f, stage) # {} => stage \in Waiting
  BY DEF Functions, Awaited, First, StagesOf, Waiting, Later, Ended

LEMMA UsedFunctions ==
    \A f \in Functions :
        /\ "cap" \notin Uses(f)
        /\ "unified" \in Uses(f) => f = "cap"
        /\ "full" \in Uses(f) => f = "unified"
  BY DEF Functions, Uses

\* What two functions use is the rate of the pools.
LEMMA SharedFunctions ==
    ASSUME NEW f \in Functions, NEW h \in Functions \ {f}, NEW stage \in StagesOf(h),
           NEW g \in Awaited(h, stage), g \in Uses(f)
    PROVE  \/ f = "unified" /\ h = "full" /\ stage = "work"
           \/ f = "full" /\ h = "unified" /\ stage = "pools"
  BY DEF Functions, Awaited, First, Uses, StagesOf, Ended

LEMMA StageSets ==
    /\ \A s \in Pending : s \notin Ended /\ s # "idle"
    /\ "called" \in Pending /\ "work" \in Pending /\ "idle" \notin Pending
    /\ \A s \in Waiting : s \in Pending /\ s # "called"
    /\ "idle" \notin Waiting /\ "called" \notin Waiting
  BY DEF Pending, Ended, Waiting, Later, Storing

LEMMA CommonStages ==
    \A f \in Functions :
        {"idle", "called", "work", "store", "value"} \subseteq StagesOf(f)
  BY DEF StagesOf, Ended

LEMMA TurnKeepsAsked ==
    ASSUME Typed, NEW c \in Callers, Asked(c), NEW f \in Functions,
           NEW stage, NEW born, Turn(c, f, stage, born)
    PROVE  Asked(c)'
<1> DEFINE old(g) == frame[c][g].stage
           new(g) == frame'[c][g].stage
           asked == Awaited(f, stage)
<1>1. \A g \in Functions :
         new(g) = IF g = f THEN stage
                  ELSE IF g \in asked THEN "called"
                  ELSE IF g \in Uses(f) /\ stage \notin Waiting /\ Over(c, g) THEN "idle"
                  ELSE old(g)
  <2>1. frame'[c] = [g \in Functions |->
                        IF g = f THEN [stage |-> stage, born |-> born]
                        ELSE IF g \in asked THEN Called
                        ELSE IF g \in Uses(f) /\ stage \notin Waiting /\ Over(c, g) THEN Idle
                        ELSE frame[c][g]]
    BY DEF Turn, Move, Typed
  <2>2. QED
    BY <2>1 DEF Called, Idle
<1>2. /\ old(f) \in Pending /\ stage \in StagesOf(f) /\ stage # "idle" /\ stage # "called"
      /\ stage = "work" => old(f) = "called"
      /\ f = "unified" /\ old("unified") = "shyft" => Over(c, "full")
  BY DEF Turn, At
<1>3. /\ \A g \in Functions : old(g) \in StagesOf(g)
      /\ \A h \in Functions : \A g \in Awaited(h, old(h)) : old(g) # "idle"
      /\ old("full") \in Pending => old("unified") = "shyft"
      /\ old("cap") = "called" => old("unified") = "idle"
  BY DEF Asked, At
<1>4. \A g \in Functions : Over(c, g) <=> old(g) \in Ended
  BY DEF Over
<1>5. {"cap", "unified", "full"} \subseteq Functions
  BY DEF Functions
<1>6. f = "unified" => old("full") \notin Pending
  BY <1>2, <1>3, <1>4, <1>5, StageSets
<1>7. /\ asked \subseteq Functions /\ f \notin asked /\ "cap" \notin asked
      /\ "unified" \in asked => f = "cap" /\ stage = "work"
      /\ "full" \in asked => f = "unified" /\ stage = "shyft"
  BY <1>2, AskedFunctions
<1> HIDE DEF old, new, asked
<1>8. \A g \in Functions : new(g) \in StagesOf(g)
  BY <1>1, <1>2, <1>3, CommonStages
<1>9. \A h \in Functions : \A g \in Awaited(h, new(h)) : new(g) # "idle"
  <2> SUFFICES ASSUME NEW h \in Functions, NEW g \in Awaited(h, new(h))
               PROVE  new(g) # "idle"
    OBVIOUS
  <2>1. g \in Functions /\ g # h /\ new(h) \in Waiting
    BY <1>8, AskedFunctions
  <2>2. CASE g = f
    BY <1>1, <1>2, <2>2
  <2>3. CASE g \in asked
    <3>1. g # f
      BY <1>7, <2>3
    <3>2. QED
      BY <1>1, <2>1, <2>3, <3>1
  <2>4. CASE h = f
    <3>1. new(h) = stage
      BY <1>1, <2>4
    <3>2. g \in asked
      BY <2>4, <3>1 DEF asked
    <3>3. QED
      BY <2>3, <3>2
  <2>5. CASE h # f /\ g # f /\ g \notin asked
    <3>1. new(h) = old(h)
      BY <1>1, <2>1, <2>5, StageSets
    <3>2. old(g) # "idle"
      BY <1>3, <3>1
    <3>3. ~(g \in Uses(f) /\ stage \notin Waiting /\ Over(c, g))
      <4>1. SUFFICES ASSUME g \in Uses(f)
                     PROVE  FALSE
        OBVIOUS
      <4>2. \/ f = "unified" /\ h = "full" /\ old(h) = "work"
            \/ f = "full" /\ h = "unified" /\ old(h) = "pools"
        BY <1>3, <2>5, <3>1, <4>1, SharedFunctions
      <4>3. CASE f = "unified" /\ h = "full" /\ old(h) = "work"
        BY <1>6, <4>3, StageSets
      <4>4. CASE f = "full" /\ h = "unified" /\ old(h) = "pools"
        BY <1>2, <1>3, <4>4
      <4>5. QED
        BY <4>2, <4>3, <4>4
    <3>4. QED
      BY <1>1, <2>1, <2>5, <3>2, <3>3
  <2>6. QED
    BY <2>2, <2>3, <2>4, <2>5
<1>10. new("full") \in Pending => new("unified") = "shyft"
  <2> SUFFICES ASSUME new("full") \in Pending
               PROVE  new("unified") = "shyft"
    OBVIOUS
  <2>1. CASE f = "unified"
    <3>1. "full" \in asked
      BY <1>1, <1>5, <1>6, <2>1, StageSets
    <3>2. QED
      BY <1>1, <1>5, <1>7, <2>1, <3>1
  <2>2. CASE f = "full"
    <3>1. old("unified") = "shyft"
      BY <1>2, <1>3, <2>2
    <3>2. "unified" \notin asked /\ "unified" \notin Uses(f)
      BY <1>7, <2>2, UsedFunctions
    <3>3. QED
      BY <1>1, <1>5, <2>2, <3>1, <3>2
  <2>3. CASE f \notin {"unified", "full"}
    <3>1. "full" \notin asked /\ "full" \notin Uses(f)
      BY <1>7, <2>3, UsedFunctions
    <3>2. old("full") \in Pending
      BY <1>1, <1>5, <2>3, <3>1
    <3>3. old("unified") = "shyft"
      BY <1>3, <3>2
    <3>4. "unified" \notin asked
      BY <1>2, <1>3, <1>7, <3>3
    <3>5. old("unified") \notin Ended
      BY <3>3 DEF Ended
    <3>6. QED
      BY <1>1, <1>4, <1>5, <2>3, <3>3, <3>4, <3>5
  <2>4. QED
    BY <2>1, <2>2, <2>3
<1>11. new("cap") = "called" => new("unified") = "idle"
  <2> SUFFICES ASSUME new("cap") = "called"
               PROVE  new("unified") = "idle"
    OBVIOUS
  <2>1. f # "cap"
    BY <1>1, <1>2, <1>5
  <2>2. old("cap") = "called"
    BY <1>1, <1>5, <1>7, <2>1
  <2>3. old("unified") = "idle"
    BY <1>3, <2>2
  <2>4. f # "unified" /\ "unified" \notin asked
    BY <1>2, <1>7, <2>1, <2>3, StageSets
  <2>5. QED
    BY <1>1, <1>5, <2>3, <2>4
<1>12. QED
  BY <1>8, <1>9, <1>10, <1>11 DEF Asked, At, new

\* A step of f after which it waits for nobody.
LEMMA Quiet ==
    \A f \in Functions : \A s \in Ended \cup Storing \cup {"fallback", "find"} :
        Awaited(f, s) = {}
  BY DEF Awaited, Ended, Storing

LEMMA QuietTurn ==
    ASSUME NEW c \in Callers, NEW f \in Functions, NEW born,
           NEW stage \in StagesOf(f) \cap (Ended \cup Storing \cup {"fallback", "find"}),
           Move(c, f, stage, born, {}), frame[c][f].stage \in Pending,
           f = "unified" /\ At(c, "unified", "shyft") => Over(c, "full")
    PROVE  Turn(c, f, stage, born)
<1>1. Awaited(f, stage) = {}
  BY Quiet
<1>2. stage # "idle" /\ stage # "called" /\ stage # "work"
  BY DEF Ended, Storing
<1>3. QED
  BY <1>1, <1>2 DEF Turn

\* cache.get and cache.set.
LEMMA CacheStepIsTurn ==
    ASSUME NEW c \in Callers, Asked(c), NEW f \in Functions,
           \/ Hit(c, f) \/ Miss(c, f) \/ LookFails(c, f)
           \/ Stored(c, f) \/ StoreFails(c, f)
    PROVE  \E stage, born : Turn(c, f, stage, born)
<1>1. \A s \in {"called", "store", "storeChain"} :
         At(c, f, s) => frame[c][f].stage \in Pending
                        /\ (f = "unified" => ~At(c, "unified", "shyft"))
  BY DEF At, Pending, Storing
<1>2. frame[c][f].stage \in StagesOf(f)
  BY DEF Asked
<1>3. {"value", "null", "threw"} \subseteq Ended /\ "storeFallback" \in Storing
  BY DEF Ended, Storing
<1>4. CASE Hit(c, f)
  <2>1. At(c, f, "called") /\ Move(c, f, "value", cache[f].born, {})
    BY <1>4 DEF Hit
  <2>2. Turn(c, f, "value", cache[f].born)
    BY <1>1, <1>3, <2>1, CommonStages, QuietTurn
  <2>3. QED
    BY <2>2
<1>5. CASE Miss(c, f)
  <2>1. At(c, f, "called") /\ Move(c, f, "work", 0, First(f))
    BY <1>5 DEF Miss, Ask
  <2>2. Awaited(f, "work") = First(f)
    BY DEF Awaited
  <2>3. Turn(c, f, "work", 0)
    BY <1>1, <2>1, <2>2, CommonStages DEF Turn
  <2>4. QED
    BY <2>3
<1>6. CASE LookFails(c, f)
  <2>1. At(c, f, "called") /\ Move(c, f, IF f = "onchain" THEN "null" ELSE "threw", 0, {})
    BY <1>6 DEF LookFails, Goto
  <2>2. (IF f = "onchain" THEN "null" ELSE "threw") \in StagesOf(f) \cap Ended
    BY DEF StagesOf, Ended
  <2>3. Turn(c, f, IF f = "onchain" THEN "null" ELSE "threw", 0)
    BY <1>1, <2>1, <2>2, QuietTurn
  <2>4. QED
    BY <2>3
<1>7. CASE Stored(c, f)
  <2> DEFINE stage == IF f = "oracle" THEN "storeFallback" ELSE "value"
  <2>1. /\ At(c, f, "store") \/ At(c, f, "storeChain")
        /\ Move(c, f, stage, frame[c][f].born, {})
    BY <1>7 DEF Stored
  <2>2. stage \in StagesOf(f) /\ stage \in Ended \cup Storing
    BY CommonStages DEF StagesOf, Ended, Storing
  <2> HIDE DEF stage
  <2>3. Turn(c, f, stage, frame[c][f].born)
    BY <1>1, <2>1, <2>2, QuietTurn
  <2>4. QED
    BY <2>3
<1>8. CASE StoreFails(c, f)
  <2>1. At(c, f, "store") \/ At(c, f, "storeChain")
    BY <1>8 DEF StoreFails
  <2>2. \/ f \in Pools \cup {"solUsd", "full"} /\ Move(c, f, "threw", 0, {})
        \/ f = "oracle" /\ Move(c, f, "fallback", 0, {})
        \/ f = "unified" /\ Move(c, f, "find", 0, {})
        \/ f \notin Pools \cup {"solUsd", "full", "oracle"} /\ Move(c, f, "null", 0, {})
    BY <1>8 DEF StoreFails, AfterStoreFails, Goto, Pools
  <2>3. \/ "threw" \in StagesOf(f) /\ Move(c, f, "threw", 0, {})
        \/ "fallback" \in StagesOf(f) /\ Move(c, f, "fallback", 0, {})
        \/ "find" \in StagesOf(f) /\ Move(c, f, "find", 0, {})
        \/ "null" \in StagesOf(f) /\ Move(c, f, "null", 0, {})
    BY <2>2 DEF StagesOf, Ended, Pools
  <2>4. \E stage \in StagesOf(f) \cap (Ended \cup {"fallback", "find"}) :
           Move(c, f, stage, 0, {})
    BY <1>3, <2>3
  <2>5. QED
    BY <1>1, <2>1, <2>4, QuietTurn
<1>9. QED
  BY <1>4, <1>5, <1>6, <1>7, <1>8

\* The calls that Shyft and Pyth answer, and what is put together of theirs.
LEMMA SourceStepIsTurn ==
    ASSUME NEW c \in Callers, Asked(c),
           \/ \E f \in Pools : FetchPools(c, f)
           \/ PriceInSol(c) \/ SolUsdRate(c) \/ FullPrice(c)
           \/ FetchPyth(c) \/ StoreFallback(c) \/ Fallback(c)
           \/ FetchPoolInfo(c) \/ FetchSupply(c) \/ MarketCap(c)
    PROVE  \E f \in Functions : \E stage, born : Turn(c, f, stage, born)
<1> DEFINE quiet == Ended \cup Storing \cup {"fallback", "find"}
<1>1. ASSUME NEW f \in Functions \ {"unified"}, frame[c][f].stage \in Pending,
             \E stage \in StagesOf(f) \cap quiet : \E born : Move(c, f, stage, born, {})
      PROVE  \E g \in Functions : \E stage, born : Turn(c, g, stage, born)
  BY <1>1, QuietTurn
<1>2. \A s \in {"work", "usdt", "storeFallback", "fallback"} : s \in Pending
  BY DEF Pending, Waiting, Later, Storing
<1>3. {"value", "null", "threw", "store", "storeFallback", "fallback"} \subseteq quiet
  BY DEF Ended, Storing
<1>4. ASSUME NEW f \in Pools \cup {"inSol", "full", "supply", "cap"}
      PROVE  {"store", "null", "threw"} \subseteq StagesOf(f) \cap quiet
             /\ f \in Functions \ {"unified"}
  BY <1>3 DEF StagesOf, Ended, Pools, Functions
<1> HIDE DEF quiet
<1>5. CASE \E f \in Pools : FetchPools(c, f)
  <2>1. PICK f \in Pools : FetchPools(c, f)
    BY <1>5
  <2>2. /\ At(c, f, "work")
        /\ \E stage \in {"store", "null", "threw"} : \E born : Move(c, f, stage, born, {})
    BY <2>1 DEF FetchPools, Keep, Goto
  <2>3. QED
    BY <1>1, <1>2, <1>4, <2>2 DEF At
<1>6. CASE PriceInSol(c)
  <2>1. /\ At(c, "inSol", "work")
        /\ \E stage \in {"store", "null"} : \E born : Move(c, "inSol", stage, born, {})
    BY <1>6 DEF PriceInSol, Keep, Goto
  <2>2. QED
    BY <1>1, <1>2, <1>4, <2>1 DEF At
<1>7. CASE SolUsdRate(c)
  <2>1. /\ At(c, "solUsd", "work") \/ At(c, "solUsd", "usdt")
        /\ \/ \E stage \in {"store", "threw"} : \E born : Move(c, "solUsd", stage, born, {})
           \/ Move(c, "solUsd", "usdt", 0, {"poolsUsdt"})
    BY <1>7 DEF SolUsdRate, Keep, Goto, Ask
  <2>2. /\ "solUsd" \in Functions \ {"unified"}
        /\ {"store", "threw"} \subseteq StagesOf("solUsd") \cap quiet
        /\ "usdt" \in StagesOf("solUsd") /\ Awaited("solUsd", "usdt") = {"poolsUsdt"}
    BY <1>3 DEF StagesOf, Functions, Awaited
  <2>3. frame[c]["solUsd"].stage \in Pending
    BY <1>2, <2>1 DEF At
  <2>4. CASE Move(c, "solUsd", "usdt", 0, {"poolsUsdt"})
    <3>1. Turn(c, "solUsd", "usdt", 0)
      BY <2>2, <2>3, <2>4 DEF Turn
    <3>2. QED
      BY <2>2, <3>1
  <2>5. QED
    BY <1>1, <2>1, <2>2, <2>3, <2>4
<1>8. CASE FullPrice(c)
  <2>1. /\ At(c, "full", "work")
        /\ \E stage \in {"store", "null", "threw"} : \E born : Move(c, "full", stage, born, {})
    BY <1>8 DEF FullPrice, Keep, Goto
  <2>2. QED
    BY <1>1, <1>2, <1>4, <2>1 DEF At
<1>9. CASE FetchPyth(c) \/ StoreFallback(c) \/ Fallback(c)
  <2>1. /\ At(c, "oracle", "work") \/ At(c, "oracle", "storeFallback") \/ At(c, "oracle", "fallback")
        /\ \E stage \in {"store", "value", "null", "threw", "fallback"} :
              \E born : Move(c, "oracle", stage, born, {})
    BY <1>9 DEF FetchPyth, StoreFallback, Fallback, Keep, Goto
  <2>2. /\ {"store", "value", "null", "threw", "fallback"} \subseteq StagesOf("oracle") \cap quiet
        /\ "oracle" \in Functions \ {"unified"}
    BY <1>3 DEF StagesOf, Ended, Functions
  <2>3. frame[c]["oracle"].stage \in Pending
    BY <1>2, <2>1 DEF At
  <2>4. QED
    BY <1>1, <2>1, <2>2, <2>3
<1>10. CASE FetchPoolInfo(c)
  <2>1. /\ At(c, "onchain", "work")
        /\ \E stage \in {"store", "null"} : \E born : Move(c, "onchain", stage, born, {})
    BY <1>10 DEF FetchPoolInfo, Keep, Goto
  <2>2. /\ {"store", "null"} \subseteq StagesOf("onchain") \cap quiet
        /\ "onchain" \in Functions \ {"unified"}
    BY <1>3 DEF StagesOf, Functions
  <2>3. QED
    BY <1>1, <1>2, <2>1, <2>2 DEF At
<1>11. CASE FetchSupply(c)
  <2>1. /\ At(c, "supply", "work")
        /\ \E stage \in {"store", "null"} : \E born : Move(c, "supply", stage, born, {})
    BY <1>11 DEF FetchSupply, Keep, Goto
  <2>2. QED
    BY <1>1, <1>2, <1>4, <2>1 DEF At
<1>12. CASE MarketCap(c)
  <2>1. /\ At(c, "cap", "work")
        /\ \E stage \in {"store", "null"} : \E born : Move(c, "cap", stage, born, {})
    BY <1>12 DEF MarketCap, Keep, Goto
  <2>2. QED
    BY <1>1, <1>2, <1>4, <2>1 DEF At
<1>13. QED
  BY <1>5, <1>6, <1>7, <1>8, <1>9, <1>10, <1>11, <1>12

\* PriceService.getTokenPrice.
LEMMA PriceServiceStepIsTurn ==
    ASSUME NEW c \in Callers, Asked(c),
           Rate(c) \/ ShyftPrice(c) \/ FindPools(c) \/ OnchainPrice(c)
    PROVE  \E stage, born : Turn(c, "unified", stage, born)
<1>1. /\ "unified" \in Functions
      /\ \A s \in {"work", "pools", "shyft", "find", "chain"} : s \in Pending
      /\ {"null", "threw", "find", "store", "storeChain"}
            \subseteq StagesOf("unified") \cap (Ended \cup Storing \cup {"fallback", "find"})
  BY DEF Functions, Pending, Waiting, Later, StagesOf, Ended, Storing
<1>2. /\ {"pools", "shyft", "chain"} \subseteq StagesOf("unified") \ {"idle", "called", "work"}
      /\ Awaited("unified", "pools") = {"solUsd"} /\ Awaited("unified", "shyft") = {"full"}
      /\ Awaited("unified", "chain") = {"onchain"}
  BY DEF StagesOf, Awaited
<1>3. ASSUME NEW s \in {"work", "pools", "find", "chain"}, At(c, "unified", s)
      PROVE  frame[c]["unified"].stage \in Pending /\ ~At(c, "unified", "shyft")
  BY <1>1, <1>3 DEF At
<1>4. CASE Rate(c)
  <2>1. /\ At(c, "unified", "work") \/ At(c, "unified", "pools")
        /\ \/ Move(c, "unified", "shyft", 0, {"full"})
           \/ Move(c, "unified", "pools", 0, {"solUsd"})
           \/ Move(c, "unified", "threw", 0, {})
    BY <1>4 DEF Rate, RateOf, Ask, Goto
  <2>2. CASE Move(c, "unified", "threw", 0, {})
    BY <1>1, <1>3, <2>1, <2>2, QuietTurn
  <2>3. CASE Move(c, "unified", "shyft", 0, {"full"}) \/ Move(c, "unified", "pools", 0, {"solUsd"})
    BY <1>2, <1>3, <2>1, <2>3 DEF Turn
  <2>4. QED
    BY <2>1, <2>2, <2>3
<1>5. CASE ShyftPrice(c)
  <2>1. /\ At(c, "unified", "shyft")
        /\ At(c, "full", "value") \/ At(c, "full", "null") \/ At(c, "full", "threw")
        /\ \E stage \in {"store", "find"} : \E born : Move(c, "unified", stage, born, {})
    BY <1>5 DEF ShyftPrice, Nothing, Useless, Keep, Goto
  <2>2. Over(c, "full") /\ frame[c]["unified"].stage \in Pending
    BY <1>1, <2>1 DEF Over, At, Ended
  <2>3. QED
    BY <1>1, <2>1, <2>2, QuietTurn
<1>6. CASE FindPools(c)
  <2>1. /\ At(c, "unified", "find")
        /\ Move(c, "unified", "chain", 0, {"onchain"}) \/ Move(c, "unified", "null", 0, {})
    BY <1>6 DEF FindPools, Ask, Goto
  <2>2. CASE Move(c, "unified", "null", 0, {})
    BY <1>1, <1>3, <2>1, <2>2, QuietTurn
  <2>3. CASE Move(c, "unified", "chain", 0, {"onchain"})
    BY <1>2, <1>3, <2>1, <2>3 DEF Turn
  <2>4. QED
    BY <2>1, <2>2, <2>3
<1>7. CASE OnchainPrice(c)
  <2>1. /\ At(c, "unified", "chain")
        /\ \E stage \in {"storeChain", "null"} : \E born : Move(c, "unified", stage, born, {})
    BY <1>7 DEF OnchainPrice, Goto
  <2>2. QED
    BY <1>1, <1>3, <2>1, QuietTurn
<1>8. QED
  BY <1>4, <1>5, <1>6, <1>7

LEMMA StepIsTurn ==
    ASSUME NEW c \in Callers, Asked(c), Step(c)
    PROVE  \E f \in Functions : \E stage, born : Turn(c, f, stage, born)
<1>1. "unified" \in Functions
  BY DEF Functions
<1>2. QED
  BY <1>1, CacheStepIsTurn, SourceStepIsTurn, PriceServiceStepIsTurn DEF Step

LEMMA StepKeepsAsked ==
    ASSUME Typed, NEW c \in Callers, NEW d \in Callers, Asked(c), Asked(d), Step(c)
    PROVE  Asked(d)'
<1>1. PICK f \in Functions : \E stage, born : Turn(c, f, stage, born)
  BY StepIsTurn
<1>2. CASE d = c
  BY <1>1, <1>2, TurnKeepsAsked
<1>3. CASE d # c
  <2>1. frame'[d] = frame[d]
    BY <1>1, <1>3 DEF Turn, Move, Typed
  <2>2. QED
    BY <2>1 DEF Asked, At
<1>4. QED
  BY <1>2, <1>3

\* A call begins with one function, of those that nobody waits for.
LEMMA CallKeepsAsked ==
    ASSUME Typed, NEW c \in Callers, NEW f \in roster.asks[c], Call(c, f),
           NEW d \in Callers, Asked(d)
    PROVE  Asked(d)'
<1>1. CASE d # c
  <2>1. frame'[d] = frame[d]
    BY <1>1 DEF Call, Typed
  <2>2. QED
    BY <2>1 DEF Asked, At
<1>2. CASE d = c
  <2>1. f \in {"cap", "unified", "solUsd"}
    BY PriceAssumption DEF Typed
  <2>2. \A g \in Functions : frame'[c][g] = IF g = f THEN Called ELSE Idle
    BY DEF Call, Typed
  <2>3. \A g \in Functions : frame'[c][g].stage = IF g = f THEN "called" ELSE "idle"
    BY <2>2 DEF Called, Idle
  <2>4. \A g \in Functions : Awaited(g, frame'[c][g].stage) = {}
    BY <2>3 DEF Awaited
  <2>5. \A g \in Functions : frame'[c][g].stage \in StagesOf(g)
    BY <2>3, CommonStages
  <2>6. /\ "full" \in Functions /\ "cap" \in Functions /\ "unified" \in Functions
        /\ "idle" \notin Pending
    BY StageSets DEF Functions
  <2>7. frame'[c]["full"].stage \notin Pending
    BY <2>1, <2>3, <2>6
  <2>8. frame'[c]["cap"].stage = "called" => frame'[c]["unified"].stage = "idle"
    BY <2>3, <2>6
  <2>9. QED
    BY <1>2, <2>4, <2>5, <2>7, <2>8 DEF Asked, At
<1>3. QED
  BY <1>1, <1>2

LEMMA InitAsked == Init => \A c \in Callers : Asked(c)
<1> SUFFICES ASSUME Init, NEW c \in Callers PROVE Asked(c)
  OBVIOUS
<1>1. \A g \in Functions : frame[c][g].stage = "idle"
  BY DEF Init, Idle
<1>2. \A g \in Functions : Awaited(g, "idle") = {} /\ "idle" \in StagesOf(g)
  BY CommonStages DEF Awaited
<1>3. {"full", "cap", "unified"} \subseteq Functions /\ "idle" \notin Pending
  BY StageSets DEF Functions
<1>4. QED
  BY <1>1, <1>2, <1>3 DEF Asked, At

\* What is not awaited, or not pending any more, has ended.
LEMMA HasEnded ==
    ASSUME NEW c \in Callers, Asked(c), NEW f \in Functions,
           frame[c][f].stage \in Pending,
           \A g \in Awaited(f, frame[c][f].stage) : frame[c][g].stage \notin Pending
    PROVE  CanGoOn(c, f)
<1>1. ASSUME NEW g \in Awaited(f, frame[c][f].stage)
      PROVE  Over(c, g)
  <2>1. g \in Functions
    BY AskedFunctions DEF Asked
  <2>2. frame[c][g].stage \in StagesOf(g) /\ frame[c][g].stage # "idle"
    BY <2>1 DEF Asked, At
  <2>3. StagesOf(g) \subseteq {"idle"} \cup Pending \cup Ended
    BY <2>1 DEF StagesOf, Pending, Waiting, Later, Storing, Ended
  <2>4. QED
    BY <2>2, <2>3 DEF Over
<1>2. QED
  BY <1>1 DEF CanGoOn

\* From the caches nobody is asked behind, up to getMarketCap.
LEMMA SomebodyIsReady ==
    ASSUME NEW c \in Callers, Asked(c), Running(c)
    PROVE  \E f \in Functions : CanGoOn(c, f)
<1> SUFFICES ASSUME \A f \in Functions : ~CanGoOn(c, f)
             PROVE  FALSE
  OBVIOUS
<1> DEFINE done(f) == frame[c][f].stage \notin Pending
<1>1. ASSUME NEW f \in Functions, \A g \in Awaited(f, frame[c][f].stage) : done(g)
      PROVE  done(f)
  BY <1>1, HasEnded
<1>2. \A f \in Functions : frame[c][f].stage \in StagesOf(f)
  BY DEF Asked
<1> HIDE DEF done
<1>3. \A f \in Pools \cup {"supply", "oracle", "onchain"} : done(f)
  <2> SUFFICES ASSUME NEW f \in Pools \cup {"supply", "oracle", "onchain"}
               PROVE  done(f)
    OBVIOUS
  <2>1. f \in Functions
    BY DEF Functions, Pools
  <2>2. \A s \in StagesOf(f) : Awaited(f, s) = {}
    BY DEF Awaited, First, StagesOf, Ended, Pools
  <2>3. QED
    BY <1>1, <1>2, <2>1, <2>2
<1>4. done("inSol")
  <2>1. "inSol" \in Functions /\ "poolsSol" \in Pools
    BY DEF Functions, Pools
  <2>2. \A s \in StagesOf("inSol") : Awaited("inSol", s) \subseteq {"poolsSol"}
    BY DEF Awaited, First, StagesOf, Ended
  <2>3. QED
    BY <1>1, <1>2, <1>3, <2>1, <2>2
<1>5. done("solUsd")
  <2>1. "solUsd" \in Functions /\ {"poolsUsdc", "poolsUsdt"} \subseteq Pools
    BY DEF Functions, Pools
  <2>2. \A s \in StagesOf("solUsd") :
           Awaited("solUsd", s) \subseteq {"poolsUsdc", "poolsUsdt"}
    BY DEF Awaited, First, StagesOf, Ended
  <2>3. QED
    BY <1>1, <1>2, <1>3, <2>1, <2>2
<1>6. done("full")
  <2>1. "full" \in Functions
    BY DEF Functions
  <2>2. \A s \in StagesOf("full") : Awaited("full", s) \subseteq {"inSol", "solUsd"}
    BY DEF Awaited, First, StagesOf, Ended
  <2>3. QED
    BY <1>1, <1>2, <1>4, <1>5, <2>1, <2>2
<1>7. done("unified")
  <2>1. "unified" \in Functions
    BY DEF Functions
  <2>2. \A s \in StagesOf("unified") :
           Awaited("unified", s) \subseteq {"oracle", "solUsd", "full", "onchain"}
    BY DEF Awaited, First, StagesOf, Ended
  <2>3. QED
    BY <1>1, <1>2, <1>3, <1>5, <1>6, <2>1, <2>2
<1>8. done("cap")
  <2>1. "cap" \in Functions
    BY DEF Functions
  <2>2. \A s \in StagesOf("cap") : Awaited("cap", s) \subseteq {"unified", "supply"}
    BY DEF Awaited, First, StagesOf, Ended
  <2>3. QED
    BY <1>1, <1>2, <1>3, <1>7, <2>1, <2>2
<1>9. \A f \in Functions : done(f)
  BY <1>3, <1>4, <1>5, <1>6, <1>7, <1>8 DEF Functions, Pools
<1>10. QED
  BY <1>9 DEF Running, done

LEMMA WInvHolds == Spec => []WInv
<1>1. Init /\ Typed => WInv
  BY InitAsked DEF WInv
<1>2. ASSUME WInv, [Next]_vars, Typed'
      PROVE  WInv'
  <2> SUFFICES ASSUME NEW d \in Callers PROVE Asked(d)'
    BY <1>2 DEF WInv
  <2>1. Typed /\ \A c \in Callers : Asked(c)
    BY <1>2 DEF WInv
  <2>2. CASE \E c \in Callers : \E f \in roster.asks[c] : Call(c, f)
    BY <2>1, <2>2, CallKeepsAsked
  <2>3. CASE \E c \in Callers : Step(c)
    BY <2>1, <2>3, StepKeepsAsked
  <2>4. CASE Tick \/ UNCHANGED vars
    <3>1. frame' = frame
      BY <2>4 DEF Tick, vars
    <3>2. QED
      BY <2>1, <3>1 DEF Asked, At
  <2>5. QED
    BY <1>2, <2>2, <2>3, <2>4 DEF Next
<1>3. IInv => Typed
  BY DEF IInv
<1>4. QED
  BY <1>1, <1>2, <1>3, InvariantHolds, PTL DEF Spec

\* No call waits for what was never asked for, or for itself: as long as a
\* call is under way, one of its functions has all the answers it waits for
\* (MarketCapCalculator.ts:223-228, PriceService.ts:65-157,
\* ShyftPriceCalculator.ts:192-195, and what Promise.all leaves behind).
THEOREM SomebodyGoesOn == Spec => []SomebodyCanGoOn
<1>1. WInv => SomebodyCanGoOn
  BY SomebodyIsReady DEF WInv, SomebodyCanGoOn
<1>2. QED
  BY <1>1, WInvHolds, PTL

-----------------------------------------------------------------------------
\* Going on is a step of the code: first what cache.get and cache.set do.
LEMMA GoOnAtCache ==
    ASSUME NEW c \in Callers, Asked(c), NEW f \in Functions, GoOn(c, f),
           frame[c][f].stage \in {"called", "store", "storeChain"}
    PROVE  Hit(c, f) \/ Miss(c, f) \/ Stored(c, f)
<1>1. /\ Move(c, f, NextStage(c, f), NextBorn(c, f), Awaited(f, NextStage(c, f)))
      /\ UNCHANGED <<book, faults>>
  BY DEF GoOn
<1>2. UNCHANGED rate
  BY DEF GoOn, At
<1>3. CASE At(c, f, "called") /\ Live(f)
  <2>1. NextStage(c, f) = "value"
    BY <1>3 DEF NextStage, Onward, At
  <2>2. NextBorn(c, f) = cache[f].born
    BY <1>3, <2>1 DEF NextBorn, BornLater, At
  <2>3. Awaited(f, "value") = {}
    BY Quiet DEF Ended
  <2>4. UNCHANGED cache
    BY <1>3 DEF GoOn, At
  <2>5. QED
    BY <1>1, <1>2, <1>3, <2>1, <2>2, <2>3, <2>4 DEF Hit
<1>4. CASE At(c, f, "called") /\ ~Live(f)
  <2>1. NextStage(c, f) = "work"
    BY <1>4 DEF NextStage, Onward, At
  <2>2. NextBorn(c, f) = 0
    BY <2>1 DEF NextBorn, Storing
  <2>3. Awaited(f, "work") = First(f)
    BY DEF Awaited
  <2>4. UNCHANGED cache
    BY <1>4 DEF GoOn, At
  <2>5. QED
    BY <1>1, <1>2, <1>4, <2>1, <2>2, <2>3, <2>4 DEF Miss, Ask
<1>5. CASE At(c, f, "store") \/ At(c, f, "storeChain")
  <2> DEFINE stage == IF f = "oracle" THEN "storeFallback" ELSE "value"
  <2>1. At(c, f, "storeChain") => f = "unified"
    BY DEF At, Asked, StagesOf, Ended
  <2>2. NextStage(c, f) = stage
    BY <1>5, <2>1 DEF NextStage, Onward, At
  <2>3. NextBorn(c, f) = frame[c][f].born
    BY <1>5, <2>2 DEF NextBorn, BornLater, At, Storing
  <2>4. Awaited(f, stage) = {}
    BY Quiet DEF Ended, Storing
  <2>5. cache' = Entry(f, frame[c][f].born)
    BY <1>5 DEF GoOn, At
  <2>6. QED
    BY <1>1, <1>2, <1>5, <2>2, <2>3, <2>4, <2>5 DEF Stored
<1>6. QED
  BY <1>3, <1>4, <1>5 DEF At

\* What every other step shares.
LEMMA GoOnElsewhere ==
    ASSUME NEW c \in Callers, NEW f \in Functions, GoOn(c, f),
           frame[c][f].stage \notin {"called", "store", "storeChain", "storeFallback"}
    PROVE  /\ Move(c, f, NextStage(c, f), NextBorn(c, f), Awaited(f, NextStage(c, f)))
           /\ UNCHANGED <<book, cache>> /\ Well
           /\ f # "unified" => UNCHANGED rate
  BY DEF GoOn, At, Well

\* A function that asks the network.
LEMMA GoOnFetching ==
    ASSUME NEW c \in Callers, NEW f \in Pools \cup {"oracle", "onchain", "supply"},
           GoOn(c, f), At(c, f, "work")
    PROVE  Step(c)
<1>1. f \in Functions
  BY DEF Functions, Pools
<1>2. UNCHANGED <<book, cache, rate>> /\ Well
  BY <1>1, GoOnElsewhere DEF At, Pools
<1>3. NextStage(c, f) = "store"
  BY DEF NextStage, Worked, Pools
<1>4. NextBorn(c, f) = now
  BY <1>3 DEF NextBorn, BornAtWork, Storing, Pools
<1>5. Awaited(f, "store") = {}
  BY DEF Awaited
<1>6. Keep(c, f, now)
  BY <1>1, <1>3, <1>4, <1>5, GoOnElsewhere DEF At, Keep
<1>7. \/ f \in Pools /\ FetchPools(c, f)
      \/ f = "oracle" /\ FetchPyth(c)
      \/ f = "onchain" /\ FetchPoolInfo(c)
      \/ f = "supply" /\ FetchSupply(c)
  BY <1>2, <1>6 DEF FetchPools, FetchPyth, FetchPoolInfo, FetchSupply
<1>8. QED
  BY <1>7 DEF Step

\* What a function that has ended may have answered.
LEMMA Answers ==
    ASSUME NEW c \in Callers, Asked(c), NEW g \in Functions, Over(c, g)
    PROVE  /\ At(c, g, "value") \/ At(c, g, "null") \/ At(c, g, "threw")
           /\ g = "solUsd" => ~At(c, g, "null")
           /\ g = "onchain" => ~At(c, g, "threw")
<1>1. At(c, g, "value") \/ At(c, g, "null") \/ At(c, g, "threw")
  BY DEF Over, Ended, At
<1>2. frame[c][g].stage \in StagesOf(g)
  BY DEF Asked
<1>3. "null" \notin StagesOf("solUsd") /\ "threw" \notin StagesOf("onchain")
  BY DEF StagesOf, Ended
<1>4. QED
  BY <1>1, <1>2, <1>3 DEF At

\* The oracle and its second key.
LEMMA GoOnAtFallback ==
    ASSUME NEW c \in Callers, Asked(c), NEW f \in Functions, GoOn(c, f),
           At(c, f, "storeFallback") \/ At(c, f, "fallback")
    PROVE  StoreFallback(c) \/ Fallback(c)
<1>1. f = "oracle"
  BY DEF At, Asked, StagesOf, Ended
<1>2. /\ Move(c, f, NextStage(c, f), NextBorn(c, f), Awaited(f, NextStage(c, f)))
      /\ UNCHANGED <<book, rate, faults>>
  BY <1>1 DEF GoOn
<1>3. Awaited(f, "value") = {} /\ Awaited(f, "null") = {}
  BY Quiet DEF Ended
<1>4. CASE At(c, f, "storeFallback")
  <2>1. NextStage(c, f) = "value"
    BY <1>4 DEF NextStage, Onward, At
  <2>2. NextBorn(c, f) = frame[c][f].born
    BY <1>4, <2>1 DEF NextBorn, BornLater, At
  <2>3. cache' = Entry("fallback", frame[c][f].born)
    BY <1>4 DEF GoOn, At
  <2>4. StoreFallback(c)
    BY <1>1, <1>2, <1>3, <1>4, <2>1, <2>2, <2>3 DEF StoreFallback
  <2>5. QED
    BY <2>4
<1>5. CASE At(c, f, "fallback")
  <2>1. UNCHANGED cache
    BY <1>5 DEF GoOn, At
  <2>2. NextStage(c, f) = IF Live("fallback") THEN "value" ELSE "null"
    BY <1>5 DEF NextStage, Onward, At
  <2>3. CASE Live("fallback")
    <3>1. NextBorn(c, f) = cache["fallback"].born
      BY <1>5, <2>2, <2>3 DEF NextBorn, BornLater, At
    <3>2. Fallback(c)
      BY <1>1, <1>2, <1>3, <1>5, <2>1, <2>2, <2>3, <3>1 DEF Fallback
    <3>3. QED
      BY <3>2
  <2>4. CASE ~Live("fallback")
    <3>1. NextBorn(c, f) = 0
      BY <2>2, <2>4 DEF NextBorn, Storing
    <3>2. Fallback(c)
      BY <1>1, <1>2, <1>3, <1>5, <2>1, <2>2, <2>4, <3>1 DEF Fallback, Goto
    <3>3. QED
      BY <3>2
  <2>5. QED
    BY <2>3, <2>4
<1>6. QED
  BY <1>4, <1>5

\* From a step of the price's sources on, three outcomes suffice.
LEMMA GoOnOutcome ==
    ASSUME NEW c \in Callers, NEW f \in Functions, GoOn(c, f),
           frame[c][f].stage \in Waiting
    PROVE  /\ UNCHANGED <<book, cache>> /\ Well
           /\ f # "unified" => UNCHANGED rate
           /\ NextStage(c, f) = "store" => Keep(c, f, NextBorn(c, f))
           /\ NextStage(c, f) \in {"null", "threw", "find"} => Goto(c, f, NextStage(c, f))
           /\ NextStage(c, f) \in {"usdt", "pools", "shyft", "chain"} =>
                 Ask(c, f, NextStage(c, f), Awaited(f, NextStage(c, f)))
<1>1. frame[c][f].stage \notin {"called", "store", "storeChain", "storeFallback"}
  BY DEF Waiting, Later
<1>2. /\ Awaited(f, "store") = {} /\ Awaited(f, "null") = {}
      /\ Awaited(f, "threw") = {} /\ Awaited(f, "find") = {}
  BY Quiet DEF Ended, Storing
<1>3. NextStage(c, f) \notin {"value"} \cup Storing => NextBorn(c, f) = 0
  BY DEF NextBorn
<1>4. QED
  BY <1>1, <1>2, <1>3, GoOnElsewhere DEF Keep, Goto, Ask, Storing

\* Those that put together what others answered, but for getTokenPrice of
\* PriceService.
LEMMA GoOnCombining ==
    ASSUME NEW c \in Callers, Asked(c), NEW f \in {"inSol", "solUsd", "full", "cap"},
           GoOn(c, f), frame[c][f].stage \in Waiting
    PROVE  Step(c)
<1>1. f \in Functions /\ f # "unified"
  BY DEF Functions
<1>2. At(c, f, "work") \/ (f = "solUsd" /\ At(c, f, "usdt"))
  <2>1. frame[c][f].stage \in StagesOf(f)
    BY <1>1 DEF Asked
  <2>2. CASE f = "solUsd"
    BY <2>1, <2>2 DEF StagesOf, Waiting, Later, Ended, At
  <2>3. CASE f # "solUsd"
    <3>1. StagesOf(f) = {"idle", "called", "work", "store"} \cup Ended
      BY <2>3 DEF StagesOf
    <3>2. QED
      BY <2>1, <3>1 DEF Waiting, Later, Ended, At
  <2>4. QED
    BY <2>2, <2>3
<1>3. UNCHANGED <<book, cache, rate, faults>> /\ Well
  BY <1>1, GoOnOutcome DEF Well
<1>4. \A g \in Awaited(f, frame[c][f].stage) : Over(c, g)
  BY DEF GoOn, CanGoOn
<1>5. /\ NextStage(c, f) = "store" => Keep(c, f, NextBorn(c, f))
      /\ NextStage(c, f) \in {"null", "threw"} => Goto(c, f, NextStage(c, f))
      /\ NextStage(c, f) = "usdt" => Ask(c, f, "usdt", Awaited(f, "usdt"))
  BY <1>1, GoOnOutcome
<1>6. At(c, f, "work") => NextStage(c, f) = Worked(c, f)
  BY DEF NextStage
<1>7. At(c, f, "work") /\ NextStage(c, f) = "store" => NextBorn(c, f) = BornAtWork(c, f)
  BY DEF NextBorn, Storing
<1>8. CASE f = "inSol"
  <2>1. At(c, "inSol", "work")
    BY <1>2, <1>8
  <2>2. Over(c, "poolsSol") /\ "poolsSol" \in Functions
    BY <1>4, <1>8, <2>1 DEF At, Awaited, First, Functions
  <2>3. CASE At(c, "poolsSol", "value")
    <3>1. NextStage(c, f) = "store" /\ NextBorn(c, f) = frame[c]["poolsSol"].born
      BY <1>6, <1>7, <1>8, <2>1, <2>3 DEF Worked, BornAtWork
    <3>2. PriceInSol(c)
      BY <1>3, <1>5, <1>8, <2>1, <2>3, <3>1 DEF PriceInSol
    <3>3. QED
      BY <3>2 DEF Step
  <2>4. CASE ~At(c, "poolsSol", "value")
    <3>1. NextStage(c, f) = "null"
      BY <1>6, <1>8, <2>1, <2>4 DEF Worked
    <3>2. At(c, "poolsSol", "null") \/ At(c, "poolsSol", "threw")
      BY <2>2, <2>4, Answers
    <3>3. PriceInSol(c)
      BY <1>3, <1>5, <1>8, <2>1, <3>1, <3>2 DEF PriceInSol, Nothing
    <3>4. QED
      BY <3>3 DEF Step
  <2>5. QED
    BY <2>3, <2>4
<1>9. CASE f = "solUsd" /\ At(c, f, "work")
  <2>1. Over(c, "poolsUsdc") /\ "poolsUsdc" \in Functions
    BY <1>4, <1>9 DEF At, Awaited, First, Functions
  <2>2. Awaited(f, "usdt") = {"poolsUsdt"}
    BY DEF Awaited
  <2>3. CASE At(c, "poolsUsdc", "value")
    <3>1. NextStage(c, f) = "store" /\ NextBorn(c, f) = frame[c]["poolsUsdc"].born
      BY <1>6, <1>7, <1>9, <2>3 DEF Worked, BornAtWork
    <3>2. SolUsdRate(c)
      BY <1>3, <1>5, <1>9, <2>3, <3>1 DEF SolUsdRate
    <3>3. QED
      BY <3>2 DEF Step
  <2>4. CASE At(c, "poolsUsdc", "null")
    <3>1. NextStage(c, f) = "usdt"
      BY <1>6, <1>9, <2>4 DEF Worked, At
    <3>2. SolUsdRate(c)
      BY <1>3, <1>5, <1>9, <2>2, <2>4, <3>1 DEF SolUsdRate, Nothing
    <3>3. QED
      BY <3>2 DEF Step
  <2>5. CASE At(c, "poolsUsdc", "threw")
    <3>1. NextStage(c, f) = "threw"
      BY <1>6, <1>9, <2>5 DEF Worked, At
    <3>2. SolUsdRate(c)
      BY <1>3, <1>5, <1>9, <2>5, <3>1 DEF SolUsdRate, Nothing
    <3>3. QED
      BY <3>2 DEF Step
  <2>6. QED
    BY <2>1, <2>3, <2>4, <2>5, Answers
<1>10. CASE f = "solUsd" /\ At(c, f, "usdt")
  <2>1. Over(c, "poolsUsdt") /\ "poolsUsdt" \in Functions
    BY <1>4, <1>10 DEF At, Awaited, Functions
  <2>2. NextStage(c, f) = IF At(c, "poolsUsdt", "value") THEN "store" ELSE "threw"
    BY <1>10 DEF NextStage, Onward, At
  <2>3. CASE At(c, "poolsUsdt", "value")
    <3>1. NextBorn(c, f) = frame[c]["poolsUsdt"].born
      BY <1>10, <2>2, <2>3 DEF NextBorn, BornLater, At, Storing
    <3>2. SolUsdRate(c)
      BY <1>3, <1>5, <1>10, <2>2, <2>3, <3>1 DEF SolUsdRate
    <3>3. QED
      BY <3>2 DEF Step
  <2>4. CASE ~At(c, "poolsUsdt", "value")
    <3>1. At(c, "poolsUsdt", "null") \/ At(c, "poolsUsdt", "threw")
      BY <2>1, <2>4, Answers
    <3>2. SolUsdRate(c)
      BY <1>3, <1>5, <1>10, <2>2, <2>4, <3>1 DEF SolUsdRate, Nothing
    <3>3. QED
      BY <3>2 DEF Step
  <2>5. QED
    BY <2>3, <2>4
<1>11. CASE f = "full"
  <2>1. At(c, "full", "work")
    BY <1>2, <1>11
  <2>2. /\ Over(c, "inSol") /\ "inSol" \in Functions
        /\ Over(c, "solUsd") /\ "solUsd" \in Functions
    BY <1>4, <1>11, <2>1 DEF At, Awaited, First, Functions
  <2>3. CASE At(c, "inSol", "threw") \/ At(c, "solUsd", "threw")
    <3>1. NextStage(c, f) = "threw"
      BY <1>6, <1>11, <2>1, <2>3 DEF Worked
    <3>2. FullPrice(c)
      BY <1>3, <1>5, <1>11, <2>1, <2>3, <3>1 DEF FullPrice
    <3>3. QED
      BY <3>2 DEF Step
  <2>4. CASE At(c, "inSol", "null") /\ At(c, "solUsd", "value")
    <3>1. NextStage(c, f) = "null"
      BY <1>6, <1>11, <2>1, <2>4 DEF Worked, At
    <3>2. FullPrice(c)
      BY <1>3, <1>5, <1>11, <2>1, <2>4, <3>1 DEF FullPrice
    <3>3. QED
      BY <3>2 DEF Step
  <2>5. CASE At(c, "inSol", "value") /\ At(c, "solUsd", "value")
    <3>1. NextStage(c, f) = "store"
      BY <1>6, <1>11, <2>1, <2>5 DEF Worked, At
    <3>2. NextBorn(c, f) = Oldest(frame[c]["inSol"].born, frame[c]["solUsd"].born)
      BY <1>7, <1>11, <2>1, <3>1 DEF BornAtWork
    <3>3. FullPrice(c)
      BY <1>3, <1>5, <1>11, <2>1, <2>5, <3>1, <3>2 DEF FullPrice
    <3>4. QED
      BY <3>3 DEF Step
  <2>6. QED
    BY <2>2, <2>3, <2>4, <2>5, Answers
<1>12. CASE f = "cap"
  <2>1. At(c, "cap", "work")
    BY <1>2, <1>12
  <2>2. /\ Over(c, "unified") /\ "unified" \in Functions
        /\ Over(c, "supply") /\ "supply" \in Functions
    BY <1>4, <1>12, <2>1 DEF At, Awaited, First, Functions
  <2>3. CASE At(c, "unified", "value") /\ At(c, "supply", "value")
    <3>1. NextStage(c, f) = "store"
      BY <1>6, <1>12, <2>1, <2>3 DEF Worked
    <3>2. NextBorn(c, f) = Oldest(frame[c]["unified"].born, frame[c]["supply"].born)
      BY <1>7, <1>12, <2>1, <3>1 DEF BornAtWork
    <3>3. MarketCap(c)
      BY <1>3, <1>5, <1>12, <2>1, <2>3, <3>1, <3>2 DEF MarketCap
    <3>4. QED
      BY <3>3 DEF Step
  <2>4. CASE ~(At(c, "unified", "value") /\ At(c, "supply", "value"))
    <3>1. NextStage(c, f) = "null"
      BY <1>6, <1>12, <2>1, <2>4 DEF Worked
    <3>2. \/ At(c, "unified", "threw") \/ At(c, "supply", "threw")
          \/ At(c, "unified", "null") \/ At(c, "supply", "null")
      BY <2>2, <2>4, Answers
    <3>3. MarketCap(c)
      BY <1>3, <1>5, <1>12, <2>1, <2>2, <3>1, <3>2 DEF MarketCap
    <3>4. QED
      BY <3>3 DEF Step
  <2>5. QED
    BY <2>3, <2>4
<1>13. QED
  BY <1>2, <1>8, <1>9, <1>10, <1>11, <1>12

\* PriceService.getTokenPrice.
LEMMA GoOnPriceService ==
    ASSUME NEW c \in Callers, Asked(c), GoOn(c, "unified"),
           frame[c]["unified"].stage \in Waiting
    PROVE  Step(c)
<1> DEFINE f == "unified"
<1>1. {"unified", "oracle", "solUsd", "full", "onchain"} \subseteq Functions
  BY DEF Functions
<1>2. \/ At(c, f, "work") \/ At(c, f, "pools") \/ At(c, f, "shyft")
      \/ At(c, f, "find") \/ At(c, f, "chain")
  BY <1>1 DEF Asked, StagesOf, Waiting, Later, Ended, At
<1>3. UNCHANGED <<book, cache>> /\ Well
  BY <1>1, GoOnOutcome
<1>4. \A g \in Awaited(f, frame[c][f].stage) : Over(c, g)
  BY DEF GoOn, CanGoOn
<1>5. /\ NextStage(c, f) = "store" => Keep(c, f, NextBorn(c, f))
      /\ NextStage(c, f) \in {"null", "threw", "find"} => Goto(c, f, NextStage(c, f))
      /\ NextStage(c, f) \in {"pools", "shyft", "chain"} =>
            Ask(c, f, NextStage(c, f), Awaited(f, NextStage(c, f)))
  BY <1>1, GoOnOutcome
<1>6. /\ Awaited(f, "pools") = {"solUsd"} /\ Awaited(f, "shyft") = {"full"}
      /\ Awaited(f, "chain") = {"onchain"}
  BY DEF Awaited
<1>7. ASSUME Rate(c) \/ ShyftPrice(c) \/ FindPools(c) \/ OnchainPrice(c)
      PROVE  Step(c)
  BY <1>7 DEF Step
<1>8. CASE At(c, f, "work")
  <2>1. Over(c, "oracle")
    BY <1>4, <1>8 DEF At, Awaited, First
  <2>2. NextStage(c, f) = IF At(c, "oracle", "value") THEN "shyft" ELSE "pools"
    BY <1>8 DEF NextStage, Worked
  <2>3. CASE At(c, "oracle", "value")
    <3>1. rate' = [rate EXCEPT ![c] = frame[c]["oracle"].born]
      BY <1>8, <2>3 DEF GoOn, At
    <3>2. Rate(c)
      BY <1>3, <1>5, <1>6, <1>8, <2>2, <2>3, <3>1 DEF Rate, RateOf
    <3>3. QED
      BY <1>7, <3>2
  <2>4. CASE ~At(c, "oracle", "value")
    <3>1. At(c, "oracle", "null") \/ At(c, "oracle", "threw")
      BY <1>1, <2>1, <2>4, Answers
    <3>2. rate' = rate
      BY <1>8, <2>4 DEF GoOn, At
    <3>3. Rate(c)
      BY <1>3, <1>5, <1>6, <1>8, <2>2, <2>4, <3>1, <3>2 DEF Rate
    <3>4. QED
      BY <1>7, <3>3
  <2>5. QED
    BY <2>3, <2>4
<1>9. CASE At(c, f, "pools")
  <2>1. Over(c, "solUsd")
    BY <1>4, <1>6, <1>9 DEF At
  <2>2. NextStage(c, f) = IF At(c, "solUsd", "value") THEN "shyft" ELSE "threw"
    BY <1>9 DEF NextStage, Onward, At
  <2>3. CASE At(c, "solUsd", "value")
    <3>1. rate' = [rate EXCEPT ![c] = frame[c]["solUsd"].born]
      BY <1>9, <2>3 DEF GoOn, At
    <3>2. Rate(c)
      BY <1>3, <1>5, <1>6, <1>9, <2>2, <2>3, <3>1 DEF Rate, RateOf
    <3>3. QED
      BY <1>7, <3>2
  <2>4. CASE ~At(c, "solUsd", "value")
    <3>1. At(c, "solUsd", "threw")
      BY <1>1, <2>1, <2>4, Answers
    <3>2. rate' = rate
      BY <1>9, <2>4 DEF GoOn, At
    <3>3. Rate(c)
      BY <1>3, <1>5, <1>9, <2>2, <2>4, <3>1, <3>2 DEF Rate
    <3>4. QED
      BY <1>7, <3>3
  <2>5. QED
    BY <2>3, <2>4
<1>10. CASE At(c, f, "shyft") \/ At(c, f, "find") \/ At(c, f, "chain")
  <2>1. rate' = rate
    BY <1>10 DEF GoOn, At
  <2>2. CASE At(c, f, "find")
    <3>1. NextStage(c, f) = "chain"
      BY <2>2 DEF NextStage, Onward, At
    <3>2. FindPools(c)
      BY <1>3, <1>5, <1>6, <2>1, <2>2, <3>1 DEF FindPools
    <3>3. QED
      BY <1>7, <3>2
  <2>3. CASE At(c, f, "shyft") /\ At(c, "full", "value")
    <3>1. NextStage(c, f) = "store"
      BY <2>3 DEF NextStage, Onward, At
    <3>2. NextBorn(c, f) = frame[c]["full"].born
      BY <2>3, <3>1 DEF NextBorn, BornLater, At, Storing
    <3>3. ShyftPrice(c)
      BY <1>3, <1>5, <2>1, <2>3, <3>1, <3>2 DEF ShyftPrice
    <3>4. QED
      BY <1>7, <3>3
  <2>4. CASE At(c, f, "shyft") /\ ~At(c, "full", "value")
    <3>1. Over(c, "full")
      BY <1>4, <1>6, <2>4 DEF At
    <3>2. At(c, "full", "null") \/ At(c, "full", "threw")
      BY <1>1, <2>4, <3>1, Answers
    <3>3. NextStage(c, f) = "find"
      BY <2>4 DEF NextStage, Onward, At
    <3>4. ShyftPrice(c)
      BY <1>3, <1>5, <2>1, <2>4, <3>2, <3>3 DEF ShyftPrice, Nothing
    <3>5. QED
      BY <1>7, <3>4
  <2>5. CASE At(c, f, "chain") /\ At(c, "onchain", "value")
    <3>1. NextStage(c, f) = "storeChain"
      BY <2>5 DEF NextStage, Onward, At
    <3>2. NextBorn(c, f) = UsdPrice(c)
      BY <2>5, <3>1 DEF NextBorn, BornLater, At, Storing
    <3>3. Move(c, f, "storeChain", UsdPrice(c), {})
      BY <3>1, <3>2 DEF GoOn, Awaited
    <3>4. OnchainPrice(c)
      BY <1>3, <2>1, <2>5, <3>3 DEF OnchainPrice
    <3>5. QED
      BY <1>7, <3>4
  <2>6. CASE At(c, f, "chain") /\ ~At(c, "onchain", "value")
    <3>1. Over(c, "onchain")
      BY <1>4, <1>6, <2>6 DEF At
    <3>2. At(c, "onchain", "null")
      BY <1>1, <2>6, <3>1, Answers
    <3>3. NextStage(c, f) = "null"
      BY <2>6 DEF NextStage, Onward, At
    <3>4. OnchainPrice(c)
      BY <1>3, <1>5, <2>1, <2>6, <3>2, <3>3 DEF OnchainPrice, Nothing
    <3>5. QED
      BY <1>7, <3>4
  <2>7. QED
    BY <1>10, <2>2, <2>3, <2>4, <2>5, <2>6
<1>11. QED
  BY <1>2, <1>8, <1>9, <1>10

\* A function of a call that has the answers it waits for knows how to go on
\* from them, whatever they are: going on is one of the steps of the code, and
\* nothing has to fail for it (the functions of MarketCapCalculator.ts:175-295,
\* PriceService.ts:65-157, SolUsdOracle.ts, ShyftPriceCalculator.ts and
\* OnchainPriceCalculator.ts).
THEOREM GoingOnIsAStep ==
    ASSUME NEW c \in Callers, Asked(c), NEW f \in Functions, GoOn(c, f)
    PROVE  Step(c)
<1>1. frame[c][f].stage \in Pending
  BY DEF GoOn, CanGoOn
<1>2. CASE frame[c][f].stage \in {"called", "store", "storeChain"}
  <2>1. Hit(c, f) \/ Miss(c, f) \/ Stored(c, f)
    BY <1>2, GoOnAtCache
  <2>2. QED
    BY <2>1 DEF Step
<1>3. CASE frame[c][f].stage \in {"storeFallback", "fallback"}
  <2>1. StoreFallback(c) \/ Fallback(c)
    BY <1>3, GoOnAtFallback DEF At
  <2>2. QED
    BY <2>1 DEF Step
<1>4. CASE frame[c][f].stage \in Waiting \ {"fallback"}
  <2>1. CASE f \in {"inSol", "solUsd", "full", "cap"}
    BY <1>4, <2>1, GoOnCombining
  <2>2. CASE f = "unified"
    BY <1>4, <2>2, GoOnPriceService
  <2>3. CASE f \in Pools \cup {"oracle", "onchain", "supply"}
    <3>1. frame[c][f].stage \in StagesOf(f)
      BY DEF Asked
    <3>2. At(c, f, "work")
      BY <1>4, <2>3, <3>1 DEF StagesOf, Waiting, Later, Ended, Pools, At
    <3>3. QED
      BY <2>3, <3>2, GoOnFetching
  <2>4. QED
    BY <2>1, <2>2, <2>3 DEF Functions, Pools
<1>5. QED
  BY <1>1, <1>2, <1>3, <1>4 DEF Pending, Storing
=============================================================================
