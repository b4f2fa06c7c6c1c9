---------------------------- MODULE PriceCaches ----------------------------
(***************************************************************************)
(* How a price or a market cap is put together from caches that feed other *)
(* caches: MarketCapCalculator, PriceService, SolUsdOracle,                *)
(* ShyftPriceCalculator and OnchainPriceCalculator, for one mint.          *)
(*                                                                         *)
(* Each of their functions looks into Redis, asks further functions or a   *)
(* remote service when it finds nothing there, and stores what it made     *)
(* under a time to live of its own.  Nothing locks: callers miss together, *)
(* compute side by side and overwrite each other.  What an answer is made  *)
(* of is abstracted to born, when the oldest piece of data in it was       *)
(* fetched; the program does not know it, as it stamps an answer with the  *)
(* time at which it was put together.  Whether a pool has a price, whether *)
(* that is zero, and whether a pool's quote token is known is left open.   *)
(***************************************************************************)
EXTENDS Naturals

CONSTANTS
    Callers,        \* activities that ask for prices at the same time
    Rosters,        \* of each roster, asks[c] is what c may ask for: the
                    \* workers and the API ask for "unified" and "cap", the
                    \* handlers for "solUsd"; the rest is how far it goes,
                    \* within the bounds below
    Ttl,            \* Ttl[k]: seconds, or ticks, a key of the cache lives
    MaxLatency,     \* how long a call takes at most; nothing in the code
                    \* bounds it, as no request has a timeout
    None,           \* of a key that Redis does not hold
    MaxTime,        \* bound: the last tick
    MaxCalls,       \* bound: how many calls
    MaxFaults       \* bound: how often Redis fails

\* The functions, each with a key of its own in Redis: getMarketCap and
\* getTokenSupply, getTokenPrice of PriceService with the two functions it
\* alone calls, getSolUsdRate and getBestPrice; getTokenPrice,
\* getTokenPriceInSol, getSolUsdRate and, for three pairs, getPoolsByPair of
\* ShyftPriceCalculator; getSolUsdPrice; getPriceFromShyftPool for one pool.
Functions == {"cap", "supply", "unified", "full", "inSol", "solUsd", "oracle",
              "poolsSol", "poolsUsdc", "poolsUsdt", "onchain"}

\* The oracle keeps its price under a second key, for longer.
Keys == Functions \cup {"fallback"}

Pools == {"poolsSol", "poolsUsdc", "poolsUsdt"}

ASSUME PriceAssumption ==
    /\ Rosters \subseteq [asks : [Callers -> SUBSET {"cap", "unified", "solUsd"}],
                          time : 0..MaxTime, calls : 0..MaxCalls,
                          faults : 0..MaxFaults]
    /\ Ttl \in [Keys -> Nat]
    /\ MaxLatency \in Nat
    /\ MaxTime \in Nat
    /\ MaxCalls \in Nat /\ MaxFaults \in Nat
    /\ None \notin [born : Nat, expires : Nat]

VARIABLES
    roster,     \* who asks for what, and how far the behaviour goes
    now,        \* the time
    cache,      \* Redis: cache[k], born and the time it expires, or None
    frame,      \* frame[c][f]: how far c's call of f is and what it holds
    rate,       \* rate[c]: born of the SOL/USD rate that getTokenPrice holds
    started,    \* started[c]: when c's last call began
    calls,      \* how many calls were made
    faults      \* how often Redis failed

book == <<roster, now, started, calls>>
vars == <<book, cache, frame, rate, faults>>

(***************************************************************************)
(* A call of a function: "called" looks into the cache, "work" waits for   *)
(* what was asked for first, the stages after it for what was asked for    *)
(* then, "store" writes the cache.  It ends with a value, with null, or by *)
(* throwing.                                                               *)
(***************************************************************************)
Later == {"usdt", "fallback", "pools", "shyft", "find", "chain"}
Storing == {"store", "storeChain", "storeFallback"}
Waiting == {"work"} \cup Later
Pending == {"called"} \cup Waiting \cup Storing
Ended == {"value", "null", "threw"}
Stages == {"idle"} \cup Pending \cup Ended

Idle == [stage |-> "idle", born |-> 0]
Called == [stage |-> "called", born |-> 0]

At(c, f, stage) == frame[c][f].stage = stage
Over(c, f) == frame[c][f].stage \in Ended
Running(c) == \E f \in Functions : frame[c][f].stage \in Pending
Oldest(a, b) == IF a < b THEN a ELSE b

\* Whom a function calls.
Uses(f) ==
    CASE f = "cap" -> {"unified", "supply"}
      [] f = "unified" -> {"oracle", "solUsd", "full", "onchain"}
      [] f = "full" -> {"inSol", "solUsd"}
      [] f = "inSol" -> {"poolsSol"}
      [] f = "solUsd" -> {"poolsUsdc", "poolsUsdt"}
      [] OTHER -> {}

\* c's call of f is now at the stage, and those of asked begin; when it has
\* ended, or has its value, the answers it was given are of no use.
Move(c, f, stage, born, asked) ==
    frame' = [frame EXCEPT ![c] =
                 [g \in Functions |->
                     IF g = f THEN [stage |-> stage, born |-> born]
                     ELSE IF g \in asked THEN Called
                     ELSE IF g \in Uses(f) /\ stage \notin Waiting /\ Over(c, g) THEN Idle
                     ELSE frame[c][g]]]

Goto(c, f, stage) == Move(c, f, stage, 0, {})
Ask(c, f, stage, asked) == Move(c, f, stage, 0, asked)
Keep(c, f, born) == Move(c, f, "store", born, {})

Live(k) == cache[k] # None

\* One of the two: it goes well, or something fails.
Well == UNCHANGED faults
Fault == faults < roster.faults /\ faults' = faults + 1

-----------------------------------------------------------------------------
Init ==
    /\ roster \in Rosters
    /\ now = 0
    /\ cache = [k \in Keys |-> None]
    /\ frame = [c \in Callers |-> [f \in Functions |-> Idle]]
    /\ rate = [c \in Callers |-> 0]
    /\ started = [c \in Callers |-> 0]
    /\ calls = 0 /\ faults = 0

\* A worker, a handler or the API calls f.  What Promise.all left behind of
\* an earlier call is over by then: a caller is a name that is used again.
Call(c, f) ==
    /\ calls < roster.calls /\ ~Running(c)
    /\ calls' = calls + 1
    /\ frame' = [frame EXCEPT ![c] =
                    [g \in Functions |-> IF g = f THEN Called ELSE Idle]]
    /\ rate' = [rate EXCEPT ![c] = 0]
    /\ started' = [started EXCEPT ![c] = now]
    /\ UNCHANGED <<roster, now, cache, faults>>

\* Time passes, and Redis drops the keys whose time is over.
Tick ==
    /\ now < roster.time
    /\ \A c \in Callers : Running(c) => now < started[c] + MaxLatency
    /\ now' = now + 1
    /\ cache' = [k \in Keys |->
                   IF cache[k] # None /\ cache[k].expires <= now' THEN None
                   ELSE cache[k]]
    /\ UNCHANGED <<roster, frame, rate, started, calls, faults>>

-----------------------------------------------------------------------------
(***************************************************************************)
(* cache.get.                                                              *)
(***************************************************************************)
\* What a function asks for at once when it finds nothing: Promise.all
\* starts both.
First(f) ==
    CASE f = "cap" -> {"unified", "supply"}
      [] f = "unified" -> {"oracle"}
      [] f = "full" -> {"inSol", "solUsd"}
      [] f = "inSol" -> {"poolsSol"}
      [] f = "solUsd" -> {"poolsUsdc"}
      [] OTHER -> {}

\* Mutant: GETEX for GET, so that a key lives as long as it is read.
HitRenewing(c, f) ==
    /\ At(c, f, "called") /\ Live(f)
    /\ cache' = [cache EXCEPT ![f].expires = now + Ttl[f]]
    /\ Move(c, f, "value", cache[f].born, {})
    /\ UNCHANGED <<book, rate, faults>>

\* "if (cached) return".
Hit(c, f) ==
    /\ At(c, f, "called") /\ Live(f)
    /\ Move(c, f, "value", cache[f].born, {})
    /\ UNCHANGED <<book, cache, rate, faults>>

Miss(c, f) ==
    /\ At(c, f, "called") /\ ~Live(f)
    /\ Ask(c, f, "work", First(f))
    /\ UNCHANGED <<book, cache, rate, faults>>

\* getRedisClient() throws, or the read does: outside the function's try,
\* but for the price of a pool on chain.
LookFails(c, f) ==
    /\ At(c, f, "called")
    /\ Fault
    /\ Goto(c, f, IF f = "onchain" THEN "null" ELSE "threw")
    /\ UNCHANGED <<book, cache, rate>>

(***************************************************************************)
(* cache.set.                                                              *)
(***************************************************************************)
\* Mutant: SET for SETEX, so that what is not evicted lives for good.
EntryForGood(k, born) ==
    [cache EXCEPT ![k] = IF Ttl[k] = 0 THEN None
                         ELSE [born |-> born, expires |-> MaxTime + 1]]

\* SETEX; a time to live of zero stands for a key that Redis evicts at once.
Entry(k, born) ==
    [cache EXCEPT ![k] = IF Ttl[k] = 0 THEN None
                         ELSE [born |-> born, expires |-> now + Ttl[k]]]

\* The oracle's first key; the second one is the fallback.
Stored(c, f) ==
    /\ At(c, f, "store") \/ At(c, f, "storeChain")
    /\ cache' = Entry(f, frame[c][f].born)
    /\ Move(c, f, IF f = "oracle" THEN "storeFallback" ELSE "value",
            frame[c][f].born, {})
    /\ UNCHANGED <<book, rate, faults>>

\* Mutant: PriceService lets a failing write escape.
AfterStoreFailsEscaping(c, f) ==
    CASE f \in Pools \cup {"solUsd", "full", "unified"} -> Goto(c, f, "threw")
      [] f = "oracle" -> Goto(c, f, "fallback")
      [] OTHER -> Goto(c, f, "null")

\* Who catches what cache.set throws: the functions of ShyftPriceCalculator
\* but getTokenPriceInSol let it pass, the oracle turns to its fallback,
\* PriceService to the chain unless it comes from there.
AfterStoreFails(c, f) ==
    CASE f \in Pools \cup {"solUsd", "full"} -> Goto(c, f, "threw")
      [] f = "oracle" -> Goto(c, f, "fallback")
      [] f = "unified" /\ At(c, f, "store") -> Goto(c, f, "find")
      [] OTHER -> Goto(c, f, "null")

\* The write fails; it may have been applied, and only its reply be lost.
StoreFails(c, f) ==
    /\ At(c, f, "store") \/ At(c, f, "storeChain")
    /\ Fault
    /\ cache' \in {cache, Entry(f, frame[c][f].born)}
    /\ AfterStoreFails(c, f)
    /\ UNCHANGED <<book, rate>>

-----------------------------------------------------------------------------
(***************************************************************************)
(* ShyftPriceCalculator.                                                   *)
(***************************************************************************)
\* getPoolsByPair: the pools of a pair are stored, an empty list among them
\* when Shyft says so; 404, 417 and "success: false" give [] without being
\* stored, which is null here, and another status throws.
FetchPools(c, f) ==
    /\ f \in Pools /\ At(c, f, "work")
    /\ \/ Well /\ Keep(c, f, now)
       \/ Fault /\ (Goto(c, f, "null") \/ Goto(c, f, "threw"))
    /\ UNCHANGED <<book, cache, rate>>

\* A value that is of no use.  Which pools have a price is left open: it is
\* zero when a reserve is zero, as both are unless the pool gives a
\* sqrtPriceX64.
Useless(c, f) == At(c, f, "value") /\ Fault

\* The answer of f is the stage given, or of no use: a list that is empty, as
\* when no pool has the fields of a format that is known, a price of zero, a
\* quote token without a price.
Nothing(c, f, stage) ==
    \/ At(c, f, stage) /\ Well
    \/ Useless(c, f)

\* getTokenPriceInSol: the first pool's price, be it zero; null when there
\* is no pool, and when getPoolsByPair throws.
PriceInSol(c) ==
    /\ At(c, "inSol", "work")
    /\ \/ /\ Well /\ At(c, "poolsSol", "value")
          /\ Keep(c, "inSol", frame[c]["poolsSol"].born)
       \/ /\ Nothing(c, "poolsSol", "null") \/ Nothing(c, "poolsSol", "threw")
          /\ Goto(c, "inSol", "null")
    /\ UNCHANGED <<book, cache, rate>>

\* getSolUsdRate: the first pool with a price, of SOL/USDC or, when there
\* are none, of SOL/USDT; it throws when no pool has one.
SolUsdRate(c) ==
    /\ \/ /\ At(c, "solUsd", "work") /\ At(c, "poolsUsdc", "value") /\ Well
          /\ Keep(c, "solUsd", frame[c]["poolsUsdc"].born)
       \/ /\ At(c, "solUsd", "usdt") /\ At(c, "poolsUsdt", "value") /\ Well
          /\ Keep(c, "solUsd", frame[c]["poolsUsdt"].born)
       \/ /\ At(c, "solUsd", "work") /\ Nothing(c, "poolsUsdc", "null")
          /\ Ask(c, "solUsd", "usdt", {"poolsUsdt"})
       \/ /\ At(c, "solUsd", "work") /\ Nothing(c, "poolsUsdc", "threw")
          /\ Goto(c, "solUsd", "threw")
       \/ /\ At(c, "solUsd", "usdt")
          /\ Nothing(c, "poolsUsdt", "null") \/ Nothing(c, "poolsUsdt", "threw")
          /\ Goto(c, "solUsd", "threw")
    /\ UNCHANGED <<book, cache, rate>>

\* Mutant: no answer when there is no price in SOL.
FullPriceUnchecked(c) ==
    /\ At(c, "full", "work")
    /\ \/ /\ At(c, "inSol", "threw") \/ At(c, "solUsd", "threw")
          /\ Goto(c, "full", "threw")
       \/ /\ At(c, "inSol", "value") /\ At(c, "solUsd", "value")
          /\ Keep(c, "full", Oldest(frame[c]["inSol"].born,
                                    frame[c]["solUsd"].born))
    /\ UNCHANGED <<book, cache, rate, faults>>

\* getTokenPrice: Promise.all rejects as soon as one of the two throws, the
\* other one goes on; null when there is no price in SOL.
FullPrice(c) ==
    /\ At(c, "full", "work")
    /\ \/ /\ At(c, "inSol", "threw") \/ At(c, "solUsd", "threw")
          /\ Goto(c, "full", "threw")
       \/ /\ At(c, "inSol", "null") /\ At(c, "solUsd", "value")
          /\ Goto(c, "full", "null")
       \/ /\ At(c, "inSol", "value") /\ At(c, "solUsd", "value")
          /\ Keep(c, "full", Oldest(frame[c]["inSol"].born,
                                    frame[c]["solUsd"].born))
    /\ UNCHANGED <<book, cache, rate, faults>>

-----------------------------------------------------------------------------
(***************************************************************************)
(* SolUsdOracle, and getSolUsdRate of PriceService.                        *)
(***************************************************************************)
\* fetchPythPrice: a positive price, or null, in which case, as when a write
\* fails, the fallback is looked up.
FetchPyth(c) ==
    /\ At(c, "oracle", "work")
    /\ \/ Well /\ Keep(c, "oracle", now)
       \/ Fault /\ Goto(c, "oracle", "fallback")
    /\ UNCHANGED <<book, cache, rate>>

\* cache.set of the second key.
StoreFallback(c) ==
    /\ At(c, "oracle", "storeFallback")
    /\ LET born == frame[c]["oracle"].born
       IN  \/ /\ cache' = Entry("fallback", born)
              /\ Move(c, "oracle", "value", born, {})
              /\ UNCHANGED faults
           \/ /\ Fault
              /\ cache' \in {cache, Entry("fallback", born)}
              /\ Goto(c, "oracle", "fallback")
    /\ UNCHANGED <<book, rate>>

\* cache.get of the second key: what it holds is not stored again.
Fallback(c) ==
    /\ At(c, "oracle", "fallback")
    /\ \/ /\ Live("fallback")
          /\ Move(c, "oracle", "value", cache["fallback"].born, {})
          /\ UNCHANGED faults
       \/ ~Live("fallback") /\ Goto(c, "oracle", "null") /\ UNCHANGED faults
       \/ Fault /\ Goto(c, "oracle", "threw")
    /\ UNCHANGED <<book, cache, rate>>

-----------------------------------------------------------------------------
(***************************************************************************)
(* OnchainPriceCalculator, asked for one pool of the token.                *)
(***************************************************************************)
\* getPriceFromShyftPool; whatever is thrown is caught, by cache.get too.
FetchPoolInfo(c) ==
    /\ At(c, "onchain", "work")
    /\ \/ Well /\ Keep(c, "onchain", now)
       \/ Fault /\ Goto(c, "onchain", "null")
    /\ UNCHANGED <<book, cache, rate>>

-----------------------------------------------------------------------------
(***************************************************************************)
(* PriceService.getTokenPrice.                                             *)
(***************************************************************************)
\* getSolUsdRate, outside the try blocks: the oracle's rate or, when it has
\* none or throws, that of the pools.
RateOf(c, f) ==
    /\ At(c, f, "value") /\ Well
    /\ rate' = [rate EXCEPT ![c] = frame[c][f].born]
    /\ Ask(c, "unified", "shyft", {"full"})

Rate(c) ==
    /\ \/ At(c, "unified", "work") /\ RateOf(c, "oracle")
       \/ /\ At(c, "unified", "work") /\ Well
          /\ At(c, "oracle", "null") \/ At(c, "oracle", "threw")
          /\ Ask(c, "unified", "pools", {"solUsd"})
          /\ UNCHANGED rate
       \/ At(c, "unified", "pools") /\ RateOf(c, "solUsd")
       \/ /\ At(c, "unified", "pools") /\ At(c, "solUsd", "threw") /\ Well
          /\ Goto(c, "unified", "threw")
          /\ UNCHANGED rate
    /\ UNCHANGED <<book, cache>>

\* The price of Shyft's pools, if it is positive.
ShyftPrice(c) ==
    /\ At(c, "unified", "shyft")
    /\ \/ /\ At(c, "full", "value") /\ Well
          /\ Keep(c, "unified", frame[c]["full"].born)
       \/ /\ Nothing(c, "full", "null") \/ Nothing(c, "full", "threw")
          /\ Goto(c, "unified", "find")
    /\ UNCHANGED <<book, cache, rate>>

\* findPoolsForToken: the pool, or none, also when the request fails.
FindPools(c) ==
    /\ At(c, "unified", "find")
    /\ \/ /\ Well
          /\ Ask(c, "unified", "chain", {"onchain"})
       \/ Fault /\ Goto(c, "unified", "null")
    /\ UNCHANGED <<book, cache, rate>>

\* calculateUsdPrice: the pool's price by the rate that was asked for first.
UsdPrice(c) == Oldest(frame[c]["onchain"].born, rate[c])

\* getBestPrice: the pool's price, or null; null also when its quote token
\* has no price.
OnchainPrice(c) ==
    /\ At(c, "unified", "chain")
    /\ \/ /\ At(c, "onchain", "value") /\ Well
          /\ Move(c, "unified", "storeChain", UsdPrice(c), {})
       \/ Nothing(c, "onchain", "null") /\ Goto(c, "unified", "null")
    /\ UNCHANGED <<book, cache, rate>>

-----------------------------------------------------------------------------
(***************************************************************************)
(* MarketCapCalculator.                                                    *)
(***************************************************************************)
\* getTokenSupply, with what the burn addresses hold.
FetchSupply(c) ==
    /\ At(c, "supply", "work")
    /\ \/ Well /\ Keep(c, "supply", now)
       \/ Fault /\ Goto(c, "supply", "null")
    /\ UNCHANGED <<book, cache, rate>>

\* getMarketCap: both at once; null if either is missing or throws.
MarketCap(c) ==
    /\ At(c, "cap", "work")
    /\ \/ /\ At(c, "unified", "threw") \/ At(c, "supply", "threw")
          /\ Goto(c, "cap", "null")
       \/ /\ Over(c, "unified") /\ Over(c, "supply")
          /\ At(c, "unified", "null") \/ At(c, "supply", "null")
          /\ Goto(c, "cap", "null")
       \/ /\ At(c, "unified", "value") /\ At(c, "supply", "value")
          /\ Keep(c, "cap", Oldest(frame[c]["unified"].born,
                                   frame[c]["supply"].born))
    /\ UNCHANGED <<book, cache, rate, faults>>

-----------------------------------------------------------------------------
Step(c) ==
    \/ \E f \in Functions :
          \/ Hit(c, f) \/ Miss(c, f) \/ LookFails(c, f)
          \/ Stored(c, f) \/ StoreFails(c, f)
    \/ \E f \in Pools : FetchPools(c, f)
    \/ PriceInSol(c) \/ SolUsdRate(c) \/ FullPrice(c)
    \/ FetchPyth(c) \/ StoreFallback(c) \/ Fallback(c)
    \/ FetchPoolInfo(c)
    \/ Rate(c) \/ ShyftPrice(c) \/ FindPools(c) \/ OnchainPrice(c)
    \/ FetchSupply(c) \/ MarketCap(c)

Next ==
    \/ \E c \in Callers : \E f \in roster.asks[c] : Call(c, f)
    \/ \E c \in Callers : Step(c)
    \/ Tick

\* Redis and the remote services answer, though perhaps with an error; the
\* code waits for them without a timeout.
Fairness == \A c \in Callers : WF_vars(Step(c))

Spec == Init /\ [][Next]_vars /\ Fairness

-----------------------------------------------------------------------------
(***************************************************************************)
(* How old the data of an answer may be: the times to live of the keys it  *)
(* may have passed through, and a call's latency for each of them.         *)
(***************************************************************************)
Larger(a, b) == IF a < b THEN b ELSE a

Lives(k) == Ttl[k] + MaxLatency

OfSol == Lives("inSol") + Lives("poolsSol")
OfSolUsd == Lives("solUsd") + Larger(Lives("poolsUsdc"), Lives("poolsUsdt"))
OfFull == Lives("full") + Larger(OfSol, OfSolUsd)
OfRate == Larger(Larger(Lives("oracle"), Lives("fallback")), OfSolUsd)
OfUnified ==
    Lives("unified") + Larger(OfFull, Larger(OfRate, Lives("onchain")))
OfCap == Lives("cap") + Larger(OfUnified, Lives("supply"))

\* The age that data may reach in the cache under a key.
Bound(k) ==
    CASE k = "inSol" -> OfSol
      [] k = "solUsd" -> OfSolUsd
      [] k = "full" -> OfFull
      [] k = "unified" -> OfUnified
      [] k = "cap" -> OfCap
      [] OTHER -> Lives(k)

\* The age of what a function returns, when it was called.
Reach(f) ==
    IF f = "oracle" THEN Larger(Lives("oracle"), Lives("fallback")) ELSE Bound(f)

-----------------------------------------------------------------------------
Data == [born : 0..MaxTime, expires : Nat]

TypeOK ==
    /\ roster \in Rosters
    /\ now \in 0..MaxTime
    /\ \A k \in Keys : cache[k] = None \/ cache[k] \in Data
    /\ frame \in [Callers -> [Functions -> [stage : Stages, born : 0..MaxTime]]]
    /\ rate \in [Callers -> 0..MaxTime]
    /\ started \in [Callers -> 0..MaxTime]
    /\ calls \in 0..MaxCalls /\ faults \in 0..MaxFaults

\* No data stays in Redis for longer than its bound: however callers
\* interleave, overwrite each other's answers and fail in between, nothing
\* that was read from one cache is written into another one for longer than
\* the chain of caches above it explains.
StoredBounded ==
    \A k \in Keys : cache[k] # None => cache[k].expires <= cache[k].born + Bound(k)

\* What a caller is given was, when it called, at most as old as that:
\* with the times to live of the code, a market cap may rest on pools read
\* 300 + 60 + 60 + 30 + 60 seconds ago, five latencies aside, although its
\* timestamp says now.
AnswersBounded ==
    \A c \in Callers, f \in Functions :
        At(c, f, "value") => started[c] <= frame[c][f].born + Reach(f)

\* Once there is a SOL/USD rate, getTokenPrice does not throw: what the
\* sources of the price throw, and what the cache throws on writing, ends in
\* the other source or in null (PriceService.ts:100-156).
Escapes(c) ==
    At(c, "unified", "threw")' =>
        \/ At(c, "unified", "threw") \/ At(c, "unified", "called")
        \/ At(c, "unified", "pools") /\ At(c, "solUsd", "threw")

FailuresAreContained == [][\A c \in Callers : Escapes(c)]_vars

\* No call is ever stuck: whichever of its functions it waits for is under
\* way or has ended in a way the waiting function knows how to go on from,
\* what Promise.all left behind included.
NobodyIsStuck == \A c \in Callers : Running(c) => ENABLED Step(c)
=============================================================================
