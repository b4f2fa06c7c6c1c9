----------------------------- MODULE HolderScan -----------------------------
(***************************************************************************)
(* How the holders of one token are listed: HolderScanner, with its two    *)
(* caches, over ShyftClient.getAllHolders, which reads the list page by    *)
(* page at growing offsets, and over the RPC node, which returns all of it *)
(* at once.                                                                *)
(*                                                                         *)
(* The list moves while it is read: a transfer puts a wallet in another    *)
(* place, new holders come and others go.  The offset counts places and    *)
(* not wallets, so that a move across it hides a wallet from the scan or   *)
(* shows it twice.  Balances, percentages and the token's metadata, by     *)
(* which they are scaled, are left out.                                    *)
(***************************************************************************)
EXTENDS Naturals, FiniteSets, Sequences, SequencesExt

CONSTANTS
    Wallets,
    Callers,        \* jobs and requests that analyze the token
    PageSize,       \* 100
    MaxPages,       \* maxHolders / 100, 10
    HoldersTtl,     \* cacheTtl, 60 s
    AnalysisTtl,    \* twice as long
    MaxLatency,     \* how long a call takes at most; nothing in the code
                    \* bounds it
    None,           \* of a key that Redis does not hold
    Scenarios,      \* bound: how many moves, ticks and calls there are
    MaxFaults       \* bound: how many requests and writes fail

ASSUME HolderScanAssumption ==
    /\ IsFiniteSet(Wallets)
    /\ PageSize \in Nat \ {0} /\ MaxPages \in Nat \ {0}
    /\ HoldersTtl \in Nat \ {0} /\ AnalysisTtl \in Nat \ {0}
    /\ MaxLatency \in Nat /\ MaxFaults \in Nat
    /\ Scenarios \subseteq [moves : Nat, ticks : Nat, calls : Nat]

VARIABLES
    left,       \* the moves, ticks and calls that are still to come
    faults,     \* how often something failed
    now,        \* the time
    ledger,     \* the list as the service would return it
    cache,      \* the lists under holders: and holders:analysis:
    scan        \* scan[c]: the call of c

vars == <<left, faults, now, ledger, cache, scan>>

Keys == {"holders", "analysis"}
Ttl == [holders |-> HoldersTtl, analysis |-> AnalysisTtl]

\* at: the await that c is in; got: what was read so far, and the list that
\* came of it; born: when that was begun; began: when c was called.  Moves
\* and steady are history: how often the list has moved since its first page
\* was asked for, and who has been in it all the time.
Reading == {"pages", "rpc"}
Busy == {"analysis", "holders", "metadata", "storeHolders", "storeRpc", "storeAnalysis"}
            \cup Reading
Ended == {"answered", "null", "threw"}
Stages == {"idle"} \cup Busy \cup Ended

Idle == [at |-> "idle", offset |-> 0, got |-> <<>>, born |-> 0, began |-> 0,
         moves |-> 0, steady |-> {}]

At(c, stage) == scan[c].at = stage
Running(c) == scan[c].at \in Busy
Goto(c, stage) == scan' = [scan EXCEPT ![c].at = stage]

Well == UNCHANGED faults
Fault == faults < MaxFaults /\ faults' = faults + 1

Init ==
    /\ left \in Scenarios
    /\ faults = 0 /\ now = 0
    /\ ledger \in UNION {Injection(1..n, Wallets) : n \in 0..Cardinality(Wallets)}
    /\ cache = [k \in Keys |-> None]
    /\ scan = [c \in Callers |-> Idle]

-----------------------------------------------------------------------------
\* The lists that one transfer makes of the list: a wallet comes, goes or
\* finds another place.
Moved(list) ==
    {RemoveAt(list, j) : j \in 1..Len(list)}
      \cup {InsertAt(list, i, w) : i \in 1..Len(list) + 1, w \in Wallets \ ToSet(list)}
      \cup {InsertAt(RemoveAt(list, j), i, list[j]) : i \in 1..Len(list), j \in 1..Len(list)}

Move ==
    /\ left.moves > 0
    /\ left' = [left EXCEPT !.moves = @ - 1]
    /\ ledger' \in Moved(ledger) \ {ledger}
    /\ scan' = [c \in Callers |->
                  IF At(c, "pages")
                  THEN [scan[c] EXCEPT !.moves = @ + 1, !.steady = @ \cap ToSet(ledger')]
                  ELSE scan[c]]
    /\ UNCHANGED <<faults, now, cache>>

\* Time passes, and Redis drops the keys whose time is over.
Tick ==
    /\ left.ticks > 0
    /\ \A c \in Callers : Running(c) => now < scan[c].began + MaxLatency
    /\ left' = [left EXCEPT !.ticks = @ - 1]
    /\ now' = now + 1
    /\ cache' = [k \in Keys |->
                   IF cache[k] # None /\ cache[k].expires <= now' THEN None ELSE cache[k]]
    /\ UNCHANGED <<faults, ledger, scan>>

\* analyzeHolders is called.
Call(c) ==
    /\ left.calls > 0 /\ ~Running(c)
    /\ left' = [left EXCEPT !.calls = @ - 1]
    /\ scan' = [scan EXCEPT ![c] = [Idle EXCEPT !.at = "analysis", !.began = now]]
    /\ UNCHANGED <<faults, now, ledger, cache>>

-----------------------------------------------------------------------------
\* Found in the cache: the list goes on to the next stage.
Found(c, k, next) ==
    /\ cache[k] # None
    /\ scan' = [scan EXCEPT ![c].at = next, ![c].got = cache[k].list, ![c].born = cache[k].born]

\* Mutant: what is found is stored once more, for another time to live.
LookUpAnalysisRenewing(c) ==
    /\ At(c, "analysis")
    /\ \/ Well /\ Found(c, "analysis", "storeAnalysis")
       \/ Well /\ cache["analysis"] = None /\ Goto(c, "holders")
       \/ Fault /\ Goto(c, "threw")

\* analyzeHolders: its cache, which may throw.
LookUpAnalysis(c) ==
    /\ At(c, "analysis")
    /\ \/ Well /\ Found(c, "analysis", "answered")
       \/ Well /\ cache["analysis"] = None /\ Goto(c, "holders")
       \/ Fault /\ Goto(c, "threw")

\* getHolders: likewise; an analysis is then made at once.
LookUpHolders(c) ==
    /\ At(c, "holders")
    /\ \/ Well /\ Found(c, "holders", IF cache["holders"].list = <<>> THEN "null" ELSE "storeAnalysis")
       \/ Well /\ cache["holders"] = None /\ Goto(c, "metadata")
       \/ Fault /\ Goto(c, "threw")

\* The list is read from its beginning.
Begin(c, stage) ==
    scan' = [scan EXCEPT ![c] = [@ EXCEPT !.at = stage, !.offset = 0, !.got = <<>>,
                                          !.born = now, !.moves = 0,
                                          !.steady = ToSet(ledger)]]

\* getTokenMetadata: its value only scales the balances, and it is null when
\* it cannot be had; but reading its cache may throw.
Metadata(c) ==
    /\ At(c, "metadata")
    /\ \/ Well /\ Begin(c, "pages")
       \/ Fault /\ Begin(c, "rpc")

-----------------------------------------------------------------------------
Least(a, b) == IF a < b THEN a ELSE b

\* Up to so many places of the list.
Part(first, last) == SubSeq(ledger, first, Least(last, Len(ledger)))

Page(offset) == Part(offset + 1, offset + PageSize)

\* The list that was read is sorted and stored, unless it is empty.
Read(c, got) ==
    IF got = <<>> THEN Begin(c, "rpc")
    ELSE scan' = [scan EXCEPT ![c].at = "storeHolders", ![c].got = got]

\* Mutant: a page that was lost after it was read is read again.
ReadPageTwice(c) ==
    LET page == Page(scan[c].offset)
        got == scan[c].got \o page
        next == scan[c].offset + PageSize
    IN  /\ At(c, "pages")
        /\ \/ Fault /\ scan' = [scan EXCEPT ![c].got = got]
           \/ /\ Well
              /\ IF Len(page) < PageSize \/ next >= MaxPages * PageSize THEN Read(c, got)
                 ELSE scan' = [scan EXCEPT ![c].got = got, ![c].offset = next]

\* Mutant: one place too many is passed over.
ReadPageSkipping(c) ==
    LET page == Page(scan[c].offset)
        got == scan[c].got \o page
        next == scan[c].offset + PageSize + 1
    IN  /\ At(c, "pages") /\ Well
        /\ IF Len(page) < PageSize \/ next >= MaxPages * PageSize THEN Read(c, got)
           ELSE scan' = [scan EXCEPT ![c].got = got, ![c].offset = next]

\* getAllHolders: one page, until a page is not full or there were maxPages;
\* withRetry throws in the end when the service keeps failing.
ReadPage(c) ==
    LET page == Page(scan[c].offset)
        got == scan[c].got \o page
        next == scan[c].offset + PageSize
    IN  /\ At(c, "pages")
        /\ \/ /\ Well
              /\ IF Len(page) < PageSize \/ next >= MaxPages * PageSize THEN Read(c, got)
                 ELSE scan' = [scan EXCEPT ![c].got = got, ![c].offset = next]
           \/ Fault /\ Begin(c, "rpc")

\* getHoldersFromRpc: the first maxHolders at once, or [] when it fails.
ReadRpc(c) ==
    /\ At(c, "rpc")
    /\ \/ /\ Well
          /\ scan' = [scan EXCEPT
                        ![c] = [@ EXCEPT !.at = "storeRpc", !.born = now,
                                         !.steady = ToSet(ledger),
                                         !.got = Part(1, MaxPages * PageSize)]]
       \/ Fault /\ Goto(c, "null")

-----------------------------------------------------------------------------
Entry(c, k) ==
    [cache EXCEPT ![k] = [list |-> scan[c].got, born |-> scan[c].born, expires |-> now + Ttl[k]]]

\* cache.set of the list, then analyzeHolders, for which no holder is no
\* analysis.
StoreHolders(c) ==
    /\ At(c, "storeHolders") \/ At(c, "storeRpc")
    /\ cache' = Entry(c, "holders")
    /\ Goto(c, IF scan[c].got = <<>> THEN "null" ELSE "storeAnalysis")
    /\ Well

\* The write of the list fails, with or without effect: the RPC node is asked
\* instead; when the list is its, there is none.
StoreHoldersFails(c) ==
    /\ cache' \in {cache, Entry(c, "holders")}
    /\ Fault
    /\ \/ At(c, "storeHolders") /\ Begin(c, "rpc")
       \/ At(c, "storeRpc") /\ Goto(c, "null")

\* cache.set of the analysis: what it throws escapes.
StoreAnalysis(c) ==
    /\ At(c, "storeAnalysis")
    /\ \/ Well /\ cache' = Entry(c, "analysis") /\ Goto(c, "answered")
       \/ Fault /\ cache' \in {cache, Entry(c, "analysis")} /\ Goto(c, "threw")

Step(c) ==
    /\ \/ /\ \/ LookUpAnalysis(c) \/ LookUpHolders(c) \/ Metadata(c)
             \/ ReadPage(c) \/ ReadRpc(c)
          /\ UNCHANGED cache
       \/ StoreHolders(c) \/ StoreHoldersFails(c) \/ StoreAnalysis(c)
    /\ UNCHANGED <<left, now, ledger>>

Next == Move \/ Tick \/ \E c \in Callers : Call(c) \/ Step(c)

Spec == Init /\ [][Next]_vars

-----------------------------------------------------------------------------
TypeOK ==
    /\ left \in [moves : Nat, ticks : Nat, calls : Nat]
    /\ faults \in 0..MaxFaults /\ now \in Nat
    /\ ledger \in Seq(Wallets) /\ IsInjective(ledger)
    /\ \A k \in Keys :
          cache[k] # None =>
              /\ cache[k].list \in Seq(Wallets)
              /\ Len(cache[k].list) <= MaxPages * PageSize
    /\ \A c \in Callers :
          /\ scan[c].at \in Stages
          /\ scan[c].got \in Seq(Wallets)
          /\ Len(scan[c].got) <= MaxPages * PageSize

\* A list that has just been read, page by page or at once.
JustRead(c) == At(c, "storeHolders") \/ At(c, "storeRpc")

\* A scan misses no more of the wallets that held the token all the time it
\* took than the list moved meanwhile, the limit of maxHolders aside: the
\* holder count, and what the concentration is computed from, are off by no
\* more than that (ShyftClient.ts:214, HolderScanner.ts:343).
MissesBounded ==
    \A c \in Callers : JustRead(c) =>
        LET seen == Cardinality(ToSet(scan[c].got))
            all == Cardinality(scan[c].steady)
        IN  seen + scan[c].moves >= Least(all, MaxPages * PageSize)

\* Nor does it list a wallet twice more often than that.
RepeatsBounded ==
    \A c \in Callers : JustRead(c) =>
        Len(scan[c].got) <= Cardinality(ToSet(scan[c].got)) + scan[c].moves

\* A list, cached or answered, is never older than the caches it may have
\* gone through explain, although the analysis is stamped with the time it
\* was put together and its snapshot with the time it was inserted: 60 s for
\* the list and 120 s for the analysis, a latency each (HolderScanner.ts:351).
Age(k) == IF k = "holders" THEN HoldersTtl + MaxLatency
          ELSE HoldersTtl + AnalysisTtl + 2 * MaxLatency

AgeBounded ==
    /\ \A k \in Keys : cache[k] # None => cache[k].expires <= cache[k].born + Age(k)
    /\ \A c \in Callers : At(c, "answered") => scan[c].began <= scan[c].born + Age("analysis")
=============================================================================
