--------------------------- MODULE MCPriceCaches ---------------------------
(* Small instances of PriceCaches for TLC. *)
EXTENDS PriceCaches

CONSTANTS c1, c2, Lasting

\* One caller asks for market caps again and again ...
MarketCaps == [c \in Callers |-> IF c = c1 THEN {"cap"} ELSE {}]

\* ... or one asks for prices while another one asks for the SOL/USD rate.
Prices == [c \in Callers |-> IF c = c1 THEN {"unified"} ELSE {"solUsd"}]

\* Both with failures for a short time, and the second without any on a clock
\* that runs past the bound of every key that lives and of a price.
MCRosters ==
    {[asks |-> MarketCaps, time |-> 2, calls |-> 3, faults |-> 2],
     [asks |-> Prices, time |-> 2, calls |-> 3, faults |-> 1],
     [asks |-> Prices, time |-> MaxTime, calls |-> MaxCalls, faults |-> 0]}

\* A chain of caches in which, as in the code, the pools outlast what is made
\* of them, so that the rate is made anew from pools that are not; the keys
\* that do not last are evicted at once.
MCTtl == [k \in Keys |-> CASE k = "poolsUsdc" -> 2
                           [] k \in Lasting -> 1
                           [] OTHER -> 0]
=============================================================================
